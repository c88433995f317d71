----------------------------- MODULE PartProofs -----------------------------
(***************************************************************************)
(* What the parts promise that are checked on their own, for any value of  *)
(* their constants: the admission of requests, that each is let in once; the *)
(* resolver's cache, that an expired address is being replaced; enrolment, *)
(* that an agent's rows are one host's; logins, that who is let in holds   *)
(* what lets them in; and a bucket, that it measures what happened.        *)
(***************************************************************************)
EXTENDS Admission, ResolverCache, Enrolment, Access, Bucket, SequenceTheorems, TLAPS

-----------------------------------------------------------------------------
(* The nonces of requests.                                                 *)

Requests == [agent : Senders, nonce : Nonces, stamp : Int]

Verdicts == [request : Requests, at : Int, answer : {"ok", "replay", "limited"}]

(* The budget plays no part: a request it turns away leaves no nonce.      *)
AdmissionTyped ==
  /\ second \in Int
  /\ signed \in SUBSET Requests
  /\ \A n \in DOMAIN seen : seen[n] \in Int
  /\ verdicts \in Seq(Verdicts)

(* A nonce tells requests apart, and what was checked had been signed.     *)
NoncesDiffer == \A r, q \in signed : r.nonce = q.nonce => r = q

CheckedWereSigned == \A k \in DOMAIN verdicts : verdicts[k].request \in signed

(* Why an admitted request cannot be admitted again: its nonce is in the   *)
(* cache; or so long ago was it that its stamp is out of range; or its     *)
(* sender was ahead by all that is allowed, less how late a handler is.    *)
Spent(v) ==
  \/ v.request.nonce \in DOMAIN seen /\ seen[v.request.nonce] = v.at
  \/ second > v.at + NonceKept
  \/ v.request.stamp > v.at + SkewAllowed - Late

AdmittedAreSpent == \A k \in Answered("ok") : Spent(verdicts[k])

AdmissionInv ==
  /\ AdmissionTyped
  /\ NoncesDiffer
  /\ CheckedWereSigned
  /\ AdmittedAreSpent
  /\ AdmittedOnce

-----------------------------------------------------------------------------
(* A check: what is in the cache after the sweep is what is in time.       *)
LEMMA SweptIsSeen ==
  ASSUME NEW now \in Int, AdmissionTyped
  PROVE  /\ DOMAIN Swept(now) \subseteq DOMAIN seen
         /\ \A n \in DOMAIN Swept(now) : Swept(now)[n] = seen[n]
         /\ \A n \in DOMAIN seen \ DOMAIN Swept(now) : now - seen[n] > NonceKept
<1> USE AdmissionAssumption DEF AdmissionTyped
<1>1. CASE now - swept >= SweepEvery
  <2> DEFINE young == {m \in DOMAIN seen : now - seen[m] <= NonceKept}
  <2>1. Swept(now) = [n \in young |-> seen[n]]
    BY <1>1 DEF Swept
  <2>2. \A n \in DOMAIN seen : seen[n] \in Int /\ NonceKept \in Int
    OBVIOUS
  <2> QED
    BY <2>1, <2>2
<1>2. CASE ~(now - swept >= SweepEvery)
  BY <1>2 DEF Swept
<1> QED
  BY <1>1, <1>2

(* A check that does not let its request in keeps what is spent spent.     *)
LEMMA SweepKeepsSpent ==
  ASSUME AdmissionTyped, NEW v \in Verdicts, Spent(v), NEW behind \in 0..Late,
         seen' = Swept(second - behind), second' = second
  PROVE  Spent(v)'
<1> DEFINE now == second - behind
<1> USE AdmissionAssumption DEF AdmissionTyped, Verdicts, Requests
<1>1. now \in Int /\ now <= second
  OBVIOUS
<1>2. CASE v.request.nonce \in DOMAIN seen /\ seen[v.request.nonce] = v.at
  <2>1. CASE v.request.nonce \in DOMAIN Swept(now)
    BY <1>1, <1>2, <2>1, SweptIsSeen DEF Spent
  <2>2. CASE v.request.nonce \notin DOMAIN Swept(now)
    <3>1. now - seen[v.request.nonce] > NonceKept
      BY <1>1, <1>2, <2>2, SweptIsSeen
    <3>2. now - v.at > NonceKept
      BY <1>2, <3>1
    <3>3. {now, second, v.at, NonceKept} \subseteq Int /\ now <= second
      BY <1>1
    <3>4. second > v.at + NonceKept
      <4> HIDE DEF now
      <4> QED
        BY ONLY <3>2, <3>3
    <3> QED
      BY <3>4 DEF Spent
  <2> QED
    BY <2>1, <2>2
<1>3. CASE second > v.at + NonceKept \/ v.request.stamp > v.at + SkewAllowed - Late
  BY <1>3 DEF Spent
<1> QED
  BY <1>2, <1>3 DEF Spent

(* When the cache may forget a nonce, the stamp it came with is out of     *)
(* range.                                                                  *)
LEMMA Overdue ==
  ASSUME NEW a \in Int, NEW x \in Int, NEW t \in Int, NEW n \in Int, NEW skew \in Int,
         NEW kept \in Int, NEW delay \in Int,
         t > a + kept, 2 * skew <= kept, n - x <= skew, t <= n + delay
  PROVE  x > a + skew - delay
OBVIOUS

(* ... and one that does lets in no request that is spent, except one      *)
(* whose sender was ahead.                                                 *)
LEMMA SpentOrAhead ==
  ASSUME AdmissionTyped, NEW v \in Verdicts, Spent(v), NEW r \in Requests, NEW behind \in 0..Late,
         v.request = r, Fresh(r, second - behind),
         ~Known(Swept(second - behind), r.nonce, second - behind)
  PROVE  r.stamp > v.at + SkewAllowed - Late
<1> DEFINE now == second - behind
<1> USE AdmissionAssumption DEF AdmissionTyped, Verdicts, Requests
<1>1. now \in Int /\ now <= second /\ second <= now + Late
  <2>1. second \in Int /\ Late \in Int /\ behind \in Int /\ 0 <= behind /\ behind <= Late
    OBVIOUS
  <2> QED
    BY ONLY <2>1
<1>2. ASSUME second > v.at + NonceKept
      PROVE  r.stamp > v.at + SkewAllowed - Late
  <2>1. now - r.stamp <= SkewAllowed
    BY <1>1 DEF Fresh
  <2>2. /\ {SkewAllowed, NonceKept, Late} \subseteq Int /\ 2 * SkewAllowed <= NonceKept
        /\ {v.at, r.stamp, second, now} \subseteq Int
    BY <1>1
  <2> HIDE DEF now
  <2> QED
    BY ONLY <1>1, <1>2, <2>1, <2>2, Overdue
<1>3. CASE r.nonce \in DOMAIN seen /\ seen[r.nonce] = v.at
  <2>1. now - v.at > NonceKept
    <3>1. CASE r.nonce \in DOMAIN Swept(now)
      <4>1. Swept(now)[r.nonce] = v.at
        BY <1>1, <1>3, <3>1, SweptIsSeen
      <4>2. ~(now - Swept(now)[r.nonce] <= NonceKept)
        BY <3>1 DEF Known
      <4>3. {now, v.at, NonceKept} \subseteq Int
        BY <1>1
      <4> HIDE DEF now
      <4> QED
        BY ONLY <4>1, <4>2, <4>3
    <3>2. CASE r.nonce \notin DOMAIN Swept(now)
      <4>1. now - seen[r.nonce] > NonceKept
        BY <1>1, <1>3, <3>2, SweptIsSeen
      <4> QED
        BY <4>1, <1>3
    <3> QED
      BY <3>1, <3>2
  <2>2. second > v.at + NonceKept
    <3>1. {now, second, v.at, NonceKept} \subseteq Int /\ now <= second
      BY <1>1
    <3> HIDE DEF now
    <3> QED
      BY ONLY <2>1, <3>1
  <2> QED
    BY <1>2, <2>2
<1> QED
  BY <1>2, <1>3 DEF Spent

-----------------------------------------------------------------------------
(* A check of one request: the verdict it adds, and the two cases.         *)
LEMMA CheckKeepsIt ==
  ASSUME AdmissionInv, NEW r \in signed, NEW behind \in 0..Late, Check(r, second - behind)
  PROVE  AdmissionInv'
<1> DEFINE now == second - behind
<1> DEFINE last == Len(verdicts) + 1
<1> USE AdmissionAssumption DEF AdmissionInv
<1>1. /\ now \in Int /\ second' = second /\ signed' = signed
      /\ Fresh(r, now) /\ Admit(r, now)
      /\ r \in Requests
  BY DEF Check, AdmissionTyped
<1>2. PICK answer \in {"ok", "replay", "limited"} :
        verdicts' = Append(verdicts, [request |-> r, at |-> now, answer |-> answer])
  BY <1>1 DEF Admit, Verdict
<1>3. /\ verdicts' \in Seq(Verdicts) /\ verdicts \in Seq(Verdicts)
      /\ DOMAIN verdicts' = DOMAIN verdicts \cup {last} /\ last \notin DOMAIN verdicts
      /\ \A k \in DOMAIN verdicts : verdicts'[k] = verdicts[k] /\ k < last /\ verdicts[k] \in Verdicts
      /\ verdicts'[last] = [request |-> r, at |-> now, answer |-> answer]
  <2> DEFINE new == [request |-> r, at |-> now, answer |-> answer]
  <2>1. new \in Verdicts
    BY <1>1 DEF Verdicts
  <2>2. verdicts \in Seq(Verdicts) /\ verdicts' = Append(verdicts, new)
    BY <1>2 DEF AdmissionTyped
  <2> HIDE DEF new
  <2>3. /\ verdicts' \in Seq(Verdicts) /\ Len(verdicts') = last
        /\ DOMAIN verdicts = 1..Len(verdicts) /\ DOMAIN verdicts' = 1..last
        /\ Len(verdicts) \in Nat
    BY <2>1, <2>2
  <2>4. \A k \in 1..Len(verdicts) : verdicts'[k] = verdicts[k] /\ verdicts[k] \in Verdicts
    BY <2>1, <2>2
  <2>5. verdicts'[last] = new
    BY <2>1, <2>2
  <2> QED
    BY <2>2, <2>3, <2>4, <2>5 DEF new
<1>4. Answered("ok")' \subseteq Answered("ok") \cup {last}
  BY <1>3 DEF Answered
<1>5. answer # "ok" => Answered("ok")' = Answered("ok")
  BY <1>3 DEF Answered
<1>6. CheckedWereSigned' /\ NoncesDiffer'
  BY <1>1, <1>3 DEF CheckedWereSigned, NoncesDiffer
<1>7. CASE answer # "ok"
  <2>1. seen' = Swept(now)
    BY <1>1, <1>2, <1>7, <1>3 DEF Admit, Verdict
  <2>2. AdmissionTyped'
    BY <1>1, <1>3, <2>1, SweptIsSeen DEF AdmissionTyped
  <2>3. AdmittedAreSpent'
    <3> SUFFICES ASSUME NEW k \in Answered("ok")
                 PROVE  Spent(verdicts[k])'
      BY <1>5, <1>7 DEF AdmittedAreSpent
    <3>1. k \in DOMAIN verdicts /\ Spent(verdicts[k]) /\ verdicts'[k] = verdicts[k]
          /\ verdicts[k] \in Verdicts
      BY <1>3 DEF AdmittedAreSpent, Answered
    <3>2. Spent(verdicts[k]) = Spent(verdicts'[k])
      BY <3>1
    <3> DEFINE v == verdicts[k]
    <3>3. v \in Verdicts /\ Spent(v)
      BY <3>1
    <3> HIDE DEF v
    <3> QED
      BY <1>1, <2>1, <3>1, <3>3, SweepKeepsSpent DEF Spent, v
  <2>4. AdmittedOnce'
    BY <1>3, <1>5, <1>7 DEF AdmittedOnce, Answered
  <2> QED
    BY <1>6, <2>2, <2>3, <2>4
<1>8. CASE answer = "ok"
  <2>1. /\ ~Known(Swept(now), r.nonce, now)
        /\ seen' = [n \in DOMAIN Swept(now) \cup {r.nonce} |->
                     IF n = r.nonce THEN now ELSE Swept(now)[n]]
    BY <1>1, <1>2, <1>8, <1>3 DEF Admit, Verdict
  <2>2. /\ DOMAIN seen' = DOMAIN Swept(now) \cup {r.nonce} /\ seen'[r.nonce] = now
        /\ \A n \in DOMAIN seen' : n # r.nonce => seen'[n] = Swept(now)[n]
    BY <2>1
  <2>3. AdmissionTyped'
    BY <1>1, <1>3, <2>2, SweptIsSeen DEF AdmissionTyped
  <2>4. ASSUME NEW k \in Answered("ok"), verdicts[k].request = r
        PROVE  r.stamp > verdicts[k].at + SkewAllowed - Late
    <3>1. verdicts[k] \in Verdicts /\ Spent(verdicts[k])
      BY <1>3 DEF AdmittedAreSpent, Answered
    <3> QED
      BY <1>1, <2>1, <2>4, <3>1, SpentOrAhead
  <2>5. ASSUME NEW k \in Answered("ok"), verdicts[k].request # r
        PROVE  Spent(verdicts[k])'
    <3> DEFINE v == verdicts[k]
    <3>1. k \in DOMAIN verdicts /\ v \in Verdicts /\ Spent(v) /\ verdicts'[k] = v
      BY <1>3 DEF AdmittedAreSpent, Answered
    <3>2. v.request.nonce # r.nonce
      BY <2>5, <3>1 DEF NoncesDiffer, CheckedWereSigned
    <3> HIDE DEF v
    <3>3. CASE v.request.nonce \in DOMAIN seen /\ seen[v.request.nonce] = v.at
      <4>1. CASE v.request.nonce \in DOMAIN Swept(now)
        BY <1>1, <2>2, <3>2, <3>3, <3>1, <4>1, SweptIsSeen DEF Spent
      <4>2. CASE v.request.nonce \notin DOMAIN Swept(now)
        <5>1. now - v.at > NonceKept
          <6>1. now - seen[v.request.nonce] > NonceKept
            BY <1>1, <3>3, <4>2, SweptIsSeen
          <6> QED
            BY <6>1, <3>3
        <5>2. {now, second, v.at, NonceKept} \subseteq Int /\ now <= second
          BY <1>1, <3>1 DEF Verdicts, AdmissionTyped
        <5>3. second > v.at + NonceKept
          <6> HIDE DEF now
          <6> QED
            BY ONLY <5>1, <5>2
        <5> QED
          BY <1>1, <3>1, <5>3 DEF Spent
      <4> QED
        BY <4>1, <4>2
    <3>4. CASE second > v.at + NonceKept \/ v.request.stamp > v.at + SkewAllowed - Late
      BY <1>1, <3>1, <3>4 DEF Spent
    <3> QED
      BY <3>1, <3>3, <3>4 DEF Spent
  <2> DEFINE spentNow(v) ==
        \/ v.request.nonce \in DOMAIN seen' /\ seen'[v.request.nonce] = v.at
        \/ second' > v.at + NonceKept
        \/ v.request.stamp > v.at + SkewAllowed - Late
  <2>6. AdmittedAreSpent' <=> \A k \in Answered("ok")' : spentNow(verdicts'[k])
    BY DEF AdmittedAreSpent, Spent
  <2>7. AdmittedAreSpent'
    <3> SUFFICES ASSUME NEW k \in Answered("ok")'
                 PROVE  spentNow(verdicts'[k])
      BY <2>6
    <3>1. CASE k = last
      BY <1>3, <2>2, <3>1
    <3>2. CASE k \in Answered("ok") /\ verdicts[k].request # r
      <4>1. k \in DOMAIN verdicts /\ verdicts'[k] = verdicts[k]
        BY <1>3, <3>2 DEF Answered
      <4> QED
        BY <2>5, <3>2, <4>1 DEF Spent
    <3>3. CASE k \in Answered("ok") /\ verdicts[k].request = r
      <4>1. k \in DOMAIN verdicts /\ verdicts'[k] = verdicts[k]
        BY <1>3, <3>3 DEF Answered
      <4> QED
        BY <2>4, <3>3, <4>1
    <3> QED
      BY <1>4, <3>1, <3>2, <3>3
  <2>8. AdmittedOnce'
    <3> SUFFICES ASSUME NEW j \in Answered("ok")', NEW k \in Answered("ok")', j < k,
                        verdicts'[j].request = verdicts'[k].request
                 PROVE  verdicts'[j].request.stamp > verdicts'[j].at + SkewAllowed - Late
      BY DEF AdmittedOnce
    <3>1. j \in Answered("ok") /\ j \in DOMAIN verdicts /\ verdicts'[j] = verdicts[j]
      <4>1. {j, k} \subseteq 1..last
        BY <1>3 DEF Answered
      <4>2. j # last
        BY <1>3, <4>1
      <4>3. j \in Answered("ok")
        BY <1>4, <4>2
      <4> QED
        BY <1>3, <4>3 DEF Answered
    <3>2. CASE k = last
      <4>1. verdicts[j].request = r
        BY <1>3, <3>1, <3>2
      <4> QED
        BY <2>4, <3>1, <4>1
    <3>3. CASE k \in Answered("ok")
      BY <1>3, <3>1, <3>3 DEF AdmittedOnce, Answered
    <3> QED
      BY <1>4, <3>2, <3>3
  <2> QED
    BY <1>6, <2>3, <2>7, <2>8
<1> QED
  BY <1>7, <1>8

-----------------------------------------------------------------------------
(* Signing a request keeps the invariant, as its nonce is new. *)
LEMMA SignKeepsIt ==
  ASSUME AdmissionInv, NEW a \in Senders, NEW nonce \in Nonces, NEW stamp \in Int, Sign(a, nonce, stamp)
  PROVE  AdmissionInv'
<1> USE DEF AdmissionInv, Sign
<1>1. AdmissionTyped' /\ NoncesDiffer'
  BY DEF AdmissionTyped, Requests, NoncesDiffer
<1>2. CheckedWereSigned'
  BY DEF CheckedWereSigned
<1>3. AdmittedAreSpent' /\ AdmittedOnce'
  BY DEF AdmittedAreSpent, AdmittedOnce, Answered, Spent
<1> QED
  BY <1>1, <1>2, <1>3

(* Only the start of the master forgets; what had been admitted before it  *)
(* may then be admitted again.                                             *)
LEMMA ForgetKeepsIt ==
  ASSUME AdmissionInv, Forget
  PROVE  AdmissionInv'
<1>1. /\ second' = second /\ signed' = signed /\ seen' = <<>> /\ verdicts' = <<>>
      /\ DOMAIN seen' = {} /\ DOMAIN verdicts' = {}
  BY DEF Forget
<1>2. Answered("ok")' = {}
  BY <1>1 DEF Answered
<1> QED
  BY <1>1, <1>2 DEF AdmissionInv, AdmissionTyped, NoncesDiffer, CheckedWereSigned, AdmittedAreSpent, AdmittedOnce

(* So does time: what is spent stays spent. *)
LEMMA SecondKeepsIt ==
  ASSUME AdmissionInv, SecondPasses
  PROVE  AdmissionInv'
<1> USE DEF AdmissionInv, SecondPasses
<1>1. AdmissionTyped' /\ NoncesDiffer' /\ CheckedWereSigned'
  BY DEF AdmissionTyped, NoncesDiffer, CheckedWereSigned
<1>2. AdmittedOnce'
  BY DEF AdmittedOnce, Answered
<1>3. AdmittedAreSpent'
  <2> SUFFICES ASSUME NEW k \in Answered("ok")
               PROVE  Spent(verdicts[k])'
    BY DEF AdmittedAreSpent, Answered
  <2>1. verdicts[k] \in Verdicts /\ Spent(verdicts[k]) /\ second \in Int
    BY DEF AdmittedAreSpent, Answered, AdmissionTyped
  <2>2. verdicts[k].at \in Int /\ NonceKept \in Int
    BY <2>1, AdmissionAssumption DEF Verdicts
  <2> QED
    BY <2>1, <2>2 DEF Spent
<1> QED
  BY <1>1, <1>2, <1>3

(* At first nothing is signed or checked. *)
LEMMA AdmissionInitHoldsIt == AdmissionInit => AdmissionInv
<1> SUFFICES ASSUME AdmissionInit PROVE AdmissionInv
  OBVIOUS
<1>1. DOMAIN seen = {} /\ DOMAIN verdicts = {} /\ second \in Int /\ signed = {} /\ verdicts = <<>>
  BY AdmissionAssumption DEF AdmissionInit
<1>2. Answered("ok") = {}
  BY <1>1 DEF Answered
<1> QED
  BY <1>1, <1>2 DEF AdmissionInv, AdmissionTyped, NoncesDiffer, CheckedWereSigned, AdmittedAreSpent, AdmittedOnce

(* Every step keeps the invariant. *)
LEMMA AdmissionNextKeepsIt ==
  ASSUME AdmissionInv, [AdmissionNext]_admissionVars
  PROVE  AdmissionInv'
<1>1. ASSUME NEW a \in Senders, NEW nonce \in Nonces, NEW off \in -SkewAllowed..SkewAllowed,
             Sign(a, nonce, second + off)
      PROVE  AdmissionInv'
  <2>1. second + off \in Int
    BY AdmissionAssumption DEF AdmissionInv, AdmissionTyped
  <2> QED
    BY <1>1, <2>1, SignKeepsIt
<1>2. ASSUME NEW r \in signed, NEW behind \in 0..Late, Check(r, second - behind)
      PROVE  AdmissionInv'
  BY <1>2, CheckKeepsIt
<1>3. CASE Forget
  BY <1>3, ForgetKeepsIt
<1>4. CASE SecondPasses
  BY <1>4, SecondKeepsIt
<1>5. CASE UNCHANGED admissionVars
  BY <1>5 DEF admissionVars, AdmissionInv, AdmissionTyped, NoncesDiffer, CheckedWereSigned, AdmittedAreSpent,
              AdmittedOnce, Answered, Spent
<1> QED
  BY <1>1, <1>2, <1>3, <1>4, <1>5 DEF AdmissionNext

(* In one life of the master a request is let in once, however often the   *)
(* network repeats it and however late its handlers are, but for a sender  *)
(* ahead by all that is allowed (nonceCache.admit, sign.go:242-275).       *)
THEOREM RequestsAreAdmittedOnce == AdmissionSpec => []AdmittedOnce
<1>1. AdmissionInit => AdmissionInv
  BY AdmissionInitHoldsIt
<1>2. AdmissionInv /\ [AdmissionNext]_admissionVars => AdmissionInv'
  BY AdmissionNextKeepsIt
<1>3. AdmissionInv => AdmittedOnce
  BY DEF AdmissionInv
<1> QED
  BY <1>1, <1>2, <1>3, PTL DEF AdmissionSpec

-----------------------------------------------------------------------------
(* Resolved addresses.                                                     *)

Queriers == Callers \cup {Refresher}

Queries ==
  [who : Queriers, state : {"pending", "ok", "error"}, addr : Addresses \cup {NoAddress},
   ttl : Nat, by : Nat]

Entries ==
  [present : BOOLEAN, addr : Addresses \cup {NoAddress}, expires : Nat, refreshing : BOOLEAN]

ResolverTyped ==
  /\ moment \in Nat /\ record \in Addresses \cup {NoAddress}
  /\ queries \in SUBSET Queries
  /\ entry \in Entries
  /\ demand \in [open : BOOLEAN, at : Nat]

(* No query is past its timeouts, and an answer lives as long as any.       *)
QueriesInTime ==
  \A q \in queries :
    /\ moment <= q.by /\ q.by <= moment + QueryLasts
    /\ q.state = "ok" => q.ttl >= ShortestTTL

(* One refresh at a time, and the entry says so.                            *)
RefreshesAlone ==
  /\ \A p, q \in queries : p.who = Refresher /\ q.who = Refresher => p = q
  /\ \A q \in queries : q.who = Refresher => entry.refreshing
  /\ entry.refreshing => entry.present /\ \E q \in queries : q.who = Refresher

(* A first lookup under way when there is an entry was begun before it      *)
(* came, and ends before it expires.                                        *)
FirstEndEarly ==
  entry.present => \A q \in queries : q.who # Refresher => q.by <= entry.expires

(* A lookup that finds the entry expired has a refresh that will be over in *)
(* time.                                                                    *)
DemandIsMet ==
  demand.open =>
    \E q \in queries : q.who = Refresher /\ q.by <= demand.at + QueryLasts

(* While an entry is refreshed it is past its time, so nothing else is      *)
(* under way.                                                               *)
RefreshedIsExpired == entry.refreshing => entry.expires < moment

ResolverInv ==
  /\ ResolverTyped /\ QueriesInTime /\ RefreshesAlone /\ FirstEndEarly /\ DemandIsMet
  /\ RefreshedIsExpired

-----------------------------------------------------------------------------
(* However short a TTL, an answer is kept for the shortest one allowed. *)
LEMMA ClampedIsLong ==
  ASSUME NEW ttl \in RecordTTLs
  PROVE  Clamped(ttl) \in Nat /\ Clamped(ttl) >= ShortestTTL
<1>1. ttl \in Nat /\ ShortestTTL \in Nat /\ LongestTTL \in Nat /\ ShortestTTL <= LongestTTL
  BY ResolverCacheAssumption
<1> QED
  BY <1>1 DEF Clamped

(* While an entry is refreshed no other query is under way. *)
LEMMA RefreshIsLast ==
  ASSUME ResolverInv, NEW q \in queries, NEW p \in queries, p.who = Refresher
  PROVE  q = p
<1>1. entry.refreshing /\ entry.present /\ entry.expires < moment
  BY DEF ResolverInv, RefreshesAlone, RefreshedIsExpired
<1>2. CASE q.who = Refresher
  BY <1>2 DEF ResolverInv, RefreshesAlone
<1>3. CASE q.who # Refresher
  <2>1. q.by <= entry.expires /\ moment <= q.by
    BY <1>1, <1>3 DEF ResolverInv, FirstEndEarly, QueriesInTime
  <2>2. q.by \in Nat /\ entry.expires \in Nat /\ moment \in Nat
    BY DEF ResolverInv, ResolverTyped, Queries, Entries
  <2> QED
    BY <1>1, <2>1, <2>2
<1> QED
  BY <1>2, <1>3

(* A new query begins in time.                                             *)
LEMMA QueryIsNew ==
  ASSUME ResolverTyped, NEW who \in Queriers
  PROVE  /\ Query(who) \in Queries /\ Query(who).who = who /\ Query(who).state = "pending"
         /\ Query(who).by = moment + QueryLasts
BY ResolverCacheAssumption DEF ResolverTyped, Query, Queries

(* Serving what the cache has begins a refresh at most, when it expired. *)
LEMMA ServeKeepsIt == ResolverInv /\ ServeCached => ResolverInv'
<1> SUFFICES ASSUME ResolverInv, ServeCached PROVE ResolverInv'
  OBVIOUS
<1> DEFINE new == Query(Refresher)
<1>1. ResolverTyped /\ moment \in Nat /\ QueryLasts \in Nat /\ Refresher \in Queriers
  BY ResolverCacheAssumption DEF ResolverInv, ResolverTyped, Queriers
<1>2. /\ new \in Queries /\ new.who = Refresher /\ new.state = "pending"
      /\ new.by = moment + QueryLasts
  BY <1>1, QueryIsNew
<1> HIDE DEF new
<1>3. moment' = moment /\ record' = record /\ entry.present
  BY DEF ServeCached
<1>4. demand' \in [open : BOOLEAN, at : Nat]
  BY <1>1 DEF ServeCached, ResolverTyped
<1>5. CASE moment > entry.expires /\ ~entry.refreshing
  <2>1. entry' = [entry EXCEPT !.refreshing = TRUE] /\ queries' = queries \cup {new}
    BY <1>5 DEF ServeCached, new
  <2>2. /\ entry' \in Entries /\ entry'.refreshing /\ entry'.present
        /\ entry'.expires = entry.expires /\ entry.expires \in Nat
    BY <1>1, <1>3, <2>1 DEF ResolverTyped, Entries
  <2>3. ResolverTyped'
    BY <1>1, <1>2, <1>3, <1>4, <2>1, <2>2 DEF ResolverTyped
  <2>4. \A q \in queries : q.who # Refresher
    BY <1>5 DEF ResolverInv, RefreshesAlone
  <2>5. \A q \in queries : FALSE
    <3> SUFFICES ASSUME NEW q \in queries PROVE FALSE
      OBVIOUS
    <3>1. q.by <= entry.expires /\ moment <= q.by /\ q.by \in Nat
      BY <1>1, <1>3, <2>4 DEF ResolverInv, FirstEndEarly, QueriesInTime, ResolverTyped, Queries
    <3> QED
      BY <1>1, <1>5, <2>2, <3>1
  <2>6. queries' = {new}
    BY <2>1, <2>5
  <2>7. QueriesInTime'
    BY <1>1, <1>2, <1>3, <2>6 DEF QueriesInTime
  <2>8. RefreshesAlone' /\ FirstEndEarly'
    BY <1>2, <2>2, <2>6 DEF RefreshesAlone, FirstEndEarly
  <2>9. RefreshedIsExpired'
    BY <1>1, <1>3, <1>5, <2>2 DEF RefreshedIsExpired
  <2>10. DemandIsMet'
    <3>1. ~demand.open
      BY <2>5 DEF ResolverInv, DemandIsMet
    <3>2. demand' = [open |-> TRUE, at |-> moment]
      BY <1>5, <3>1 DEF ServeCached
    <3> QED
      BY <1>1, <1>2, <2>6, <3>2 DEF DemandIsMet
  <2> QED
    BY <2>3, <2>7, <2>8, <2>9, <2>10 DEF ResolverInv
<1>6. CASE ~(moment > entry.expires /\ ~entry.refreshing)
  <2>1. entry' = entry /\ queries' = queries
    BY <1>6 DEF ServeCached
  <2>2. ResolverTyped'
    BY <1>1, <1>3, <1>4, <2>1 DEF ResolverTyped
  <2>3. QueriesInTime' /\ RefreshesAlone' /\ FirstEndEarly' /\ RefreshedIsExpired'
    BY <1>3, <2>1 DEF ResolverInv, QueriesInTime, RefreshesAlone, FirstEndEarly, RefreshedIsExpired
  <2>4. DemandIsMet'
    <3>1. CASE moment > entry.expires /\ ~demand.open
      <4>1. demand' = [open |-> TRUE, at |-> moment]
        BY <3>1 DEF ServeCached
      <4>2. PICK q \in queries : q.who = Refresher
        BY <1>6, <3>1 DEF ResolverInv, RefreshesAlone
      <4>3. q.by <= moment + QueryLasts
        BY DEF ResolverInv, QueriesInTime
      <4> QED
        BY <2>1, <4>1, <4>2, <4>3 DEF DemandIsMet
    <3>2. CASE ~(moment > entry.expires /\ ~demand.open)
      BY <2>1, <3>2 DEF ServeCached, ResolverInv, DemandIsMet
    <3> QED
      BY <3>1, <3>2
  <2> QED
    BY <2>2, <2>3, <2>4 DEF ResolverInv
<1> QED
  BY <1>5, <1>6

(* A first lookup begins a query that ends before what it finds expires. *)
LEMMA FirstKeepsIt ==
  ASSUME ResolverInv, NEW c \in Callers, ResolveFirst(c)
  PROVE  ResolverInv'
<1> DEFINE new == Query(c)
<1>1. ResolverTyped /\ moment \in Nat /\ QueryLasts \in Nat /\ c \in Queriers /\ c # Refresher
  BY ResolverCacheAssumption DEF ResolverInv, ResolverTyped, Queriers, Refresher
<1>2. new \in Queries /\ new.who = c /\ new.state = "pending" /\ new.by = moment + QueryLasts
  BY <1>1, QueryIsNew
<1>3. /\ queries' = queries \cup {new}
      /\ moment' = moment /\ record' = record /\ entry' = entry /\ demand' = demand
  BY DEF ResolveFirst
<1> HIDE DEF new
<1>4. ~entry.present /\ ~entry.refreshing
  BY DEF ResolveFirst, ResolverInv, RefreshesAlone
<1>5. ResolverTyped'
  BY <1>1, <1>2, <1>3 DEF ResolverTyped
<1>6. QueriesInTime'
  BY <1>1, <1>2, <1>3 DEF ResolverInv, QueriesInTime
<1>7. RefreshesAlone' /\ FirstEndEarly' /\ RefreshedIsExpired'
  BY <1>1, <1>2, <1>3, <1>4 DEF ResolverInv, RefreshesAlone, FirstEndEarly, RefreshedIsExpired
<1>8. DemandIsMet'
  BY <1>3 DEF ResolverInv, DemandIsMet
<1> QED
  BY <1>5, <1>6, <1>7, <1>8 DEF ResolverInv

(* An answer changes nothing of a query but the answer.                    *)
LEMMA AnswerKeepsIt ==
  ASSUME ResolverInv, NEW q \in queries, NEW a \in Queries, a.who = q.who, a.by = q.by,
         a.state = "ok" => a.ttl >= ShortestTTL, Becomes(q, a),
         UNCHANGED <<moment, record, entry, demand>>
  PROVE  ResolverInv'
<1>1. queries' = (queries \ {q}) \cup {a}
  BY DEF Becomes
<1>2. ResolverTyped'
  BY <1>1 DEF ResolverInv, ResolverTyped
<1>3. QueriesInTime'
  BY <1>1 DEF ResolverInv, QueriesInTime
<1>4. RefreshesAlone'
  BY <1>1 DEF ResolverInv, RefreshesAlone
<1>5. FirstEndEarly' /\ RefreshedIsExpired'
  BY <1>1 DEF ResolverInv, FirstEndEarly, RefreshedIsExpired
<1>6. DemandIsMet'
  BY <1>1 DEF ResolverInv, DemandIsMet
<1> QED
  BY <1>2, <1>3, <1>4, <1>5, <1>6 DEF ResolverInv

(* An answer, or a failure, ends its query and nothing else. *)
LEMMA AnswersKeepIt ==
  ASSUME ResolverInv, NEW q \in queries, NEW ttl \in RecordTTLs,
         ResolverAnswers(q, ttl) \/ ResolversFail(q)
  PROVE  ResolverInv'
<1>1. q \in Queries /\ record \in Addresses \cup {NoAddress}
  BY DEF ResolverInv, ResolverTyped
<1> DEFINE failed == Failed(q)
           found == [q EXCEPT !.state = "ok", !.addr = record, !.ttl = Clamped(ttl)]
<1>2. failed \in Queries /\ failed.who = q.who /\ failed.by = q.by /\ failed.state = "error"
  BY <1>1 DEF Failed, Queries
<1>3. /\ found \in Queries /\ found.who = q.who /\ found.by = q.by
      /\ found.ttl >= ShortestTTL
  BY <1>1, ClampedIsLong DEF Queries
<1>4. /\ Becomes(q, failed) \/ Becomes(q, found)
      /\ UNCHANGED <<moment, record, entry, demand>>
  BY DEF ResolverAnswers, ResolversFail
<1> HIDE DEF failed, found
<1>5. CASE Becomes(q, failed)
  BY <1>2, <1>4, <1>5, AnswerKeepsIt
<1>6. CASE Becomes(q, found)
  BY <1>3, <1>4, <1>6, AnswerKeepsIt
<1> QED
  BY <1>4, <1>5, <1>6

(* The first answer to be stored expires after every lookup still under    *)
(* way has ended, and so does every later one.                             *)
LEMMA EndFirstKeepsIt ==
  ASSUME ResolverInv, NEW q \in queries, EndFirst(q)
  PROVE  ResolverInv'
<1> USE ResolverCacheAssumption
<1>1. queries' = queries \ {q} /\ moment' = moment /\ record' = record /\ demand' = demand
      /\ q.who # Refresher
  BY DEF EndFirst
<1>2. \A p \in queries : p.who # Refresher
  BY <1>1, RefreshIsLast
<1>3. ~entry.refreshing /\ ~demand.open
  BY <1>2 DEF ResolverInv, RefreshesAlone, DemandIsMet
<1>4. /\ entry' \in Entries /\ ~entry'.refreshing
      /\ entry'.present => entry' = entry \/ entry'.expires >= moment + ShortestTTL
  <2>1. CASE q.state = "error"
    BY <1>3, <2>1 DEF EndFirst, ResolverInv, ResolverTyped
  <2>2. CASE q.state # "error"
    <3>1. entry' = FreshEntry(q) /\ q.state = "ok" /\ q \in Queries
      BY <2>2 DEF EndFirst, ResolverInv, ResolverTyped, Queries
    <3>2. q.ttl >= ShortestTTL /\ q.ttl \in Nat /\ moment \in Nat /\ q.addr \in Addresses \cup {NoAddress}
      BY <3>1 DEF ResolverInv, QueriesInTime, ResolverTyped, Queries
    <3>3. moment + q.ttl >= moment + ShortestTTL /\ moment + q.ttl \in Nat
      BY <3>2
    <3> QED
      BY <3>1, <3>2, <3>3 DEF FreshEntry, Entries
  <2> QED
    BY <2>1, <2>2
<1>5. ResolverTyped'
  BY <1>1, <1>4 DEF ResolverInv, ResolverTyped
<1>6. QueriesInTime'
  BY <1>1 DEF ResolverInv, QueriesInTime
<1>7. RefreshesAlone' /\ RefreshedIsExpired'
  BY <1>1, <1>2, <1>4 DEF RefreshesAlone, RefreshedIsExpired
<1>8. FirstEndEarly'
  <2> SUFFICES ASSUME entry'.present, NEW p \in queries PROVE p.by <= entry'.expires
    BY <1>1 DEF FirstEndEarly
  <2>1. CASE entry' = entry
    BY <1>2, <2>1 DEF ResolverInv, FirstEndEarly
  <2>2. CASE entry'.expires >= moment + ShortestTTL
    <3>1. p.by <= moment + QueryLasts /\ p.by \in Nat /\ moment \in Nat /\ entry'.expires \in Nat
      BY <1>4 DEF ResolverInv, QueriesInTime, ResolverTyped, Queries, Entries
    <3> QED
      BY <2>2, <3>1
  <2> QED
    BY <1>4, <2>1, <2>2
<1>9. DemandIsMet'
  BY <1>1, <1>3 DEF DemandIsMet
<1> QED
  BY <1>5, <1>6, <1>7, <1>8, <1>9 DEF ResolverInv

(* The refresh that ends is the one demanded. *)
LEMMA EndRefreshKeepsIt ==
  ASSUME ResolverInv, NEW q \in queries, EndRefresh(q)
  PROVE  ResolverInv'
<1> USE ResolverCacheAssumption
<1>1. moment' = moment /\ record' = record /\ demand' = NoDemand /\ queries' = queries \ {q}
  BY DEF EndRefresh
<1>2. queries' = {}
  BY <1>1, RefreshIsLast DEF EndRefresh
<1>3. entry' \in Entries /\ ~entry'.refreshing
  <2>1. q \in Queries /\ q.ttl \in Nat /\ moment \in Nat /\ q.addr \in Addresses \cup {NoAddress}
    BY DEF ResolverInv, ResolverTyped, Queries
  <2>2. moment + q.ttl \in Nat /\ moment + ShortestTTL \in Nat
    BY <2>1
  <2>3. CASE q.state = "error"
    BY <2>2, <2>3 DEF EndRefresh, AfterFailure, ResolverInv, ResolverTyped, Entries
  <2>4. CASE q.state # "error"
    BY <2>1, <2>2, <2>4 DEF EndRefresh, FreshEntry, Entries
  <2> QED
    BY <2>3, <2>4
<1>4. ResolverTyped'
  BY <1>1, <1>2, <1>3 DEF ResolverInv, ResolverTyped, NoDemand
<1> QED
  BY <1>1, <1>2, <1>3, <1>4
     DEF ResolverInv, QueriesInTime, RefreshesAlone, FirstEndEarly, DemandIsMet, RefreshedIsExpired,
         NoDemand

(* Time passes only while no query has outlasted its limit. *)
LEMMA MomentKeepsIt == ResolverInv /\ MomentPasses => ResolverInv'
<1> SUFFICES ASSUME ResolverInv, MomentPasses PROVE ResolverInv'
  OBVIOUS
<1>1. /\ moment' = moment + 1 /\ record' = record /\ entry' = entry /\ queries' = queries
      /\ demand' = demand /\ moment \in Nat /\ QueryLasts \in Nat
      /\ \A q \in queries : moment < q.by /\ q.by \in Nat
  BY ResolverCacheAssumption DEF MomentPasses, ResolverInv, ResolverTyped, Queries
<1>2. ResolverTyped'
  BY <1>1 DEF ResolverInv, ResolverTyped
<1>3. QueriesInTime'
  BY <1>1 DEF ResolverInv, QueriesInTime
<1>4. RefreshesAlone' /\ FirstEndEarly' /\ DemandIsMet'
  BY <1>1 DEF ResolverInv, RefreshesAlone, FirstEndEarly, DemandIsMet
<1>5. RefreshedIsExpired'
  BY <1>1 DEF ResolverInv, RefreshedIsExpired, ResolverTyped, Entries
<1> QED
  BY <1>2, <1>3, <1>4, <1>5 DEF ResolverInv

(* At first nothing is cached and nothing asked. *)
LEMMA ResolverInitHoldsIt == ResolverInit => ResolverInv
BY DEF ResolverInit, ResolverInv, ResolverTyped, QueriesInTime, RefreshesAlone, FirstEndEarly, DemandIsMet,
       RefreshedIsExpired, NoEntry, NoDemand, Entries

(* Every step keeps the invariant. *)
LEMMA ResolverNextKeepsIt ==
  ASSUME ResolverInv, [ResolverNext]_resolverVars
  PROVE  ResolverInv'
<1>1. CASE ServeCached
  BY <1>1, ServeKeepsIt
<1>2. ASSUME NEW c \in Callers, ResolveFirst(c) PROVE ResolverInv'
  BY <1>2, FirstKeepsIt
<1>3. ASSUME NEW q \in queries, ResolversFail(q) PROVE ResolverInv'
  <2>1. q \in Queries /\ Failed(q) \in Queries /\ Failed(q).who = q.who /\ Failed(q).by = q.by
        /\ Failed(q).state = "error"
    BY DEF ResolverInv, ResolverTyped, Failed, Queries
  <2> QED
    BY <1>3, <2>1, AnswerKeepsIt DEF ResolversFail
<1>4. ASSUME NEW q \in queries, EndFirst(q) PROVE ResolverInv'
  BY <1>4, EndFirstKeepsIt
<1>5. ASSUME NEW q \in queries, EndRefresh(q) PROVE ResolverInv'
  BY <1>5, EndRefreshKeepsIt
<1>6. ASSUME NEW q \in queries, NEW ttl \in RecordTTLs, ResolverAnswers(q, ttl) PROVE ResolverInv'
  BY <1>6, AnswersKeepIt
<1>7. ASSUME NEW a \in Addresses \cup {NoAddress}, RecordChanges(a) PROVE ResolverInv'
  BY <1>7 DEF RecordChanges, ResolverInv, ResolverTyped, QueriesInTime, RefreshesAlone, FirstEndEarly,
              DemandIsMet, RefreshedIsExpired
<1>8. CASE MomentPasses
  BY <1>8, MomentKeepsIt
<1>9. CASE UNCHANGED resolverVars
  BY <1>9 DEF resolverVars, ResolverInv, ResolverTyped, QueriesInTime, RefreshesAlone, FirstEndEarly,
              DemandIsMet, RefreshedIsExpired
<1> QED
  BY <1>1, <1>2, <1>3, <1>4, <1>5, <1>6, <1>7, <1>8, <1>9 DEF ResolverNext

-----------------------------------------------------------------------------
(* Within the time of one query after a lookup has found an address        *)
(* expired, the name has been resolved again or that has failed, whoever   *)
(* else looks it up and whatever fails (Cache.Lookup, refresh).            *)
THEOREM TheExpiredIsRefreshed == ResolverSpec => []ExpiredIsRefreshed
<1>1. ResolverInit => ResolverInv
  BY ResolverInitHoldsIt
<1>2. ResolverInv /\ [ResolverNext]_resolverVars => ResolverInv'
  BY ResolverNextKeepsIt
<1>3. ResolverInv => ExpiredIsRefreshed
  <2> SUFFICES ASSUME ResolverInv, demand.open PROVE moment <= demand.at + QueryLasts
    BY DEF ExpiredIsRefreshed
  <2>1. PICK q \in queries : q.by <= demand.at + QueryLasts
    BY DEF ResolverInv, DemandIsMet
  <2>2. moment <= q.by /\ q.by \in Nat /\ moment \in Nat /\ demand.at \in Nat /\ QueryLasts \in Nat
    BY ResolverCacheAssumption DEF ResolverInv, QueriesInTime, ResolverTyped, Queries
  <2> QED
    BY <2>1, <2>2
<1> QED
  BY <1>1, <1>2, <1>3, PTL DEF ResolverSpec

-----------------------------------------------------------------------------
(* Enrolment.                                                              *)

AgentRow == [name : AgentNames, key : AgentHosts, enabled : BOOLEAN]

TokenRow ==
  [name : AgentNames, expires : Nat, used : BOOLEAN, agent : AgentIds \cup {Nobody}]

HostState ==
  [pc : {"off", "asking", "running"}, saved : AgentIds \cup {Nobody},
   answer : AgentIds \cup {0, Nobody}]

Submission == [id : AgentIds, name : AgentNames, host : AgentHosts]

EnrolTypeOK ==
  /\ lastAgent \in Nat /\ minted \in Nat /\ clock \in Nat
  /\ \A i \in DOMAIN agents : agents[i] \in AgentRow
  /\ agents = [i \in DOMAIN agents |-> agents[i]]
  /\ \A t \in DOMAIN tokens : tokens[t] \in TokenRow
  /\ tokens = [t \in DOMAIN tokens |-> tokens[t]]
  /\ hosts \in [AgentHosts -> HostState]
  /\ admitted \in Submission \cup {Nobody}
  /\ keptAs \subseteq AgentIds \X AgentHosts

(* Ids and tokens are numbered, and no number is given twice. *)
Numbered ==
  /\ lastAgent <= MaxAgents
  /\ DOMAIN agents \subseteq 1..lastAgent
  /\ DOMAIN tokens \subseteq 1..minted
  /\ DOMAIN madeBy \subseteq 1..lastAgent
  /\ \A h \in AgentHosts : {hosts[h].saved, hosts[h].answer} \subseteq 0..lastAgent \cup {Nobody}

(* A token that made an agent is spent, as long as it is there. *)
TokensSpent ==
  /\ \A i \in DOMAIN madeBy : /\ madeBy[i] \in 1..minted
                              /\ madeBy[i] \in DOMAIN tokens => tokens[madeBy[i]].used
  /\ \A i, j \in DOMAIN madeBy : madeBy[i] = madeBy[j] => i = j

(* What a host has of an id, saved or on its way, is its own key's.         *)
OwnIds ==
  \A h \in AgentHosts, i \in DOMAIN agents :
    i = hosts[h].saved \/ i = hosts[h].answer => agents[i].key = h

(* Rows, those on their way included: by the id, and whose they are.        *)
InHand == IF admitted = Nobody THEN {} ELSE {<<admitted.id, admitted.host>>}

Claimed ==
  \A r \in keptAs \cup InHand :
    /\ r[1] \in 1..lastAgent
    /\ r[1] \in DOMAIN agents => agents[r[1]].key = r[2]
    /\ \A s \in keptAs \cup InHand : r[1] = s[1] => r = s

EnrolInv == EnrolTypeOK /\ Numbered /\ TokensSpent /\ OwnIds /\ Claimed

-----------------------------------------------------------------------------
(* What With is, where a key is looked up. *)
LEMMA WithAt ==
  ASSUME NEW f, NEW x, NEW v
  PROVE  /\ DOMAIN With(f, x, v) = DOMAIN f \cup {x}
         /\ With(f, x, v)[x] = v
         /\ \A y \in DOMAIN f : y # x => With(f, x, v)[y] = f[y]
         /\ With(f, x, v) = [y \in DOMAIN With(f, x, v) |-> With(f, x, v)[y]]
BY DEF With

(* A step that hands out no id and no token: rows of agents may go, and     *)
(* change but for their keys; tokens may go, and be spent; a host forgets   *)
(* what it had, or comes to have an id of its own.                          *)
LEMMA NothingHandedOut ==
  ASSUME EnrolInv, EnrolTypeOK',
         UNCHANGED <<lastAgent, minted, madeBy>>,
         DOMAIN agents' \subseteq DOMAIN agents,
         \A i \in DOMAIN agents' : agents'[i].key = agents[i].key,
         DOMAIN tokens' \subseteq DOMAIN tokens,
         \A t \in DOMAIN tokens' : tokens[t].used => tokens'[t].used,
         \A h \in AgentHosts : \A x \in {hosts'[h].saved, hosts'[h].answer} :
           \/ x \in {hosts[h].saved, hosts[h].answer, 0, Nobody}
           \/ x \in DOMAIN agents /\ agents[x].key = h,
         keptAs' \cup InHand' \subseteq keptAs \cup InHand
  PROVE  EnrolInv'
<1>1. /\ lastAgent \in Nat
      /\ \A i \in DOMAIN agents : i \in 1..lastAgent /\ i # 0 /\ i # Nobody
  BY EnrolmentAssumption DEF EnrolInv, EnrolTypeOK, Numbered, AgentIds
<1>2. Numbered'
  <2>1. \A h \in AgentHosts : {hosts'[h].saved, hosts'[h].answer} \subseteq 0..lastAgent \cup {Nobody}
    BY <1>1 DEF EnrolInv, Numbered
  <2> QED
    BY <2>1 DEF EnrolInv, Numbered
<1>3. TokensSpent'
  BY DEF EnrolInv, TokensSpent
<1>4. OwnIds'
  BY <1>1 DEF EnrolInv, OwnIds
<1>5. Claimed'
  BY DEF EnrolInv, Claimed
<1> QED
  BY <1>2, <1>3, <1>4, <1>5 DEF EnrolInv

(* A step that makes an agent of the next id, for a host.                   *)
LEMMA AgentMade ==
  ASSUME EnrolInv, EnrolTypeOK', Allocate, UNCHANGED <<minted, keptAs, admitted>>,
         NEW h \in AgentHosts, NEW row, row.key = h,
         agents' = With(agents, NextAgent, row),
         TokensSpent',
         DOMAIN tokens' = DOMAIN tokens,
         \A g \in AgentHosts : \A x \in {hosts'[g].saved, hosts'[g].answer} :
           x \in {hosts[g].saved, hosts[g].answer, Nobody} \/ (g = h /\ x = NextAgent),
         DOMAIN madeBy' \subseteq DOMAIN madeBy \cup {NextAgent}
  PROVE  EnrolInv'
<1> DEFINE n == NextAgent
<1>1. /\ n = lastAgent + 1 /\ n \in Nat /\ lastAgent \in Nat /\ lastAgent' = n /\ n <= MaxAgents
      /\ MaxAgents \in Nat
  BY EnrolmentAssumption DEF NextAgent, Allocate, EnrolInv, EnrolTypeOK
<1>2. n # Nobody
  BY <1>1, EnrolmentAssumption DEF AgentIds
<1>3. /\ DOMAIN agents' = DOMAIN agents \cup {n} /\ agents'[n].key = h
      /\ \A i \in DOMAIN agents : i # n => agents'[i] = agents[i]
  BY DEF With
<1> HIDE DEF n
<1>4. Numbered'
  <2>1. /\ DOMAIN agents \subseteq 1..lastAgent /\ DOMAIN tokens \subseteq 1..minted
        /\ DOMAIN madeBy \subseteq 1..lastAgent
        /\ \A g \in AgentHosts : {hosts[g].saved, hosts[g].answer} \subseteq 0..lastAgent \cup {Nobody}
    BY DEF EnrolInv, Numbered
  <2>2. \A g \in AgentHosts : {hosts'[g].saved, hosts'[g].answer} \subseteq 0..n \cup {Nobody}
    BY <1>1, <2>1 DEF n
  <2>3. DOMAIN agents' \subseteq 1..n /\ DOMAIN madeBy' \subseteq 1..n
    BY <1>1, <1>3, <2>1 DEF n
  <2> QED
    BY <1>1, <2>1, <2>2, <2>3 DEF Numbered
<1>5. OwnIds'
  <2> SUFFICES ASSUME NEW g \in AgentHosts, NEW i \in DOMAIN agents',
                      i = hosts'[g].saved \/ i = hosts'[g].answer
               PROVE  agents'[i].key = g
    BY DEF OwnIds
  <2>1. i # Nobody
    BY <1>1, <1>2, <1>3, EnrolmentAssumption DEF EnrolInv, Numbered, AgentIds
  <2>2. CASE i = n
    <3>1. n \notin {hosts[g].saved, hosts[g].answer}
      BY <1>1, <1>2 DEF EnrolInv, Numbered
    <3>2. g = h
      BY <2>1, <2>2, <3>1 DEF n
    <3> QED
      BY <1>3, <2>2, <3>2
  <2>3. CASE i # n
    <3>1. i \in DOMAIN agents /\ agents'[i] = agents[i] /\ i \in {hosts[g].saved, hosts[g].answer}
      BY <1>3, <2>1, <2>3 DEF n
    <3> QED
      BY <3>1 DEF EnrolInv, OwnIds
  <2> QED
    BY <2>2, <2>3
<1>6. Claimed'
  <2>1. keptAs' \cup InHand' = keptAs \cup InHand
    BY DEF InHand
  <2>2. \A r \in keptAs \cup InHand : r[1] \in 1..lastAgent /\ r[1] # n /\ r[1] \in 1..n
    BY <1>1 DEF EnrolInv, Claimed
  <2>3. \A r \in keptAs \cup InHand : r[1] \in DOMAIN agents' => agents'[r[1]].key = r[2]
    BY <1>3, <2>2 DEF EnrolInv, Claimed
  <2> QED
    BY <1>1, <2>1, <2>2, <2>3 DEF EnrolInv, Claimed
<1> QED
  BY <1>4, <1>5, <1>6 DEF EnrolInv

-----------------------------------------------------------------------------
(* At first there are no agents and no tokens. *)
LEMMA EnrolInitInv == EnrolInit => EnrolInv
<1> SUFFICES ASSUME EnrolInit PROVE EnrolInv
  OBVIOUS
<1>1. /\ DOMAIN agents = {} /\ DOMAIN tokens = {} /\ DOMAIN madeBy = {} /\ InHand = {} /\ keptAs = {}
      /\ lastAgent = 0 /\ minted = 0 /\ clock = 0
  BY DEF EnrolInit, InHand
<1>2. EnrolTypeOK
  <2>1. agents = [i \in DOMAIN agents |-> agents[i]] /\ tokens = [t \in DOMAIN tokens |-> tokens[t]]
    BY DEF EnrolInit
  <2>2. hosts \in [AgentHosts -> HostState]
    BY DEF EnrolInit, HostState
  <2> QED
    BY <1>1, <2>1, <2>2 DEF EnrolInit, EnrolTypeOK
<1>3. Numbered
  BY <1>1, EnrolmentAssumption DEF EnrolInit, Numbered
<1> QED
  BY <1>1, <1>2, <1>3 DEF EnrolInv, TokensSpent, OwnIds, Claimed

(* Tokens are minted and revoked: no id is given. *)
LEMMA TokenSteps ==
  ASSUME EnrolInv,
         \/ \E name \in AgentNames : Mint(name)
         \/ \E t \in DOMAIN tokens : Revoke(t)
  PROVE  EnrolInv'
<1>1. ASSUME NEW name \in AgentNames, Mint(name)
      PROVE  EnrolInv'
  <2> DEFINE n == minted + 1
             row == [name |-> name, expires |-> clock + TokenTTL, used |-> FALSE, agent |-> Nobody]
  <2>1. /\ minted' = n /\ tokens' = With(tokens, n, row) /\ minted \in Nat
        /\ UNCHANGED <<agents, lastAgent, hosts, admitted, keptAs, clock, madeBy>>
    BY <1>1 DEF Mint, EnrolInv, EnrolTypeOK
  <2>2. row \in TokenRow
    BY EnrolmentAssumption DEF TokenRow, EnrolInv, EnrolTypeOK
  <2>3. /\ DOMAIN tokens' = DOMAIN tokens \cup {n} /\ tokens'[n] = row
        /\ \A t \in DOMAIN tokens : t # n => tokens'[t] = tokens[t]
        /\ tokens' = [t \in DOMAIN tokens' |-> tokens'[t]]
    BY <2>1 DEF With
  <2> HIDE DEF row
  <2>4. EnrolTypeOK'
    BY <2>1, <2>2, <2>3 DEF EnrolInv, EnrolTypeOK
  <2>5. Numbered'
    BY <2>1, <2>3 DEF EnrolInv, Numbered
  <2>6. TokensSpent'
    <3>1. \A i \in DOMAIN madeBy : madeBy[i] \in 1..minted /\ madeBy[i] # n /\ madeBy[i] \in 1..n
      BY <2>1 DEF EnrolInv, TokensSpent
    <3> QED
      BY <2>1, <2>3, <3>1 DEF EnrolInv, TokensSpent
  <2>7. OwnIds' /\ Claimed'
    BY <2>1 DEF EnrolInv, OwnIds, Claimed, InHand
  <2> QED
    BY <2>4, <2>5, <2>6, <2>7 DEF EnrolInv
<1>2. ASSUME NEW t \in DOMAIN tokens, Revoke(t)
      PROVE  EnrolInv'
  <2>1. /\ tokens' = Except(tokens, t)
        /\ UNCHANGED <<agents, lastAgent, minted, hosts, admitted, keptAs, clock, madeBy>>
    BY <1>2 DEF Revoke
  <2>2. /\ DOMAIN tokens' = DOMAIN tokens \ {t}
        /\ \A x \in DOMAIN tokens' : tokens'[x] = tokens[x]
        /\ tokens' = [x \in DOMAIN tokens' |-> tokens'[x]]
    BY <2>1 DEF Except
  <2>3. EnrolTypeOK'
    BY <2>1, <2>2 DEF EnrolInv, EnrolTypeOK
  <2>4. keptAs' \cup InHand' = keptAs \cup InHand
    BY <2>1 DEF InHand
  <2> QED
    BY <2>1, <2>2, <2>3, <2>4, NothingHandedOut
<1> QED
  BY <1>1, <1>2

(* A token is redeemed: it is spent by the agent it makes. *)
LEMMA RedeemStep ==
  ASSUME EnrolInv, NEW h \in AgentHosts, NEW t, Redeem(h, t)
  PROVE  EnrolInv'
<1> DEFINE n == NextAgent
<1>1. /\ UNCHANGED <<minted, admitted, keptAs, clock>>
      /\ hosts \in [AgentHosts -> HostState]
      /\ keptAs' \cup InHand' = keptAs \cup InHand
  BY DEF Redeem, EnrolInv, EnrolTypeOK, InHand
<1>2. ASSUME NEW id, Answer(h, id), id \in AgentIds \cup {0}
      PROVE  /\ hosts' \in [AgentHosts -> HostState]
             /\ \A g \in AgentHosts : /\ hosts'[g].saved = hosts[g].saved
                                      /\ \/ hosts'[g].answer = hosts[g].answer
                                         \/ g = h /\ hosts'[g].answer = id
  BY <1>1, <1>2 DEF Answer, HostState
<1>3. CASE t \in DOMAIN tokens /\ Redeemable(t) /\ tokens[t].name \notin NamesInUse
  <2> DEFINE row == [name |-> tokens[t].name, key |-> h, enabled |-> TRUE]
  <2>1. /\ Allocate /\ agents' = With(agents, n, row)
        /\ tokens' = [tokens EXCEPT ![t].used = TRUE, ![t].agent = n]
        /\ madeBy' = With(madeBy, n, t)
        /\ Answer(h, n)
    BY <1>3 DEF Redeem
  <2>2. /\ t \in DOMAIN tokens /\ ~tokens[t].used /\ tokens[t] \in TokenRow
        /\ tokens = [x \in DOMAIN tokens |-> tokens[x]]
    BY <1>3 DEF Redeemable, EnrolInv, EnrolTypeOK
  <2>3. /\ n = lastAgent + 1 /\ lastAgent' = n /\ n \in AgentIds /\ n # Nobody /\ lastAgent \in Nat
    BY <2>1, EnrolmentAssumption DEF Allocate, NextAgent, AgentIds, EnrolInv, EnrolTypeOK
  <2>4. row \in AgentRow /\ row.key = h
    BY <2>2 DEF AgentRow, TokenRow
  <2>5. /\ DOMAIN agents' = DOMAIN agents \cup {n} /\ agents'[n] = row
        /\ \A i \in DOMAIN agents : i # n => agents'[i] = agents[i]
        /\ agents' = [i \in DOMAIN agents' |-> agents'[i]]
    BY <2>1 DEF With
  <2>6. /\ DOMAIN madeBy' = DOMAIN madeBy \cup {n} /\ madeBy'[n] = t
        /\ \A i \in DOMAIN madeBy : i # n => madeBy'[i] = madeBy[i]
    BY <2>1 DEF With
  <2> HIDE DEF n, row
  <2>7. /\ DOMAIN tokens' = DOMAIN tokens
        /\ tokens' = [x \in DOMAIN tokens' |-> tokens'[x]]
        /\ tokens'[t] \in TokenRow /\ tokens'[t].used
        /\ \A x \in DOMAIN tokens : x # t => tokens'[x] = tokens[x]
    BY <2>1, <2>2, <2>3 DEF TokenRow
  <2>8. EnrolTypeOK'
    <3>1. \A i \in DOMAIN agents' : agents'[i] \in AgentRow
      BY <2>4, <2>5 DEF EnrolInv, EnrolTypeOK
    <3>2. \A x \in DOMAIN tokens' : tokens'[x] \in TokenRow
      BY <2>7 DEF EnrolInv, EnrolTypeOK
    <3>3. hosts' \in [AgentHosts -> HostState]
      BY <1>2, <2>1, <2>3
    <3> QED
      BY <1>1, <2>3, <2>5, <2>7, <3>1, <3>2, <3>3 DEF EnrolInv, EnrolTypeOK
  <2>9. TokensSpent'
    <3>1. \A i \in DOMAIN madeBy : i # n /\ madeBy[i] # t
      BY <2>2, <2>3 DEF EnrolInv, Numbered, TokensSpent
    <3>2. t \in 1..minted
      BY <2>2 DEF EnrolInv, Numbered
    <3>3. \A i \in DOMAIN madeBy' : /\ madeBy'[i] \in 1..minted'
                                    /\ madeBy'[i] \in DOMAIN tokens' => tokens'[madeBy'[i]].used
      BY <1>1, <2>6, <2>7, <3>1, <3>2 DEF EnrolInv, TokensSpent
    <3>4. \A i, j \in DOMAIN madeBy' : madeBy'[i] = madeBy'[j] => i = j
      BY <2>6, <3>1 DEF EnrolInv, TokensSpent
    <3> QED
      BY <3>3, <3>4 DEF TokensSpent
  <2>10. \A g \in AgentHosts : \A x \in {hosts'[g].saved, hosts'[g].answer} :
           x \in {hosts[g].saved, hosts[g].answer, Nobody} \/ (g = h /\ x = n)
    BY <1>2, <2>1, <2>3
  <2> QED
    BY <1>1, <2>1, <2>4, <2>6, <2>7, <2>8, <2>9, <2>10, AgentMade DEF n
<1>4. CASE ~(t \in DOMAIN tokens /\ Redeemable(t) /\ tokens[t].name \notin NamesInUse)
  <2>1. Answer(h, 0) /\ UNCHANGED <<agents, lastAgent, tokens, madeBy>>
    BY <1>4 DEF Redeem
  <2>2. EnrolTypeOK'
    BY <1>1, <1>2, <2>1 DEF EnrolInv, EnrolTypeOK
  <2>3. \A g \in AgentHosts : \A x \in {hosts'[g].saved, hosts'[g].answer} :
           x \in {hosts[g].saved, hosts[g].answer, 0, Nobody}
    BY <1>2, <2>1
  <2> QED
    BY <1>1, <2>1, <2>2, <2>3, NothingHandedOut
<1> QED
  BY <1>3, <1>4

(* What a host does by itself: it learns an id that is its own, or         *)
(* forgets.                                                                *)
LEMMA HostSteps ==
  ASSUME EnrolInv, NEW h \in AgentHosts, NEW t,
         Start(h, t) \/ RequestLost(h, t) \/ Enrolled(h) \/ Ends(h)
  PROVE  EnrolInv'
<1>1. /\ UNCHANGED <<agents, lastAgent, tokens, minted, admitted, keptAs, clock, madeBy>>
      /\ keptAs' \cup InHand' = keptAs \cup InHand
  BY DEF Start, RequestLost, Enrolled, Ends, InHand
<1>2. hosts \in [AgentHosts -> HostState]
  BY DEF EnrolInv, EnrolTypeOK
<1>3. /\ hosts' \in [AgentHosts -> HostState]
      /\ \A g \in AgentHosts : {hosts'[g].saved, hosts'[g].answer}
                                 \subseteq {hosts[g].saved, hosts[g].answer, Nobody}
  <2>1. CASE Start(h, t)
    <3>1. \E pc \in {"asking", "running"}, x \in {hosts[h].answer, Nobody} :
             hosts' = [hosts EXCEPT ![h] = [pc |-> pc, saved |-> hosts[h].saved, answer |-> x]]
      BY <1>2, <2>1 DEF Start, HostState
    <3> QED
      BY <1>2, <3>1 DEF HostState
  <2>2. CASE RequestLost(h, t)
    BY <1>2, <2>2 DEF RequestLost
  <2>3. CASE Enrolled(h)
    BY <1>2, <2>3 DEF Enrolled, HostState
  <2>4. CASE Ends(h)
    <3>1. hosts' = [hosts EXCEPT ![h].pc = "off", ![h].answer = Nobody]
      BY <2>4 DEF Ends
    <3>2. hosts' \in [AgentHosts -> HostState]
      BY <1>2, <3>1 DEF HostState
    <3>3. \A g \in AgentHosts : /\ hosts'[g].saved = hosts[g].saved
                               /\ hosts'[g].answer \in {hosts[g].answer, Nobody}
      BY <1>2, <3>1 DEF HostState
    <3> QED
      BY <3>2, <3>3
  <2> QED
    BY <2>1, <2>2, <2>3, <2>4
<1>4. EnrolTypeOK'
  BY <1>1, <1>3 DEF EnrolInv, EnrolTypeOK
<1> QED
  BY <1>1, <1>3, <1>4, NothingHandedOut

(* An administrator adds an agent with a host's key. *)
LEMMA AddByHandStep ==
  ASSUME EnrolInv, NEW h \in AgentHosts, NEW name \in AgentNames, AddByHand(h, name)
  PROVE  EnrolInv'
<1> DEFINE same == {i \in DOMAIN agents : agents[i].name = name}
           n == NextAgent
<1>1. /\ UNCHANGED <<tokens, minted, admitted, keptAs, clock, madeBy>>
      /\ keptAs' \cup InHand' = keptAs \cup InHand
      /\ \A i \in same : agents[i].key = h
  BY DEF AddByHand, InHand
<1>2. hosts \in [AgentHosts -> HostState]
  BY DEF EnrolInv, EnrolTypeOK
<1>3. CASE same # {}
  <2> DEFINE i == CHOOSE j \in same : TRUE
  <2>1. i \in same /\ hosts' = [hosts EXCEPT ![h].saved = i] /\ UNCHANGED <<agents, lastAgent>>
    BY <1>3 DEF AddByHand
  <2>2. i \in DOMAIN agents /\ agents[i].key = h
    BY <1>1, <2>1
  <2>3. i \in AgentIds
    BY <2>2, EnrolmentAssumption DEF EnrolInv, EnrolTypeOK, Numbered, AgentIds
  <2> HIDE DEF i, same
  <2>4. hosts' \in [AgentHosts -> HostState]
    BY <1>2, <2>1, <2>3 DEF HostState
  <2>5. \A g \in AgentHosts : \A x \in {hosts'[g].saved, hosts'[g].answer} :
           x \in {hosts[g].saved, hosts[g].answer} \/ (x = i /\ g = h)
    BY <1>2, <2>1 DEF HostState
  <2>6. EnrolTypeOK'
    BY <1>1, <2>1, <2>4 DEF EnrolInv, EnrolTypeOK
  <2> QED
    BY <1>1, <2>1, <2>2, <2>5, <2>6, NothingHandedOut
<1>4. CASE same = {}
  <2> DEFINE row == [name |-> name, key |-> h, enabled |-> TRUE]
  <2>1. /\ Allocate /\ agents' = With(agents, n, row)
        /\ hosts' = [hosts EXCEPT ![h].saved = n]
    BY <1>4 DEF AddByHand
  <2>2. /\ n = lastAgent + 1 /\ lastAgent' = n /\ n \in AgentIds /\ lastAgent \in Nat
    BY <2>1, EnrolmentAssumption DEF Allocate, NextAgent, AgentIds, EnrolInv, EnrolTypeOK
  <2>3. row \in AgentRow /\ row.key = h
    BY DEF AgentRow
  <2>4. /\ DOMAIN agents' = DOMAIN agents \cup {n} /\ agents'[n] = row
        /\ \A i \in DOMAIN agents : i # n => agents'[i] = agents[i]
        /\ agents' = [i \in DOMAIN agents' |-> agents'[i]]
    BY <2>1 DEF With
  <2> HIDE DEF n, row, same
  <2>5. hosts' \in [AgentHosts -> HostState]
    BY <1>2, <2>1, <2>2 DEF HostState
  <2>6. \A g \in AgentHosts : \A x \in {hosts'[g].saved, hosts'[g].answer} :
           x \in {hosts[g].saved, hosts[g].answer, Nobody} \/ (g = h /\ x = n)
    BY <1>2, <2>1 DEF HostState
  <2>7. EnrolTypeOK'
    <3>1. \A i \in DOMAIN agents' : agents'[i] \in AgentRow
      BY <2>3, <2>4 DEF EnrolInv, EnrolTypeOK
    <3> QED
      BY <1>1, <2>2, <2>4, <2>5, <3>1 DEF EnrolInv, EnrolTypeOK
  <2>8. TokensSpent'
    BY <1>1 DEF EnrolInv, TokensSpent
  <2> QED
    BY <1>1, <2>1, <2>3, <2>6, <2>7, <2>8, AgentMade DEF n
<1> QED
  BY <1>3, <1>4

(* Agents are renamed, disabled and deleted. *)
LEMMA AgentSteps ==
  ASSUME EnrolInv, NEW i \in DOMAIN agents,
         SetEnabled(i) \/ RemoveAgent(i) \/ \E name \in AgentNames : Rename(i, name)
  PROVE  EnrolInv'
<1>1. /\ UNCHANGED <<lastAgent, minted, hosts, admitted, keptAs, clock, madeBy>>
      /\ keptAs' \cup InHand' = keptAs \cup InHand
  BY DEF SetEnabled, RemoveAgent, Rename, InHand
<1>2. /\ agents = [j \in DOMAIN agents |-> agents[j]] /\ \A j \in DOMAIN agents : agents[j] \in AgentRow
      /\ tokens = [t \in DOMAIN tokens |-> tokens[t]] /\ \A t \in DOMAIN tokens : tokens[t] \in TokenRow
  BY DEF EnrolInv, EnrolTypeOK
<1>3. /\ DOMAIN agents' \subseteq DOMAIN agents
      /\ agents' = [j \in DOMAIN agents' |-> agents'[j]]
      /\ \A j \in DOMAIN agents' : agents'[j] \in AgentRow /\ agents'[j].key = agents[j].key
  <2>1. CASE SetEnabled(i)
    BY <1>2, <2>1 DEF SetEnabled, AgentRow
  <2>2. CASE RemoveAgent(i)
    BY <1>2, <2>2 DEF RemoveAgent, Except
  <2>3. CASE \E name \in AgentNames : Rename(i, name)
    <3>1. PICK name \in AgentNames : agents' = [agents EXCEPT ![i].name = name]
      BY <2>3 DEF Rename
    <3> QED
      BY <1>2, <3>1 DEF AgentRow
  <2> QED
    BY <2>1, <2>2, <2>3
<1>4. /\ DOMAIN tokens' \subseteq DOMAIN tokens
      /\ tokens' = [t \in DOMAIN tokens' |-> tokens'[t]]
      /\ \A t \in DOMAIN tokens' : tokens'[t] \in TokenRow /\ (tokens[t].used => tokens'[t].used)
  <2>1. CASE RemoveAgent(i)
    <3>1. tokens' = [t \in DOMAIN tokens |->
                 IF tokens[t].agent = i THEN [tokens[t] EXCEPT !.agent = Nobody] ELSE tokens[t]]
      BY <2>1 DEF RemoveAgent
    <3> QED
      BY <1>2, <3>1 DEF TokenRow
  <2>2. CASE tokens' = tokens
    BY <1>2, <2>2
  <2> QED
    BY <2>1, <2>2 DEF SetEnabled, Rename
<1>5. EnrolTypeOK'
  BY <1>1, <1>3, <1>4 DEF EnrolInv, EnrolTypeOK
<1> QED
  BY <1>1, <1>3, <1>4, <1>5, NothingHandedOut

(* A submission is let in: its rows are on their way. *)
LEMMA SubmitStep ==
  ASSUME EnrolInv, NEW h \in AgentHosts, Submit(h)
  PROVE  EnrolInv'
<1> DEFINE i == hosts[h].saved
<1>1. /\ UNCHANGED <<agents, lastAgent, tokens, minted, hosts, keptAs, clock, madeBy>>
      /\ admitted = Nobody /\ i \in DOMAIN agents /\ agents[i].key = h
      /\ admitted' = [id |-> i, name |-> agents[i].name, host |-> h]
  BY DEF Submit
<1>2. i \in 1..lastAgent /\ i \in AgentIds /\ agents[i] \in AgentRow
  BY <1>1, EnrolmentAssumption DEF EnrolInv, EnrolTypeOK, Numbered, AgentIds
<1> HIDE DEF i
<1>3. admitted' \in Submission
  BY <1>1, <1>2 DEF Submission, AgentRow
<1>4. EnrolTypeOK'
  BY <1>1, <1>3 DEF EnrolInv, EnrolTypeOK
<1>5. InHand = {} /\ InHand' \subseteq {<<i, h>>}
  BY <1>1 DEF InHand
<1>6. \A r \in keptAs : r[1] = i => r[2] = h
  BY <1>1 DEF EnrolInv, Claimed
<1>7. \A r \in keptAs : r = <<r[1], r[2]>>
  BY DEF EnrolInv, EnrolTypeOK
<1>8. Claimed'
  <2>1. \A r \in keptAs : /\ r[1] \in 1..lastAgent
                          /\ r[1] \in DOMAIN agents => agents[r[1]].key = r[2]
                          /\ r[1] = i => r = <<i, h>>
                          /\ \A s \in keptAs : r[1] = s[1] => r = s
    BY <1>6, <1>7 DEF EnrolInv, Claimed
  <2>2. keptAs' \cup InHand' \subseteq keptAs \cup {<<i, h>>}
    BY <1>1, <1>5
  <2> QED
    BY <1>1, <1>2, <2>1, <2>2 DEF Claimed
<1> QED
  BY <1>1, <1>4, <1>8 DEF EnrolInv, Numbered, TokensSpent, OwnIds

(* The rows are stored, if the agent is still there. *)
LEMMA StoreStep ==
  ASSUME EnrolInv, Store
  PROVE  EnrolInv'
<1>1. /\ UNCHANGED <<agents, lastAgent, tokens, minted, hosts, clock, madeBy>>
      /\ admitted # Nobody /\ admitted' = Nobody
      /\ keptAs' \subseteq keptAs \cup {<<admitted.id, admitted.host>>}
  BY DEF Store
<1>2. admitted \in Submission /\ keptAs' \subseteq AgentIds \X AgentHosts
  BY <1>1 DEF EnrolInv, EnrolTypeOK, Submission
<1>3. EnrolTypeOK'
  BY <1>1, <1>2 DEF EnrolInv, EnrolTypeOK
<1>4. keptAs' \cup InHand' \subseteq keptAs \cup InHand
  BY <1>1 DEF InHand
<1> QED
  BY <1>1, <1>3, <1>4, NothingHandedOut

(* An agent is one host and one enrolment, whatever is lost, asked again,   *)
(* revoked or removed in between (enrol.go:118-120, ids.go:11-30).          *)
THEOREM AgentsStayOneHost == EnrolSpec => []AnAgentIsOneHost
<1>1. EnrolInv /\ [EnrolNext]_enrolVars => EnrolInv'
  <2> SUFFICES ASSUME EnrolInv, [EnrolNext]_enrolVars PROVE EnrolInv'
    OBVIOUS
  <2>1. ASSUME NEW t \in EnrolTargets, NEW names \in SUBSET AgentNames, Assign(t, names)
        PROVE  EnrolInv'
    <3>1. UNCHANGED <<agents, lastAgent, tokens, minted, hosts, admitted, keptAs, clock, madeBy>>
      BY <2>1 DEF Assign
    <3> QED
      BY <3>1 DEF EnrolInv, EnrolTypeOK, Numbered, TokensSpent, OwnIds, Claimed, InHand
  <2>2. CASE EnrolTick
    <3>1. /\ UNCHANGED <<agents, lastAgent, tokens, minted, hosts, admitted, keptAs, madeBy>>
          /\ clock' = clock + 1
      BY <2>2 DEF EnrolTick
    <3> QED
      BY <3>1 DEF EnrolInv, EnrolTypeOK, Numbered, TokensSpent, OwnIds, Claimed, InHand
  <2>3. CASE UNCHANGED enrolVars
    BY <2>3 DEF enrolVars, EnrolInv, EnrolTypeOK, Numbered, TokensSpent, OwnIds, Claimed, InHand
  <2>4. ASSUME NEW h \in AgentHosts, Enrolled(h) \/ Ends(h)
        PROVE  EnrolInv'
    BY <2>4, HostSteps
  <2> QED
    BY <2>1, <2>2, <2>3, <2>4, TokenSteps, RedeemStep, HostSteps, AddByHandStep, AgentSteps,
       SubmitStep, StoreStep DEF EnrolNext
<1>2. EnrolInv => AnAgentIsOneHost
  BY DEF EnrolInv, TokensSpent, OwnIds, Claimed, AnAgentIsOneHost
<1> QED
  BY EnrolInitInv, <1>1, <1>2, PTL DEF EnrolSpec

-----------------------------------------------------------------------------
(* Logins and what they may do.                                            *)

LoginCookie == [set : {TRUE}, login : Nat, until : Int]

SessionCookie ==
  [set : {TRUE}, user : Browsers, groups : SUBSET Groups, role : {"admin", "viewer"},
   expires : Int, login : Nat]

AccessTypeOK ==
  /\ hour \in Nat
  /\ logins \in Nat /\ startedIn \in Seq(Browsers) /\ Len(startedIn) = logins
  /\ claims \in [Browsers -> SUBSET Groups]
  /\ held \in [Browsers -> [Groups -> Nat \cup {Never}]]
  /\ pending \in [Browsers -> LoginCookie \cup {NoCookie}]
  /\ sessions \in [Browsers -> SessionCookie \cup {NoCookie}]
  /\ codes \subseteq [login : Nat, user : Browsers, groups : SUBSET Groups]
  /\ grants \subseteq [group : Groups, node : TreeNodes, role : GrantRoles]

(* Cookies of a login are in the browser it was begun in. *)
Begun(b, n) == n \in 1..logins /\ startedIn[n] = b

OwnLogins ==
  \A b \in Browsers :
    /\ pending[b].set => Begun(b, pending[b].login)
    /\ sessions[b].set => Begun(b, sessions[b].login)

(* What held says of a group, a claim or a code is true of now. *)
HeldNow ==
  /\ \A u \in Browsers : \A g \in claims[u] : held[u][g] = hour
  /\ \A c \in codes : \A g \in c.groups : held[c.user][g] = hour
  /\ \A u \in Browsers, g \in Groups : held[u][g] <= hour

(* The groups of a session were held when it was made, SessionTTL before it  *)
(* expires; an admin's are those of an admin.                                *)
HeldThen ==
  \A b \in Browsers : sessions[b].set =>
    /\ sessions[b].role = "admin" => AdminGroup \in sessions[b].groups
    /\ \A g \in sessions[b].groups :
         /\ held[sessions[b].user][g] # Never
         /\ sessions[b].expires - SessionTTL <= held[sessions[b].user][g]

AccessInv == AccessTypeOK /\ OwnLogins /\ HeldNow /\ HeldThen

-----------------------------------------------------------------------------

(* At first nobody has logged in. *)
LEMMA AccessInitInv == AccessInit => AccessInv
<1> SUFFICES ASSUME AccessInit PROVE AccessInv
  OBVIOUS
<1> USE AccessAssumption DEF AccessInit
<1>1. AccessTypeOK
  <2>1. held \in [Browsers -> [Groups -> Nat \cup {Never}]]
    BY DEF Never
  <2>2. startedIn \in Seq(Browsers) /\ Len(startedIn) = 0
    OBVIOUS
  <2> QED
    BY <2>1, <2>2 DEF AccessTypeOK
<1>2. OwnLogins /\ HeldThen
  BY DEF OwnLogins, HeldThen, NoCookie
<1>3. HeldNow
  BY DEF HeldNow, Never
<1> QED
  BY <1>1, <1>2, <1>3 DEF AccessInv

(* A login is begun: the browser's earlier one is forgotten. *)
LEMMA StartLoginStep ==
  ASSUME AccessInv, NEW b \in Browsers, StartLogin(b)
  PROVE  AccessInv'
<1> USE DEF AccessInv
<1>1. /\ startedIn' \in Seq(Browsers) /\ Len(startedIn') = logins' /\ logins' = logins + 1
      /\ startedIn'[logins'] = b
      /\ \A n \in 1..logins : startedIn'[n] = startedIn[n]
  BY AppendProperties DEF StartLogin, AccessTypeOK
<1>2. AccessTypeOK'
  <2>1. hour + LoginTTL \in Int /\ logins' \in Nat
    BY <1>1, AccessAssumption DEF AccessTypeOK
  <2>2. [set |-> TRUE, login |-> logins', until |-> hour + LoginTTL] \in LoginCookie
    BY <2>1 DEF LoginCookie
  <2>3. pending' \in [Browsers -> LoginCookie \cup {NoCookie}]
    BY <2>2 DEF StartLogin, AccessTypeOK
  <2> QED
    BY <1>1, <2>1, <2>3 DEF StartLogin, AccessTypeOK
<1>3. OwnLogins'
  <2> SUFFICES ASSUME NEW c \in Browsers
               PROVE  /\ (pending[c].set => Begun(c, pending[c].login))'
                      /\ (sessions[c].set => Begun(c, sessions[c].login))'
    BY DEF OwnLogins
  <2>0. \A n \in 1..logins : n \in 1..logins'
    BY <1>1 DEF AccessTypeOK
  <2>1. sessions[c].set => Begun(c, sessions[c].login)
    BY DEF OwnLogins
  <2>2. (sessions[c].set => Begun(c, sessions[c].login))'
    BY <1>1, <2>0, <2>1 DEF StartLogin, Begun
  <2>3. CASE c = b
    <3>1. pending'[c].login = logins'
      BY <2>3 DEF StartLogin, AccessTypeOK
    <3>2. logins' \in 1..logins'
      BY <1>1 DEF AccessTypeOK
    <3> QED
      BY <1>1, <2>2, <2>3, <3>1, <3>2 DEF Begun
  <2>4. CASE c # b
    <3>1. pending'[c] = pending[c]
      BY <2>4 DEF StartLogin, AccessTypeOK
    <3>2. pending[c].set => Begun(c, pending[c].login)
      BY DEF OwnLogins
    <3> QED
      BY <1>1, <2>0, <2>2, <3>1, <3>2 DEF Begun
  <2> QED
    BY <2>3, <2>4
<1>4. HeldNow' /\ HeldThen'
  BY DEF StartLogin, HeldNow, HeldThen
<1> QED
  BY <1>2, <1>3, <1>4

(* The provider gives out a code for the user's groups of now. *)
LEMMA AuthenticateStep ==
  ASSUME AccessInv, NEW n \in 1..MaxLogins, NEW u \in Browsers, Authenticate(n, u)
  PROVE  AccessInv'
<1> USE DEF AccessInv
<1>1. AccessTypeOK'
  <2>1. n \in Nat
    BY AccessAssumption
  <2>2. codes' \subseteq [login : Nat, user : Browsers, groups : SUBSET Groups]
    BY <2>1 DEF Authenticate, AccessTypeOK
  <2> QED
    BY <2>2 DEF Authenticate, AccessTypeOK
<1>2. OwnLogins' /\ HeldThen'
  BY DEF Authenticate, OwnLogins, Begun, HeldThen
<1>3. HeldNow'
  BY DEF Authenticate, HeldNow
<1> QED
  BY <1>1, <1>2, <1>3

(* The callback of a login makes a session where the login was begun, and   *)
(* of groups that are the user's now.                                        *)
LEMMA LoginCallbackStep ==
  ASSUME AccessInv, NEW b \in Browsers, NEW c \in codes, LoginCallback(b, c)
  PROVE  AccessInv'
<1> USE DEF AccessInv
<1> DEFINE made == SessionFor(c)
<1>1. /\ c \in [login : Nat, user : Browsers, groups : SUBSET Groups]
      /\ made \in SessionCookie
      /\ made.login = c.login /\ made.groups = c.groups /\ made.user = c.user
      /\ made.expires = hour + SessionTTL /\ made.role = RoleOf(c.groups) /\ made.set
  <2>1. c \in [login : Nat, user : Browsers, groups : SUBSET Groups]
    BY DEF AccessTypeOK
  <2>2. hour + SessionTTL \in Int
    BY AccessAssumption DEF AccessTypeOK
  <2>3. RoleOf(c.groups) \in {"admin", "viewer"}
    BY DEF RoleOf
  <2> QED
    BY <2>1, <2>2, <2>3 DEF SessionFor, SessionCookie
<1>2. /\ pending' = [pending EXCEPT ![b] = NoCookie] /\ codes' \subseteq codes
      /\ UNCHANGED <<hour, claims, grants, logins, startedIn, held>>
  BY DEF LoginCallback
<1>3. \/ sessions' = sessions
      \/ /\ sessions' = [sessions EXCEPT ![b] = made]
         /\ pending[b].set /\ pending[b].login = c.login
  BY DEF LoginCallback, AnswersPending
<1>4. AccessTypeOK'
  <2>1. pending' \in [Browsers -> LoginCookie \cup {NoCookie}]
    BY <1>2 DEF AccessTypeOK
  <2>2. sessions' \in [Browsers -> SessionCookie \cup {NoCookie}]
    <3> HIDE DEF made
    <3> QED
      BY <1>1, <1>3 DEF AccessTypeOK
  <2> QED
    BY <1>2, <2>1, <2>2 DEF AccessTypeOK
<1>5. HeldNow'
  BY <1>2 DEF HeldNow
<1>6. ASSUME NEW d \in Browsers, sessions'[d].set
      PROVE  \/ sessions'[d] = sessions[d]
             \/ d = b /\ sessions'[d] = made /\ pending[b].set /\ pending[b].login = c.login
  <2> HIDE DEF made
  <2> QED
    BY <1>3, <1>6 DEF AccessTypeOK
<1> HIDE DEF made
<1>7. OwnLogins'
  <2> SUFFICES ASSUME NEW d \in Browsers
               PROVE  /\ pending'[d].set => Begun(d, pending'[d].login)
                      /\ sessions'[d].set => Begun(d, sessions'[d].login)
    BY <1>2 DEF OwnLogins, Begun
  <2>1. /\ pending[d].set => Begun(d, pending[d].login)
        /\ sessions[d].set => Begun(d, sessions[d].login)
        /\ pending[b].set => Begun(b, pending[b].login)
    BY DEF OwnLogins
  <2>2. pending'[d].set => Begun(d, pending'[d].login)
    BY <1>2, <2>1 DEF AccessTypeOK, NoCookie
  <2>3. sessions'[d].set => Begun(d, sessions'[d].login)
    BY <1>1, <1>6, <2>1
  <2> QED
    BY <2>2, <2>3
<1>8. HeldThen'
  <2> SUFFICES ASSUME NEW d \in Browsers, sessions'[d].set
               PROVE  /\ sessions'[d].role = "admin" => AdminGroup \in sessions'[d].groups
                      /\ \A g \in sessions'[d].groups :
                           /\ held[sessions'[d].user][g] # Never
                           /\ sessions'[d].expires - SessionTTL <= held[sessions'[d].user][g]
    BY <1>2 DEF HeldThen
  <2>1. CASE sessions'[d] = sessions[d]
    BY <2>1 DEF HeldThen
  <2>2. CASE sessions'[d] = made
    <3>1. made.role = "admin" => AdminGroup \in made.groups
      BY <1>1 DEF RoleOf
    <3>2. \A g \in made.groups : held[made.user][g] = hour
      BY <1>1 DEF HeldNow
    <3>3. hour # Never /\ made.expires - SessionTTL <= hour
      BY <1>1, AccessAssumption DEF AccessTypeOK, Never
    <3> QED
      BY <2>2, <3>1, <3>2, <3>3
  <2> QED
    BY <1>6, <2>1, <2>2
<1> QED
  BY <1>4, <1>5, <1>7, <1>8

(* Cookies are dropped. *)
LEMMA LogoutStep ==
  ASSUME AccessInv, NEW b \in Browsers, Logout(b)
  PROVE  AccessInv'
<1> USE DEF AccessInv, Logout
<1>1. AccessTypeOK'
  BY DEF AccessTypeOK
<1>2. \A d \in Browsers : sessions'[d].set => sessions'[d] = sessions[d]
  BY DEF AccessTypeOK, NoCookie
<1>3. OwnLogins' /\ HeldThen'
  BY <1>2 DEF OwnLogins, Begun, HeldThen
<1>4. HeldNow'
  BY DEF HeldNow
<1> QED
  BY <1>1, <1>3, <1>4

(* When groups change, or the clock does, sessions lose nothing: what was   *)
(* held last is as it was, or as of now.                                     *)
LEMMA HeldThenStays ==
  ASSUME AccessInv, sessions' = sessions, hour' \in Nat, hour <= hour',
         \A u \in Browsers, g \in Groups : held'[u][g] \in {held[u][g], hour'}
  PROVE  HeldThen'
<1> SUFFICES ASSUME NEW d \in Browsers, sessions[d].set, NEW g \in sessions[d].groups
             PROVE  /\ held'[sessions[d].user][g] # Never
                    /\ sessions[d].expires - SessionTTL <= held'[sessions[d].user][g]
  BY DEF HeldThen, AccessInv
<1>1. sessions[d] \in SessionCookie
  BY DEF AccessInv, AccessTypeOK, NoCookie
<1>2. sessions[d].user \in Browsers /\ g \in Groups /\ sessions[d].expires \in Int
  BY <1>1 DEF SessionCookie
<1>3. /\ held[sessions[d].user][g] # Never
      /\ sessions[d].expires - SessionTTL <= held[sessions[d].user][g]
  BY DEF AccessInv, HeldThen
<1>4. /\ held[sessions[d].user][g] \in Nat \cup {Never} /\ held[sessions[d].user][g] <= hour
      /\ hour \in Nat
  BY <1>2 DEF AccessInv, AccessTypeOK, HeldNow
<1>5. held'[sessions[d].user][g] \in {held[sessions[d].user][g], hour'}
  BY <1>2
<1> QED
  BY <1>2, <1>3, <1>4, <1>5, AccessAssumption DEF Never

(* A user's groups change; what codes and sessions say was true then. *)
LEMMA RegroupStep ==
  ASSUME AccessInv, NEW u \in Browsers, NEW groups \in SUBSET Groups, Regroup(u, groups)
  PROVE  AccessInv'
<1> USE DEF AccessInv
<1>1. /\ claims' = [claims EXCEPT ![u] = groups]
      /\ UNCHANGED <<hour, pending, codes, sessions, grants, logins, startedIn>>
  BY DEF Regroup
<1>2. hour \in Nat
  BY DEF AccessTypeOK
<1>3. \A v \in Browsers, g \in Groups :
        /\ held'[v][g] \in {held[v][g], hour}
        /\ v = u /\ g \in claims[u] \cup groups => held'[v][g] = hour
        /\ v # u => held'[v][g] = held[v][g]
  BY DEF Regroup, AccessTypeOK
<1>4. AccessTypeOK'
  <2>1. held' \in [Browsers -> [Groups -> Nat \cup {Never}]]
    BY <1>2 DEF Regroup, AccessTypeOK
  <2> QED
    BY <1>1, <2>1 DEF AccessTypeOK
<1>5. OwnLogins'
  BY <1>1 DEF OwnLogins, Begun
<1>6. HeldNow'
  <2>1. \A v \in Browsers : \A g \in claims'[v] : held'[v][g] = hour
    BY <1>1, <1>3 DEF HeldNow, AccessTypeOK
  <2>2. \A c \in codes : \A g \in c.groups : held'[c.user][g] = hour
    <3>1. \A c \in codes : c.user \in Browsers /\ c.groups \subseteq Groups
      BY DEF AccessTypeOK
    <3> QED
      BY <1>3, <3>1 DEF HeldNow
  <2>3. \A v \in Browsers, g \in Groups : held'[v][g] <= hour
    BY <1>2, <1>3 DEF HeldNow
  <2> QED
    BY <1>1, <2>1, <2>2, <2>3 DEF HeldNow
<1>7. HeldThen'
  BY <1>1, <1>2, <1>3, HeldThenStays
<1> QED
  BY <1>4, <1>5, <1>6, <1>7

(* Time passes. *)
LEMMA HourStep ==
  ASSUME AccessInv, HourPasses
  PROVE  AccessInv'
<1> USE DEF AccessInv
<1>1. /\ hour' = hour + 1 /\ codes' = {} /\ hour \in Nat
      /\ UNCHANGED <<claims, pending, sessions, grants, logins, startedIn>>
  BY DEF HourPasses, AccessTypeOK
<1>2. hour' \in Nat /\ hour <= hour'
  BY <1>1
<1>3. \A v \in Browsers, g \in Groups :
        /\ held'[v][g] \in {held[v][g], hour'}
        /\ g \in claims[v] => held'[v][g] = hour'
  BY <1>1 DEF HourPasses, AccessTypeOK
<1>4. AccessTypeOK'
  <2>1. held' \in [Browsers -> [Groups -> Nat \cup {Never}]]
    BY <1>1 DEF HourPasses, AccessTypeOK
  <2> QED
    BY <1>1, <1>2, <2>1 DEF AccessTypeOK
<1>5. OwnLogins'
  BY <1>1 DEF OwnLogins, Begun
<1>6. HeldNow'
  <2>1. \A v \in Browsers, g \in Groups : held[v][g] \in Int
    BY DEF AccessTypeOK, Never
  <2>2. \A v \in Browsers, g \in Groups : held'[v][g] <= hour'
    BY <1>1, <1>3, <2>1 DEF HeldNow
  <2>3. \A v \in Browsers : \A g \in claims[v] : g \in Groups
    BY DEF AccessTypeOK
  <2> QED
    BY <1>1, <1>3, <2>2, <2>3 DEF HeldNow
<1>7. HeldThen'
  BY <1>1, <1>2, <1>3, HeldThenStays
<1> QED
  BY <1>4, <1>5, <1>6, <1>7

(* Grants and the tree: nothing the session knows. *)
LEMMA TreeAndGrantsStep ==
  ASSUME AccessInv,
         \/ \E g \in Groups \ {AdminGroup}, n \in TreeNodes, r \in GrantRoles : UpsertGrant(g, n, r)
         \/ \E h \in grants : DeleteGrant(h)
         \/ \E n, p \in TreeNodes : MoveNode(n, p)
  PROVE  AccessInv'
<1>1. /\ grants' \subseteq [group : Groups, node : TreeNodes, role : GrantRoles]
      /\ UNCHANGED <<hour, claims, pending, codes, sessions, logins, startedIn, held>>
  BY DEF UpsertGrant, DeleteGrant, MoveNode, AccessInv, AccessTypeOK
<1> QED
  BY <1>1 DEF AccessInv, AccessTypeOK, OwnLogins, Begun, HeldNow, HeldThen

(* Every step keeps it. *)
LEMMA AccessStep ==
  ASSUME AccessInv, [AccessNext]_accessVars
  PROVE  AccessInv'
<1>1. CASE UNCHANGED accessVars
  BY <1>1 DEF accessVars, AccessInv, AccessTypeOK, OwnLogins, Begun, HeldNow, HeldThen
<1>2. CASE AccessNext
  BY <1>2, StartLoginStep, AuthenticateStep, LoginCallbackStep, LogoutStep, RegroupStep, HourStep,
     TreeAndGrantsStep DEF AccessNext
<1> QED
  BY <1>1, <1>2

-----------------------------------------------------------------------------
(* The role on a node is one of those it is the highest of. *)
LEMMA HighestIsOneOfThem ==
  ASSUME NEW R, R \subseteq {"none", "viewer", "editor", "admin"}, R # {}
  PROVE  Highest(R) \in R
<1>1. \E r \in R : \A q \in R : Rank(r) >= Rank(q)
  <2>1. CASE "admin" \in R
    BY <2>1 DEF Rank
  <2>2. CASE "admin" \notin R /\ "editor" \in R
    BY <2>2 DEF Rank
  <2>3. CASE "admin" \notin R /\ "editor" \notin R /\ "viewer" \in R
    BY <2>3 DEF Rank
  <2>4. CASE R = {"none"}
    BY <2>4 DEF Rank
  <2> QED
    BY <2>1, <2>2, <2>3, <2>4
<1> QED
  BY <1>1 DEF Highest

(* Whoever is signed in has held the groups of the session lately. *)
LEMMA SignedInWereHeld ==
  ASSUME AccessInv, NEW b \in Browsers, SignedIn(b), NEW g \in sessions[b].groups
  PROVE  Lately(sessions[b].user, g)
<1>1. /\ held[sessions[b].user][g] # Never
      /\ sessions[b].expires - SessionTTL <= held[sessions[b].user][g]
  BY DEF AccessInv, HeldThen, SignedIn
<1>2. /\ sessions[b] \in SessionCookie /\ hour \in Int
      /\ hour <= sessions[b].expires
  BY DEF AccessInv, AccessTypeOK, SignedIn, NoCookie
<1>3. /\ sessions[b].expires \in Int
      /\ held[sessions[b].user][g] \in Int
  BY <1>2 DEF AccessInv, AccessTypeOK, SessionCookie, Never
<1> QED
  BY <1>1, <1>2, <1>3, AccessAssumption DEF Lately

(* What a session is let do, its groups warrant. *)
LEMMA WarrantFromInv == AccessInv => AccessIsWarranted
<1> SUFFICES ASSUME AccessInv PROVE AccessIsWarranted
  OBVIOUS
<1>1. \A b \in Browsers : sessions[b].set => startedIn[sessions[b].login] = b
  BY DEF AccessInv, OwnLogins, Begun
<1>2. ASSUME NEW b \in Browsers, NEW n \in TreeNodes, Visible(b, n)
      PROVE  \/ Lately(sessions[b].user, AdminGroup)
             \/ ~EditsAt(b, n) /\ DefaultRole = "viewer"
             \/ \E h \in grants : /\ h.node \in NodesAbove(n) /\ Lately(sessions[b].user, h.group)
                                  /\ EditsAt(b, n) => h.role = "editor"
  <2> DEFINE above == {h \in Roots(b) : h.node \in NodesAbove(n)}
             roles == {g.role : g \in above}
             role == RoleOn(b, n)
  <2>1. GlobalRole(b) \in {"none", "viewer", "admin"}
    BY AccessAssumption DEF GlobalRole
  <2>2. roles \subseteq GrantRoles
    BY DEF Roots, AccessInv, AccessTypeOK
  <2>3. role \in {GlobalRole(b)} \cup roles
    <3>1. {GlobalRole(b)} \cup roles \subseteq {"none", "viewer", "editor", "admin"}
      BY <2>1, <2>2 DEF GrantRoles
    <3> HIDE DEF roles
    <3>2. role = Highest({GlobalRole(b)} \cup roles)
      BY DEF RoleOn, roles
    <3> QED
      BY <3>1, <3>2, HighestIsOneOfThem
  <2>4. Rank(role) >= Rank("viewer") /\ (EditsAt(b, n) <=> Rank(role) >= Rank("editor"))
    BY <1>2 DEF Visible, EditsAt
  <2> HIDE DEF role
  <2>5. CASE role = GlobalRole(b)
    <3>1. /\ SignedIn(b)
          /\ \/ role = "admin" /\ sessions[b].role = "admin"
             \/ role = "viewer" /\ DefaultRole = "viewer"
      BY <2>1, <2>4, <2>5, AccessAssumption DEF GlobalRole, Rank
    <3>2. CASE role = "admin" /\ sessions[b].role = "admin"
      <4>1. AdminGroup \in sessions[b].groups
        BY <3>1, <3>2 DEF AccessInv, HeldThen, SignedIn
      <4> QED
        BY <3>1, <4>1, SignedInWereHeld
    <3>3. CASE role = "viewer" /\ DefaultRole = "viewer"
      BY <2>4, <3>3 DEF Rank
    <3> QED
      BY <3>1, <3>2, <3>3
  <2>6. CASE role \in roles
    <3>1. PICK h \in above : role = h.role
      BY <2>6
    <3>2. SignedIn(b) /\ h \in grants /\ h.group \in sessions[b].groups
      BY <3>1 DEF Roots
    <3>3. Lately(sessions[b].user, h.group)
      BY <3>2, SignedInWereHeld
    <3>4. h.role \in {"viewer", "editor"}
      BY <3>2 DEF AccessInv, AccessTypeOK, GrantRoles
    <3>5. EditsAt(b, n) => h.role = "editor"
      BY <2>4, <3>1, <3>4 DEF Rank
    <3> QED
      BY <3>1, <3>2, <3>3, <3>5
  <2> QED
    BY <2>3, <2>5, <2>6
<1> QED
  BY <1>1, <1>2 DEF AccessIsWarranted

(* A session belongs to the browser its login was begun in, and what a      *)
(* request may see or change, the groups held within the length of a        *)
(* session, the grants and the tree of now warrant (auth.go, scope.go).     *)
THEOREM AccessStaysWarranted == AccessSpec => []AccessIsWarranted
<1>1. AccessInit => AccessInv
  BY AccessInitInv
<1>2. AccessInv /\ [AccessNext]_accessVars => AccessInv'
  BY AccessStep
<1>3. AccessInv => AccessIsWarranted
  BY WarrantFromInv
<1> QED
  BY <1>1, <1>2, <1>3, PTL DEF AccessSpec

-----------------------------------------------------------------------------
(* The bucket.                                                             *)

Times == [mono : Int \cup {Nothing}, wall : Int \cup {Nothing}]

PingNotes == [sent : BOOLEAN, failed : BOOLEAN, txUser : Times, txKern : Times, rx : Times]

ClocksTyped ==
  /\ tick \in Int /\ ahead \in Int /\ slewed \in Int /\ steps \in Nat
  /\ lowest \in Int /\ highest \in Int /\ lowest <= ahead /\ ahead <= highest

NotesTyped ==
  /\ pings \in [1..PerInterval -> PingNotes]
  /\ sentAt \in [1..PerInterval -> Int \cup {Nothing}]
  /\ arrived \in [1..PerInterval -> Int \cup {Nothing}]

(* The schedule keeps to the interval, and nothing is sent or measured     *)
(* before there is an address.                                             *)
LoopTyped ==
  /\ loop \in {"lookup", "bucket", "gap"} /\ measured.done \in BOOLEAN
  /\ next \in 1..(PerInterval + 1) /\ wake \in Int
  /\ sendPlan \in [1..PerInterval -> Int] /\ \A i \in 1..PerInterval : sendPlan[i] <= IntervalTicks
  /\ loop = "bucket" => started.mono \in Int /\ started.wall \in Int
  /\ loop # "bucket" =>
       /\ ~measured.done /\ next = 1 /\ sentAt = [i \in 1..PerInterval |-> Nothing]
       /\ slewed = 0 /\ steps = 0 /\ lowest = ahead /\ highest = ahead

(* How far the wall clock was ahead when the collector was made, and the   *)
(* part of what it moved since that is not slew.                           *)
AheadThen == started.wall - started.mono
SteppedBy == ahead - AheadThen - slewed

(* The range of the wall clock's lead.  Slew goes one way: before a step   *)
(* the lead is between none of it and all of it; after a step against the  *)
(* slew, the range is no wider than the larger of the two.                 *)
ClockIsKnown ==
  loop = "bucket" =>
    /\ Magnitude(slewed) <= Tolerance
    /\ steps = 0 => SteppedBy = 0
    /\ steps <= 1 =>
         /\ SteppedBy >= 0 /\ slewed >= 0 => lowest >= AheadThen /\ highest <= ahead
         /\ SteppedBy <= 0 /\ slewed <= 0 => highest <= AheadThen /\ lowest >= ahead
         /\ SteppedBy >= 0 /\ slewed <= 0 =>
              /\ highest <= AheadThen + SteppedBy
              /\ highest - lowest <= SteppedBy \/ highest - lowest <= -slewed
         /\ SteppedBy <= 0 /\ slewed >= 0 =>
              /\ lowest >= AheadThen + SteppedBy
              /\ highest - lowest <= -SteppedBy \/ highest - lowest <= slewed

(* No sleep is overslept; the last one ends no sooner than planned, the    *)
(* others no later than the interval, but for the wander.                  *)
LoopIsOnTime ==
  loop = "bucket" =>
    /\ ~measured.done => tick <= wake
    /\ next > PerInterval => wake + highest >= FinalizeAt
    /\ LookedUpInTime =>
         /\ next <= PerInterval => wake + lowest <= IntervalTicks
         /\ \A i \in 1..PerInterval : sentAt[i] # Nothing => sentAt[i] + lowest <= IntervalTicks

(* The wall clock's reading of a moment is off by a lead it had.           *)
ReadAt(w, at) == w \in Int /\ lowest <= w - at /\ w - at <= highest

NotesSend(p, s) ==
  /\ p.failed => p.sent
  /\ p.sent /\ ~p.failed <=> s # Nothing
  /\ s # Nothing => s <= tick /\ p.txUser.mono = s /\ ReadAt(p.txUser.wall, s)

NotesStamp(p, s) ==
  p.txKern # NoTime => s # Nothing /\ p.txKern.mono = Nothing /\ ReadAt(p.txKern.wall, s)

NotesReply(p, s, a) ==
  /\ a # Nothing => s # Nothing /\ s <= a /\ a <= tick
  /\ p.rx # NoTime => a # Nothing /\ p.rx.mono \in {Nothing, a} /\ ReadAt(p.rx.wall, a)
  /\ ~measured.done /\ p.rx = NoTime => a = Nothing

PingsAreNoted ==
  \A i \in 1..PerInterval :
    /\ i >= next => ~pings[i].sent
    /\ NotesSend(pings[i], sentAt[i])
    /\ NotesStamp(pings[i], sentAt[i])
    /\ NotesReply(pings[i], sentAt[i], arrived[i])

(* What was measured is of pings that were sent, and a sample of one that  *)
(* was answered.                                                           *)
MeasuredAreSent ==
  measured.done =>
    /\ \A i \in measured.counted : i \in 1..PerInterval /\ pings[i].sent
    /\ \A i \in DOMAIN measured.samples : i \in 1..PerInterval /\ pings[i].rx # NoTime

BucketInv ==
  /\ ClocksTyped /\ NotesTyped /\ LoopTyped
  /\ ClockIsKnown
  /\ LoopIsOnTime
  /\ PingsAreNoted
  /\ MeasuredAreSent
  /\ MeasuresWhatHappened

-----------------------------------------------------------------------------

(* Sends a space apart, as many as fit, are over a space before the end.   *)
LEMMA TimesSpaced ==
  ASSUME NEW n \in Nat, NEW space \in Nat, NEW i \in 1..n
  PROVE  (i - 1) * space \in Nat /\ (i - 1) * space + space <= n * space
<1>1. (i - 1) * space \in Nat
  OBVIOUS
<1>2. (n - i) * space >= 0
  OBVIOUS
<1>3. n * space = (n - i) * space + (i - 1) * space + space
  OBVIOUS
<1> QED BY <1>1, <1>2, <1>3

(* In either mode sendTimes keeps within the interval.                     *)
LEMMA TimesFit ==
  ASSUME NEW mode \in {"burst", "spread"}, Timed(mode),
         NEW offset \in {0} \cup 0..(Window(mode) - 1)
  PROVE  /\ SendTimes(mode, offset) \in [1..PerInterval -> Int]
         /\ \A i \in 1..PerInterval : SendTimes(mode, offset)[i] <= IntervalTicks
<1> DEFINE space == Spacing(mode)
<1>1. space \in Nat /\ PerInterval \in Nat /\ IntervalTicks \in Nat
      /\ PerInterval * space <= IntervalTicks
      /\ offset \in Int /\ offset + PerInterval * space <= IntervalTicks + space
  <2>1. CASE mode = "spread"
    <3>1. IntervalTicks \div PerInterval \in Nat /\ PerInterval * (IntervalTicks \div PerInterval) <= IntervalTicks
      BY BucketAssumption
    <3> QED BY <3>1, <2>1, BucketAssumption DEF Spacing, Window
  <2>2. CASE mode = "burst"
    BY <2>2, BucketAssumption DEF Spacing, Window, Timed
  <2> QED BY <2>1, <2>2
<1> HIDE DEF space
<1>2. ASSUME NEW i \in 1..PerInterval
      PROVE  offset + (i - 1) * space \in Int /\ offset + (i - 1) * space <= IntervalTicks
  <2>1. (i - 1) * space \in Nat /\ (i - 1) * space + space <= PerInterval * space
    BY <1>1, TimesSpaced
  <2>2. PerInterval * space \in Int
    BY <1>1
  <2> QED BY <2>1, <2>2, <1>1
<1> QED BY <1>2 DEF SendTimes, space

(* A sleep ends in the future or now, at its time by the wall clock as it  *)
(* is, unless that is past.                                                *)
LEMMA AlarmIs ==
  ASSUME ClocksTyped, NEW at \in Int
  PROVE  /\ Alarm(at) \in Int /\ tick <= Alarm(at) /\ at <= Alarm(at) + ahead
         /\ Alarm(at) = tick \/ Alarm(at) + ahead = at
BY DEF ClocksTyped, Alarm

(* A bucket begins with nothing sent.                                      *)
LEMMA BucketStarts ==
  ASSUME BucketInit
  PROVE  BucketInv
<1>1. /\ loop = "lookup" /\ ahead = 0 /\ slewed = 0 /\ steps = 0 /\ lowest = 0 /\ highest = 0
      /\ next = 1 /\ tick = sendPlan[1] /\ wake = sendPlan[1]
      /\ pings = [i \in 1..PerInterval |-> NewPing]
      /\ measured = [done |-> FALSE]
      /\ sentAt = [i \in 1..PerInterval |-> Nothing] /\ arrived = [i \in 1..PerInterval |-> Nothing]
  BY DEF BucketInit
<1>2. sendPlan \in [1..PerInterval -> Int] /\ \A i \in 1..PerInterval : sendPlan[i] <= IntervalTicks
  <2>1. PICK mode \in {"burst", "spread"} : \E offset \in {0} \cup 0..(Window(mode) - 1) :
               Timed(mode) /\ sendPlan = SendTimes(mode, offset)
    BY DEF BucketInit
  <2>2. PICK offset \in {0} \cup 0..(Window(mode) - 1) :
               Timed(mode) /\ sendPlan = SendTimes(mode, offset)
    BY <2>1
  <2> QED BY <2>2, TimesFit
<1>3. sendPlan[1] \in Int /\ 1 \in 1..(PerInterval + 1)
  BY <1>2, BucketAssumption
<1>4. pings \in [1..PerInterval -> PingNotes]
  BY <1>1 DEF NewPing, NoTime, PingNotes, Times
<1>5. ClocksTyped /\ NotesTyped
  BY <1>1, <1>3, <1>4 DEF ClocksTyped, NotesTyped
<1>6. LoopTyped
  BY <1>1, <1>2, <1>3 DEF LoopTyped
<1>7. ClockIsKnown /\ LoopIsOnTime
  BY <1>1 DEF ClockIsKnown, LoopIsOnTime
<1>8. PingsAreNoted
  BY <1>1 DEF PingsAreNoted, NotesSend, NotesStamp, NotesReply, NewPing, NoTime
<1>9. MeasuredAreSent /\ MeasuresWhatHappened
  BY <1>1 DEF MeasuredAreSent, MeasuresWhatHappened
<1> QED BY <1>5, <1>6, <1>7, <1>8, <1>9 DEF BucketInv

(* Before the end nothing is measured.                                     *)
LEMMA UnmeasuredIsRight ==
  ASSUME ~measured'.done
  PROVE  MeasuredAreSent' /\ MeasuresWhatHappened'
BY DEF MeasuredAreSent, MeasuresWhatHappened

(* What a step leaves alone that notes no ping: the notes.                 *)
LEMMA NotesStay ==
  ASSUME BucketInv, UNCHANGED <<pings, sentAt, arrived>>,
         next' = next, tick' \in Int, tick' >= tick,
         lowest' \in Int, highest' \in Int, lowest' <= lowest, highest <= highest',
         measured.done => measured'.done
  PROVE  PingsAreNoted'
<1> SUFFICES ASSUME NEW i \in 1..PerInterval
             PROVE  /\ (i >= next => ~pings[i].sent)'
                    /\ NotesSend(pings[i], sentAt[i])'
                    /\ NotesStamp(pings[i], sentAt[i])'
                    /\ NotesReply(pings[i], sentAt[i], arrived[i])'
  BY DEF PingsAreNoted
<1> DEFINE p == pings[i]
           s == sentAt[i]
           a == arrived[i]
<1>1. /\ i >= next => ~p.sent
      /\ NotesSend(p, s) /\ NotesStamp(p, s) /\ NotesReply(p, s, a)
  BY DEF BucketInv, PingsAreNoted
<1>2. s \in Int \cup {Nothing} /\ a \in Int \cup {Nothing} /\ tick \in Int
      /\ lowest \in Int /\ highest \in Int
  BY DEF BucketInv, NotesTyped, ClocksTyped
<1>3. p' = p /\ s' = s /\ a' = a
  OBVIOUS
<1>4. \A w : \A m \in Int : ReadAt(w, m) => ReadAt(w, m)'
  BY <1>2 DEF ReadAt
<1> HIDE DEF p, s, a
<1>5. NotesSend(p, s)'
  BY <1>1, <1>2, <1>3, <1>4 DEF NotesSend
<1>6. NotesStamp(p, s)'
  BY <1>1, <1>2, <1>3, <1>4 DEF NotesStamp
<1>7. NotesReply(p, s, a)'
  BY <1>1, <1>2, <1>3, <1>4 DEF NotesReply
<1> QED BY <1>1, <1>3, <1>5, <1>6, <1>7 DEF p, s, a

(* With an address the collector starts, on time by the clock of the moment. *)
LEMMA CollectorStarts ==
  ASSUME BucketInv, AddressKnown
  PROVE  BucketInv'
<1>1. /\ loop = "lookup" /\ loop' = "bucket"
      /\ started' = [mono |-> tick, wall |-> tick + ahead]
      /\ wake' = Alarm(sendPlan[1])
      /\ UNCHANGED <<tick, ahead, slewed, steps, lowest, highest, sendPlan, next, pings, sentAt,
                     arrived, measured>>
  BY DEF AddressKnown, Reading, clocks, notes
<1>2. /\ ~measured.done /\ next = 1 /\ slewed = 0 /\ steps = 0 /\ lowest = ahead /\ highest = ahead
      /\ \A i \in 1..PerInterval : sentAt[i] = Nothing
  BY <1>1 DEF BucketInv, LoopTyped
<1>3. ClocksTyped /\ sendPlan[1] \in Int /\ sendPlan[1] <= IntervalTicks
      /\ IntervalTicks \in Nat /\ PerInterval >= 1 /\ PerInterval \in Nat
  BY BucketAssumption DEF BucketInv, LoopTyped
<1>4. /\ Alarm(sendPlan[1]) \in Int /\ tick <= Alarm(sendPlan[1])
      /\ Alarm(sendPlan[1]) = tick \/ Alarm(sendPlan[1]) + ahead = sendPlan[1]
  BY <1>3, AlarmIs
<1>5. ClocksTyped' /\ NotesTyped'
  BY <1>1 DEF BucketInv, ClocksTyped, NotesTyped
<1>6. LoopTyped'
  <2>1. tick \in Int /\ ahead \in Int
    BY <1>3 DEF ClocksTyped
  <2> QED BY <1>1, <1>2, <1>4, <2>1 DEF BucketInv, LoopTyped
<1>7. ClockIsKnown'
  <2>1. AheadThen' = ahead /\ SteppedBy' = 0
    BY <1>1, <1>2, <1>3 DEF AheadThen, SteppedBy, ClocksTyped
  <2>2. slewed' = 0 /\ ahead' = ahead /\ lowest' = ahead /\ highest' = ahead /\ ahead \in Int
        /\ Tolerance \in Nat
    BY <1>1, <1>2, <1>3, BucketAssumption DEF ClocksTyped
  <2> QED BY <2>1, <2>2 DEF ClockIsKnown, Magnitude
<1>8. LoopIsOnTime'
  <2>1. tick \in Int /\ ahead \in Int
    BY <1>3 DEF ClocksTyped
  <2>2. LookedUpInTime' => tick + ahead <= IntervalTicks
    BY <1>1 DEF LookedUpInTime
  <2>3. LookedUpInTime' => wake' + lowest' <= IntervalTicks
    BY <1>1, <1>2, <1>3, <1>4, <2>1, <2>2
  <2>4. \A i \in 1..PerInterval : sentAt'[i] = Nothing
    BY <1>1, <1>2
  <2>5. ~(next' > PerInterval) /\ tick' <= wake'
    BY <1>1, <1>2, <1>3, <1>4
  <2> QED BY <2>3, <2>4, <2>5 DEF LoopIsOnTime
<1>9. PingsAreNoted'
  <2>1. tick \in Int /\ lowest \in Int /\ highest \in Int
    BY <1>3 DEF ClocksTyped
  <2> QED BY <1>1, <2>1, NotesStay
<1> QED BY <1>1, <1>2, <1>5, <1>6, <1>7, <1>8, <1>9, UnmeasuredIsRight DEF BucketInv

(* Without one there is nothing to measure.                                *)
LEMMA GapIsNothing ==
  ASSUME BucketInv, NoAddressKnown
  PROVE  BucketInv'
<1>1. /\ loop = "lookup" /\ loop' = "gap"
      /\ UNCHANGED <<tick, ahead, slewed, steps, lowest, highest, sendPlan, next, wake, pings,
                     sentAt, arrived, measured, started>>
  BY DEF NoAddressKnown, clocks, notes
<1>2. ClocksTyped' /\ NotesTyped' /\ LoopTyped'
  BY <1>1 DEF BucketInv, ClocksTyped, NotesTyped, LoopTyped
<1>3. ClockIsKnown' /\ LoopIsOnTime'
  BY <1>1 DEF ClockIsKnown, LoopIsOnTime
<1>4. PingsAreNoted'
  <2>1. tick \in Int /\ lowest \in Int /\ highest \in Int
    BY DEF BucketInv, ClocksTyped
  <2> QED BY <1>1, <2>1, NotesStay
<1>5. ~measured'.done
  BY <1>1 DEF BucketInv, LoopTyped
<1> QED BY <1>2, <1>3, <1>4, <1>5, UnmeasuredIsRight DEF BucketInv

(* A reading taken now is right of now.                                    *)
LEMMA ReadingNow ==
  ASSUME ClocksTyped
  PROVE  ReadAt(tick + ahead, tick)
BY DEF ReadAt, ClocksTyped

(* In a state of the invariant, what is noted of one ping.                 *)
LEMMA NotesAre ==
  ASSUME BucketInv, NEW i \in 1..PerInterval
  PROVE  /\ pings[i] \in PingNotes
         /\ sentAt[i] \in Int \cup {Nothing} /\ arrived[i] \in Int \cup {Nothing}
         /\ i >= next => ~pings[i].sent
         /\ NotesSend(pings[i], sentAt[i])
         /\ NotesStamp(pings[i], sentAt[i])
         /\ NotesReply(pings[i], sentAt[i], arrived[i])
         /\ ReadAt(tick + ahead, tick) /\ tick \in Int /\ tick + ahead \in Int
         /\ Reading \in Times /\ KernelStamp \in Times
BY ReadingNow DEF BucketInv, NotesTyped, ClocksTyped, PingsAreNoted, Reading, KernelStamp, Times

(* A step that notes something of one ping while the clocks stand still.   *)
LEMMA NotesOfOne ==
  ASSUME BucketInv, UNCHANGED <<tick, lowest, highest, measured>>,
         NEW i \in 1..PerInterval,
         NEW p \in PingNotes, NEW s \in Int \cup {Nothing}, NEW a \in Int \cup {Nothing},
         pings' = [pings EXCEPT ![i] = p],
         sentAt' = [sentAt EXCEPT ![i] = s],
         arrived' = [arrived EXCEPT ![i] = a],
         \A j \in 1..PerInterval : j >= next' => j >= next,
         i >= next' => ~p.sent,
         NotesSend(p, s), NotesStamp(p, s), NotesReply(p, s, a),
         measured.done => p = pings[i]
  PROVE  NotesTyped' /\ PingsAreNoted' /\ MeasuredAreSent'
<1> USE DEF BucketInv
<1>1. NotesTyped'
  BY DEF NotesTyped
<1>2. ASSUME NEW j \in 1..PerInterval
      PROVE  /\ (j >= next => ~pings[j].sent)'
             /\ NotesSend(pings[j], sentAt[j])'
             /\ NotesStamp(pings[j], sentAt[j])'
             /\ NotesReply(pings[j], sentAt[j], arrived[j])'
  <2>1. CASE j = i
    <3>1. pings'[j] = p /\ sentAt'[j] = s /\ arrived'[j] = a
      BY <2>1 DEF NotesTyped
    <3> QED BY <3>1, <2>1 DEF NotesSend, NotesStamp, NotesReply, ReadAt
  <2>2. CASE j # i
    <3>1. pings'[j] = pings[j] /\ sentAt'[j] = sentAt[j] /\ arrived'[j] = arrived[j]
      BY <2>2 DEF NotesTyped
    <3> QED BY <3>1 DEF PingsAreNoted, NotesSend, NotesStamp, NotesReply, ReadAt
  <2> QED BY <2>1, <2>2
<1>3. PingsAreNoted'
  BY <1>2 DEF PingsAreNoted
<1>4. MeasuredAreSent'
  <2>1. CASE measured.done
    <3>1. pings' = pings
      BY <2>1 DEF NotesTyped
    <3> QED BY <3>1 DEF MeasuredAreSent
  <2>2. CASE ~measured.done
    BY <2>2 DEF MeasuredAreSent
  <2> QED BY <2>1, <2>2
<1> QED BY <1>1, <1>3, <1>4

(* A ping that is sent, or fails to be, keeps the invariant: the next sleep *)
(* ends within the interval, the last one no sooner than planned.           *)
LEMMA SendingIsNoted ==
  ASSUME BucketInv, NEW i \in 1..PerInterval, SendPing(i) \/ SendFailsHere(i)
  PROVE  BucketInv'
<1> DEFINE p == IF SendPing(i) THEN [pings[i] EXCEPT !.sent = TRUE, !.txUser = Reading]
                               ELSE [pings[i] EXCEPT !.sent = TRUE, !.failed = TRUE]
           s == IF SendPing(i) THEN tick ELSE sentAt[i]
           then == IF next < PerInterval THEN sendPlan[next + 1] ELSE FinalizeAt
<1>1. /\ loop = "bucket" /\ ~measured.done /\ next = i /\ tick >= wake
      /\ next' = next + 1 /\ wake' = Alarm(then)
      /\ pings' = [pings EXCEPT ![i] = p] /\ sentAt' = [sentAt EXCEPT ![i] = s]
      /\ arrived' = [arrived EXCEPT ![i] = arrived[i]]
      /\ UNCHANGED <<loop, tick, ahead, slewed, steps, lowest, highest, sendPlan, started, measured>>
  BY DEF SendPing, SendFailsHere, Due, Measuring, SleepOn, clocks, BucketInv, NotesTyped
<1>2. p \in PingNotes /\ s \in Int \cup {Nothing} /\ arrived[i] \in Int \cup {Nothing}
  BY NotesAre DEF PingNotes
<1>3. ~pings[i].sent /\ sentAt[i] = Nothing /\ arrived[i] = Nothing
  BY <1>1, NotesAre DEF NotesSend, NotesReply
<1>4. NotesSend(p, s)
  BY <1>1, <1>3, NotesAre, BucketAssumption DEF NotesSend, PingNotes, Reading
<1>5. NotesStamp(p, s) /\ NotesReply(p, s, arrived[i])
  BY <1>1, <1>3, NotesAre DEF NotesStamp, NotesReply, PingNotes
<1>6. s # Nothing => s = tick
  BY <1>1, <1>3
<1>7. /\ next \in 1..(PerInterval + 1) /\ PerInterval \in Nat /\ IntervalTicks \in Nat /\ FinalizeAt \in Nat
      /\ ClocksTyped
  BY BucketAssumption DEF BucketInv, LoopTyped, FinalizeAt
<1>8. then \in Int /\ (next < PerInterval => then <= IntervalTicks)
  BY <1>7 DEF BucketInv, LoopTyped
<1>9. ~(next < PerInterval) => then = FinalizeAt
  OBVIOUS
<1> HIDE DEF p, s, then
<1>10. NotesTyped' /\ PingsAreNoted' /\ MeasuredAreSent'
  <2>1. \A j \in 1..PerInterval : j >= next' => j >= next
    BY <1>1, <1>7
  <2>2. ~(i >= next')
    BY <1>1, <1>7
  <2> QED BY <1>1, <1>2, <1>4, <1>5, <2>1, <2>2, NotesOfOne
<1>11. /\ Alarm(then) \in Int /\ tick <= Alarm(then) /\ then <= Alarm(then) + ahead
       /\ Alarm(then) = tick \/ Alarm(then) + ahead = then
  BY <1>7, <1>8, AlarmIs
<1>12. ClocksTyped' /\ ClockIsKnown'
  BY <1>1 DEF BucketInv, ClocksTyped, ClockIsKnown, SteppedBy, AheadThen
<1>13. LoopTyped'
  BY <1>1, <1>7, <1>11 DEF BucketInv, LoopTyped
<1>14. LoopIsOnTime'
  <2>1. /\ lowest \in Int /\ highest \in Int /\ ahead \in Int /\ tick \in Int
        /\ lowest <= ahead /\ ahead <= highest /\ wake \in Int
    BY <1>7 DEF ClocksTyped, BucketInv, LoopTyped
  <2>2. tick' <= wake'
    BY <1>1, <1>11
  <2>3. next' > PerInterval => wake' + highest' >= FinalizeAt
    BY <1>1, <1>7, <1>8, <1>9, <1>11, <2>1
  <2>4. ASSUME LookedUpInTime
        PROVE  tick + lowest <= IntervalTicks
    BY <1>1, <1>7, <2>1, <2>4 DEF BucketInv, LoopIsOnTime
  <2>5. LookedUpInTime /\ next' <= PerInterval => wake' + lowest' <= IntervalTicks
    BY <1>1, <1>7, <1>8, <1>11, <2>1, <2>4
  <2>6. ASSUME LookedUpInTime, NEW j \in 1..PerInterval, sentAt'[j] # Nothing
        PROVE  sentAt'[j] + lowest <= IntervalTicks
    <3>1. CASE j = i
      BY <3>1, <1>1, <1>6, <2>4, <2>6 DEF BucketInv, NotesTyped
    <3>2. CASE j # i
      BY <3>2, <1>1, <2>6 DEF BucketInv, NotesTyped, LoopIsOnTime
    <3> QED BY <3>1, <3>2
  <2>7. LookedUpInTime' <=> LookedUpInTime
    BY <1>1 DEF LookedUpInTime
  <2> QED BY <1>1, <2>2, <2>3, <2>5, <2>6, <2>7 DEF LoopIsOnTime
<1> QED BY <1>1, <1>10, <1>12, <1>13, <1>14, UnmeasuredIsRight DEF BucketInv

(* So does a kernel stamp, which is of the tick the ping is sent in.       *)
LEMMA StampIsNoted ==
  ASSUME BucketInv, NEW i \in 1..PerInterval, KernelStamps(i)
  PROVE  BucketInv'
<1> DEFINE p == [pings[i] EXCEPT !.txKern = KernelStamp]
<1>1. /\ ~measured.done /\ sentAt[i] = tick
      /\ pings' = [pings EXCEPT ![i] = p] /\ sentAt' = [sentAt EXCEPT ![i] = sentAt[i]]
      /\ arrived' = [arrived EXCEPT ![i] = arrived[i]]
      /\ UNCHANGED <<loop, tick, ahead, slewed, steps, lowest, highest, sendPlan, next, wake,
                     started, measured, sentAt>>
  BY DEF KernelStamps, Measuring, clocks, BucketInv, NotesTyped
<1>2. p \in PingNotes
  BY NotesAre DEF PingNotes
<1>3. sentAt[i] # Nothing
  BY <1>1, NotesAre, BucketAssumption
<1>4. NotesSend(p, sentAt[i]) /\ NotesReply(p, sentAt[i], arrived[i])
  BY NotesAre DEF NotesSend, NotesReply, PingNotes
<1>5. NotesStamp(p, sentAt[i])
  BY <1>1, <1>3, NotesAre DEF NotesStamp, PingNotes, KernelStamp
<1>6. i >= next => ~p.sent
  BY NotesAre DEF PingNotes
<1> HIDE DEF p
<1>7. NotesTyped' /\ PingsAreNoted' /\ MeasuredAreSent'
  BY <1>1, <1>2, <1>4, <1>5, <1>6, NotesAre, NotesOfOne
<1>8. ClocksTyped' /\ LoopTyped' /\ ClockIsKnown' /\ LoopIsOnTime'
  BY <1>1 DEF BucketInv, ClocksTyped, LoopTyped, ClockIsKnown, SteppedBy, AheadThen, LoopIsOnTime,
              LookedUpInTime
<1> QED BY <1>1, <1>7, <1>8, UnmeasuredIsRight DEF BucketInv

(* A reply after the end is of a ping that was given its time.             *)
LEMMA LateReplyChangesNothing ==
  ASSUME BucketInv, NEW i \in 1..PerInterval, measured.done,
         UNCHANGED <<tick, lowest, highest, pings, measured, started, steps, sentAt>>,
         arrived[i] = Nothing, sentAt[i] # Nothing, arrived' = [arrived EXCEPT ![i] = tick]
  PROVE  MeasuresWhatHappened'
<1>1. /\ \A j \in DOMAIN measured.samples : SampleIsItsTime(j)
      /\ ~measured.clockStep =>
           /\ steps = 0 => Wander <= Tolerance
           /\ steps = 1 => Wander <= 2 * Tolerance
           /\ LookedUpInTime => \A j \in measured.counted \ DOMAIN measured.samples : WasLost(j)
  BY DEF BucketInv, MeasuresWhatHappened
<1>2. /\ \A j \in DOMAIN measured.samples : j \in 1..PerInterval /\ pings[j].rx # NoTime
      /\ \A j \in measured.counted : j \in 1..PerInterval
  BY DEF BucketInv, MeasuredAreSent
<1>3. \A j \in 1..PerInterval : j # i => arrived'[j] = arrived[j]
  BY DEF BucketInv, NotesTyped
<1>4. arrived'[i] = tick
  BY DEF BucketInv, NotesTyped
<1>5. Wander' = Wander /\ (LookedUpInTime' <=> LookedUpInTime)
  BY DEF Wander, LookedUpInTime
<1>6. ASSUME NEW j \in DOMAIN measured.samples
      PROVE  SampleIsItsTime(j)'
  <2>1. pings[j].rx # NoTime /\ j \in 1..PerInterval
    BY <1>2
  <2>2. j # i
    BY <2>1, NotesAre DEF NotesReply
  <2> QED BY <2>1, <2>2, <1>1, <1>3, <1>5 DEF SampleIsItsTime
<1>7. ASSUME ~measured.clockStep, LookedUpInTime,
             NEW j \in measured.counted \ DOMAIN measured.samples
      PROVE  WasLost(j)'
  <2>1. j \in 1..PerInterval /\ WasLost(j)
    BY <1>1, <1>2, <1>7
  <2>2. CASE j # i
    BY <2>1, <2>2, <1>3, <1>5 DEF WasLost
  <2>3. CASE j = i
    <3>1. tick \in Int /\ tick # Nothing
      BY NotesAre, BucketAssumption
    <3> QED BY <3>1, <2>1, <2>3, <1>4, <1>5 DEF WasLost
  <2> QED BY <2>2, <2>3
<1> QED BY <1>1, <1>5, <1>6, <1>7 DEF MeasuresWhatHappened

(* A reply in time is noted by either clock, a late one by nobody.         *)
LEMMA ReplyIsNoted ==
  ASSUME BucketInv, NEW i \in 1..PerInterval, NEW kernel \in BOOLEAN, ReplyComes(i, kernel)
  PROVE  BucketInv'
<1> DEFINE t == IF kernel THEN KernelStamp ELSE Reading
           p == IF measured.done THEN pings[i] ELSE [pings[i] EXCEPT !.rx = t]
<1>1. /\ sentAt[i] # Nothing /\ arrived[i] = Nothing
      /\ sentAt' = [sentAt EXCEPT ![i] = sentAt[i]]
      /\ arrived' = [arrived EXCEPT ![i] = tick]
      /\ UNCHANGED <<loop, tick, ahead, slewed, steps, lowest, highest, sendPlan, next, wake,
                     started, measured, sentAt>>
      /\ pings' = [pings EXCEPT ![i] = p]
  BY DEF ReplyComes, clocks, BucketInv, NotesTyped
<1>2. p \in PingNotes
  BY NotesAre DEF PingNotes
<1>3. NotesSend(p, sentAt[i]) /\ NotesStamp(p, sentAt[i])
  BY NotesAre DEF NotesSend, NotesStamp, PingNotes
<1>4. NotesReply(p, sentAt[i], tick)
  <2>1. sentAt[i] <= tick
    BY <1>1, NotesAre DEF NotesSend
  <2>2. CASE measured.done
    BY <2>1, <2>2, <1>1, NotesAre, BucketAssumption DEF NotesReply
  <2>3. CASE ~measured.done
    <3>1. p.rx = t
      BY <2>3, NotesAre DEF PingNotes
    <3>2. t.mono \in {Nothing, tick} /\ t.wall = tick + ahead /\ t # NoTime
      BY NotesAre, BucketAssumption DEF KernelStamp, Reading, NoTime
    <3> HIDE DEF p, t
    <3> QED BY <3>1, <3>2, <2>1, <1>1, NotesAre, BucketAssumption DEF NotesReply
  <2> QED BY <2>2, <2>3
<1>5. measured.done => p = pings[i]
  OBVIOUS
<1>6. i >= next => ~p.sent
  BY NotesAre DEF PingNotes
<1> HIDE DEF p
<1>7. NotesTyped' /\ PingsAreNoted' /\ MeasuredAreSent'
  BY <1>1, <1>2, <1>3, <1>4, <1>5, <1>6, NotesAre, NotesOfOne
<1>8. ClocksTyped' /\ LoopTyped' /\ ClockIsKnown' /\ LoopIsOnTime'
  BY <1>1 DEF BucketInv, ClocksTyped, LoopTyped, ClockIsKnown, SteppedBy, AheadThen, LoopIsOnTime,
              LookedUpInTime
<1>9. MeasuresWhatHappened'
  <2>1. CASE measured.done
    <3>1. pings' = pings
      BY <2>1, <1>1, <1>5 DEF BucketInv, NotesTyped
    <3> QED BY <3>1, <2>1, <1>1, LateReplyChangesNothing
  <2>2. CASE ~measured.done
    BY <2>2, <1>1, UnmeasuredIsRight
  <2> QED BY <2>1, <2>2
<1> QED BY <1>7, <1>8, <1>9 DEF BucketInv

(* A range that is widened holds what it held.                             *)
LEMMA WideningHolds ==
  ASSUME ClocksTyped, ahead' \in Int, Widened,
         loop # "bucket" => lowest = ahead /\ highest = ahead
  PROVE  /\ lowest' \in Int /\ highest' \in Int /\ lowest' <= ahead' /\ ahead' <= highest'
         /\ loop # "lookup" =>
              /\ lowest' <= lowest /\ highest <= highest'
              /\ lowest' = lowest \/ lowest' = ahead'
              /\ highest' = highest \/ highest' = ahead'
         /\ loop = "lookup" => lowest' = ahead' /\ highest' = ahead'
BY DEF ClocksTyped, Widened

(* What one step, or a bit of slew, does to what is known of the clock.    *)
LEMMA RangeGrows ==
  ASSUME BucketInv, loop = "bucket", loop' = loop, started' = started,
         NEW d \in Int, ahead' = ahead + d, Widened,
         \/ steps' = steps + 1 /\ slewed' = slewed
         \/ /\ steps' = steps /\ slewed' = slewed + d /\ d \in {-1, 1}
            /\ d = 1 => slewed >= 0
            /\ d = -1 => slewed <= 0
            /\ Magnitude(slewed + d) <= Tolerance
  PROVE  ClockIsKnown'
<1> DEFINE off == AheadThen
           by == SteppedBy
<1>1. /\ off \in Int /\ by \in Int /\ slewed \in Int /\ steps \in Nat /\ ahead = off + by + slewed
      /\ AheadThen' = off
      /\ Magnitude(slewed') <= Tolerance /\ slewed' \in Int
  BY DEF AheadThen, SteppedBy, BucketInv, ClocksTyped, LoopTyped, ClockIsKnown
<1>2. /\ lowest \in Int /\ highest \in Int /\ lowest <= ahead /\ ahead <= highest
      /\ lowest' = lowest \/ lowest' = ahead'
      /\ highest' = highest \/ highest' = ahead'
      /\ lowest' <= lowest /\ highest <= highest'
  BY WideningHolds DEF BucketInv, ClocksTyped, LoopTyped
<1>3. /\ steps = 0 => by = 0
      /\ steps <= 1 =>
           /\ by >= 0 /\ slewed >= 0 => lowest >= off /\ highest <= ahead
           /\ by <= 0 /\ slewed <= 0 => highest <= off /\ lowest >= ahead
           /\ by >= 0 /\ slewed <= 0 =>
                highest <= off + by /\ (highest - lowest <= by \/ highest - lowest <= -slewed)
           /\ by <= 0 /\ slewed >= 0 =>
                lowest >= off + by /\ (highest - lowest <= -by \/ highest - lowest <= slewed)
  BY DEF BucketInv, ClockIsKnown
<1>4. SteppedBy' = ahead + d - off - slewed'
  BY <1>1 DEF SteppedBy
<1> HIDE DEF off, by
<1>5. CASE steps' = steps + 1 /\ slewed' = slewed
  <2>1. SteppedBy' = by + d
    BY <1>1, <1>4, <1>5
  <2>2. CASE steps = 0
    <3>1. SteppedBy' = d /\ ahead' = off + slewed + d
      BY <1>1, <1>3, <2>1, <2>2
    <3>2. /\ slewed >= 0 => lowest >= off /\ highest <= off + slewed
          /\ slewed <= 0 => highest <= off /\ lowest >= off + slewed
      BY <1>1, <1>3, <2>2
    <3> QED BY <1>1, <1>2, <1>5, <2>2, <3>1, <3>2 DEF ClockIsKnown
  <2>3. CASE steps # 0
    BY <1>1, <1>5, <2>3 DEF ClockIsKnown
  <2> QED BY <2>2, <2>3
<1>6. CASE steps' = steps /\ slewed' = slewed + d /\ d = 1 /\ slewed >= 0
  <2>1. SteppedBy' = by /\ ahead' = off + by + slewed + 1
    BY <1>1, <1>4, <1>6
  <2> QED BY <1>1, <1>2, <1>3, <1>6, <2>1 DEF ClockIsKnown
<1>7. CASE steps' = steps /\ slewed' = slewed + d /\ d = -1 /\ slewed <= 0
  <2>1. SteppedBy' = by /\ ahead' = off + by + slewed - 1
    BY <1>1, <1>4, <1>7
  <2> QED BY <1>1, <1>2, <1>3, <1>7, <2>1 DEF ClockIsKnown
<1> QED BY <1>5, <1>6, <1>7

(* What was on time by a lead the clock had is on time when it has had more. *)
LEMMA OnTimeStays ==
  ASSUME BucketInv, loop = "bucket", ~measured.done,
         UNCHANGED <<loop, tick, next, wake, sentAt, started, measured>>,
         lowest' \in Int, highest' \in Int, lowest' <= lowest, highest <= highest'
  PROVE  LoopIsOnTime'
<1>1. /\ lowest \in Int /\ highest \in Int /\ tick \in Int /\ wake \in Int /\ tick <= wake
      /\ IntervalTicks \in Nat /\ FinalizeAt \in Nat
  BY BucketAssumption DEF ClocksTyped, BucketInv, LoopTyped, LoopIsOnTime, FinalizeAt
<1>3. /\ wake + highest >= FinalizeAt => wake + highest' >= FinalizeAt
      /\ wake + lowest <= IntervalTicks => wake + lowest' <= IntervalTicks
  <2>1. \A low, high \in Int : low <= lowest /\ highest <= high =>
          /\ wake + highest >= FinalizeAt => wake + high >= FinalizeAt
          /\ wake + lowest <= IntervalTicks => wake + low <= IntervalTicks
    BY <1>1
  <2> QED BY <2>1
<1>4. /\ next > PerInterval => wake + highest >= FinalizeAt
      /\ LookedUpInTime /\ next <= PerInterval => wake + lowest <= IntervalTicks
  BY DEF BucketInv, LoopIsOnTime
<1>5. ASSUME LookedUpInTime, NEW i \in 1..PerInterval, sentAt[i] # Nothing
      PROVE  sentAt[i] + lowest' <= IntervalTicks
  <2>1. sentAt[i] \in Int /\ sentAt[i] + lowest <= IntervalTicks
    BY <1>5, NotesAre DEF BucketInv, LoopIsOnTime
  <2> QED BY <1>1, <2>1
<1>2. LookedUpInTime' <=> LookedUpInTime
  BY DEF LookedUpInTime
<1> QED BY <1>1, <1>2, <1>3, <1>4, <1>5 DEF LoopIsOnTime

(* The clock moves, and what was read of the past is right of it still.    *)
LEMMA WallClockMoves ==
  ASSUME BucketInv, \/ \E size \in StepSizes, way \in {-1, 1} : StepClock(way * size)
                    \/ \E d \in {-1, 1} : SlewClock(d)
  PROVE  BucketInv'
<1>1. PICK d \in Int :
        /\ ahead' = ahead + d /\ Widened
        /\ \/ loop = "lookup" /\ UNCHANGED <<steps, slewed>>
           \/ loop = "bucket" /\ steps' = steps + 1 /\ slewed' = slewed
           \/ /\ loop = "bucket" /\ steps' = steps /\ slewed' = slewed + d /\ d \in {-1, 1}
              /\ d = 1 => slewed >= 0
              /\ d = -1 => slewed <= 0
              /\ Magnitude(slewed + d) <= Tolerance
  <2>1. ASSUME NEW size \in StepSizes, NEW way \in {-1, 1}, StepClock(way * size)
        PROVE  way * size \in Int /\ ahead' = ahead + way * size /\ Widened /\ slewed' = slewed
               /\ \/ loop = "lookup" /\ steps' = steps
                  \/ loop = "bucket" /\ steps' = steps + 1
    <3>1. way * size \in Int
      BY BucketAssumption
    <3> QED BY <3>1, <2>1 DEF StepClock, Measuring
  <2>2. ASSUME NEW d \in {-1, 1}, SlewClock(d)
        PROVE  /\ ahead' = ahead + d /\ Widened /\ loop = "bucket"
               /\ steps' = steps /\ slewed' = slewed + d
               /\ d = 1 => slewed >= 0
               /\ d = -1 => slewed <= 0
               /\ Magnitude(slewed + d) <= Tolerance
    <3>1. slewed \in Int
      BY DEF BucketInv, ClocksTyped
    <3> QED BY <3>1, <2>2 DEF SlewClock, Measuring
  <2>3. CASE \E size \in StepSizes, way \in {-1, 1} : StepClock(way * size)
    BY <2>1, <2>3
  <2>4. CASE \E d \in {-1, 1} : SlewClock(d)
    BY <2>2, <2>4
  <2> QED BY <2>3, <2>4
<1>2. /\ ~measured.done
      /\ UNCHANGED <<loop, tick, sendPlan, next, wake, pings, sentAt, arrived, started, measured>>
  BY DEF StepClock, SlewClock, Measuring, notes, BucketInv, LoopTyped
<1>3. ClocksTyped /\ ahead' \in Int /\ slewed' \in Int /\ steps' \in Nat
      /\ (loop # "bucket" => lowest = ahead /\ highest = ahead)
  BY <1>1 DEF BucketInv, ClocksTyped, LoopTyped
<1>4. ClocksTyped'
  BY <1>1, <1>2, <1>3, WideningHolds DEF ClocksTyped
<1>5. NotesTyped' /\ LoopTyped'
  BY <1>1, <1>2, <1>3, WideningHolds DEF BucketInv, NotesTyped, LoopTyped
<1>6. ClockIsKnown'
  <2>1. CASE loop = "lookup"
    BY <1>2, <2>1 DEF ClockIsKnown
  <2>2. CASE loop # "lookup"
    BY <1>1, <1>2, <2>2, RangeGrows
  <2> QED BY <2>1, <2>2
<1>7. CASE loop = "lookup"
  <2>1. PingsAreNoted'
    <3>1. \A i \in 1..PerInterval : sentAt[i] = Nothing
      BY <1>7 DEF BucketInv, LoopTyped
    <3> SUFFICES ASSUME NEW i \in 1..PerInterval
                 PROVE  /\ (i >= next => ~pings[i].sent)'
                        /\ NotesSend(pings[i], sentAt[i])'
                        /\ NotesStamp(pings[i], sentAt[i])'
                        /\ NotesReply(pings[i], sentAt[i], arrived[i])'
      BY DEF PingsAreNoted
    <3> QED BY <1>2, <3>1, NotesAre DEF NotesSend, NotesStamp, NotesReply
  <2>2. LoopIsOnTime'
    BY <1>2, <1>7 DEF LoopIsOnTime
  <2> QED BY <1>2, <1>4, <1>5, <1>6, <2>1, <2>2, UnmeasuredIsRight DEF BucketInv
<1>8. CASE loop = "bucket"
  <2>1. lowest' \in Int /\ highest' \in Int /\ lowest' <= lowest /\ highest <= highest'
    BY <1>1, <1>3, <1>8, WideningHolds
  <2>2. PingsAreNoted'
    BY <1>2, <1>3, <2>1, NotesStay DEF ClocksTyped
  <2>3. LoopIsOnTime'
    BY <1>2, <1>3, <1>8, <2>1, OnTimeStays
  <2> QED BY <1>2, <1>4, <1>5, <1>6, <2>2, <2>3, UnmeasuredIsRight DEF BucketInv
<1> QED BY <1>1, <1>7, <1>8

(* Time passes, but past no sleep's end.                                   *)
LEMMA TimePasses ==
  ASSUME BucketInv, TickPasses
  PROVE  BucketInv'
<1>1. /\ ~measured.done /\ tick' = tick + 1
      /\ loop = "bucket" => tick < wake
      /\ UNCHANGED <<loop, ahead, slewed, steps, lowest, highest, sendPlan, next, wake, pings, sentAt,
                     arrived, started, measured>>
  BY DEF TickPasses, notes
<1>2. ClocksTyped' /\ NotesTyped' /\ LoopTyped' /\ ClockIsKnown'
  BY <1>1 DEF BucketInv, ClocksTyped, NotesTyped, LoopTyped, ClockIsKnown, SteppedBy, AheadThen
<1>3. LoopIsOnTime'
  <2>1. tick \in Int /\ wake \in Int
    BY DEF BucketInv, ClocksTyped, LoopTyped
  <2> QED BY <1>1, <2>1 DEF BucketInv, LoopIsOnTime, LookedUpInTime
<1>4. PingsAreNoted'
  BY <1>1, NotesStay DEF BucketInv, ClocksTyped
<1> QED BY <1>1, <1>2, <1>3, <1>4, UnmeasuredIsRight DEF BucketInv

(* A round trip is what the ping took, but for what the clock wandered,    *)
(* whatever clocks it was told by.                                         *)
LEMMA RoundTripIsRight ==
  ASSUME BucketInv, NEW i \in 1..PerInterval,
         pings[i].sent, ~pings[i].failed, pings[i].rx # NoTime
  PROVE  /\ sentAt[i] \in Int /\ arrived[i] \in Int
         /\ RoundTrip(pings[i]) \in Int
         /\ Magnitude(RoundTrip(pings[i]) - (arrived[i] - sentAt[i])) <= Wander
<1> DEFINE p == pings[i]
           s == sentAt[i]
           a == arrived[i]
<1>1. s \in Int /\ a \in Int /\ p.txUser.mono = s
      /\ ReadAt(p.txUser.wall, s) /\ ReadAt(p.rx.wall, a) /\ p.rx.mono \in {Nothing, a}
  BY NotesAre DEF NotesSend, NotesReply
<1>2. p.txKern # NoTime => p.txKern.mono = Nothing /\ ReadAt(p.txKern.wall, s)
  BY NotesAre DEF NotesStamp
<1>3. lowest \in Int /\ highest \in Int /\ lowest <= highest /\ Wander = highest - lowest
  BY DEF BucketInv, ClocksTyped, Wander
<1> HIDE DEF p, s, a
<1>4. \A u, v : ReadAt(u, s) /\ ReadAt(v, a) =>
        v - u \in Int /\ Magnitude((v - u) - (a - s)) <= Wander
  BY <1>1, <1>3 DEF ReadAt, Magnitude
<1>5. a - s \in Int /\ Magnitude((a - s) - (a - s)) <= Wander
  BY <1>1, <1>3 DEF Magnitude
<1>6. s # Nothing /\ a # Nothing
  BY <1>1, BucketAssumption
<1>7. CASE SentTime(p) = p.txUser
  <2>1. CASE p.rx.mono = Nothing
    <3>1. RoundTrip(p) = p.rx.wall - p.txUser.wall
      BY <1>7, <2>1 DEF RoundTrip, Between
    <3> QED BY <3>1, <1>1, <1>4 DEF p, s, a
  <2>2. CASE p.rx.mono = a
    <3>1. RoundTrip(p) = a - s
      BY <1>1, <1>6, <1>7, <2>2 DEF RoundTrip, Between
    <3> QED BY <3>1, <1>1, <1>5 DEF p, s, a
  <2> QED BY <1>1, <2>1, <2>2
<1>8. CASE SentTime(p) # p.txUser
  <2>1. p.txKern # NoTime /\ SentTime(p) = p.txKern
    BY <1>8 DEF SentTime
  <2>2. RoundTrip(p) = p.rx.wall - p.txKern.wall
    BY <1>2, <2>1 DEF RoundTrip, Between
  <2> QED BY <2>1, <2>2, <1>1, <1>2, <1>4 DEF p, s, a
<1> QED BY <1>7, <1>8

(* What finalize does not call a step moved the clock by no more than it   *)
(* tolerates, or twice that if slew hid a step.                            *)
LEMMA UnseenIsSmall ==
  ASSUME BucketInv, loop = "bucket", ~ClockStepped(Reading)
  PROVE  /\ steps = 0 => Wander <= Tolerance
         /\ steps = 1 => Wander <= 2 * Tolerance
<1> DEFINE off == AheadThen
           by == SteppedBy
<1>1. /\ off \in Int /\ by \in Int /\ slewed \in Int /\ steps \in Nat /\ ahead = off + by + slewed
      /\ Magnitude(slewed) <= Tolerance /\ Tolerance \in Nat
      /\ lowest \in Int /\ highest \in Int /\ Wander = highest - lowest
  <2>1. /\ tick \in Int /\ ahead \in Int /\ started.mono \in Int /\ started.wall \in Int
        /\ slewed \in Int /\ steps \in Nat /\ lowest \in Int /\ highest \in Int
    BY DEF BucketInv, ClocksTyped, LoopTyped
  <2>2. Magnitude(slewed) <= Tolerance /\ Tolerance \in Nat
    BY BucketAssumption DEF BucketInv, ClockIsKnown
  <2> QED BY <2>1, <2>2 DEF AheadThen, SteppedBy, Wander
<1>2. /\ steps = 0 => by = 0
      /\ steps <= 1 =>
           /\ by >= 0 /\ slewed >= 0 => lowest >= off /\ highest <= ahead
           /\ by <= 0 /\ slewed <= 0 => highest <= off /\ lowest >= ahead
           /\ by >= 0 /\ slewed <= 0 =>
                highest <= off + by /\ (highest - lowest <= by \/ highest - lowest <= -slewed)
           /\ by <= 0 /\ slewed >= 0 =>
                lowest >= off + by /\ (highest - lowest <= -by \/ highest - lowest <= slewed)
  BY DEF BucketInv, ClockIsKnown
<1>3. Magnitude(ahead - off) <= Tolerance
  <2>1. tick \in Int /\ ahead \in Int /\ started.mono \in Int /\ started.wall \in Int
    BY DEF BucketInv, ClocksTyped, LoopTyped
  <2>2. (Reading.wall - started.wall) - (Reading.mono - started.mono) = ahead - off
    BY <2>1 DEF AheadThen, Reading
  <2>3. ~(Magnitude((Reading.wall - started.wall) - (Reading.mono - started.mono)) > Tolerance)
    BY Zenon DEF ClockStepped
  <2>4. ahead - off \in Int
    BY <1>1, <2>1
  <2> HIDE DEF off, by
  <2> QED BY <1>1, <2>2, <2>3, <2>4 DEF Magnitude
<1> HIDE DEF off, by
<1>4. CASE steps = 0
  BY <1>1, <1>2, <1>4 DEF Magnitude
<1>5. CASE steps = 1
  <2>1. Magnitude(by + slewed) <= Tolerance
    BY <1>1, <1>3
  <2>2. CASE by >= 0 /\ slewed >= 0
    BY <1>1, <1>2, <1>5, <2>1, <2>2 DEF Magnitude
  <2>3. CASE by <= 0 /\ slewed <= 0
    BY <1>1, <1>2, <1>5, <2>1, <2>3 DEF Magnitude
  <2>4. CASE by >= 0 /\ slewed <= 0
    BY <1>1, <1>2, <1>5, <2>1, <2>4 DEF Magnitude
  <2>5. CASE by <= 0 /\ slewed >= 0
    BY <1>1, <1>2, <1>5, <2>1, <2>5 DEF Magnitude
  <2> QED BY <1>1, <2>2, <2>3, <2>4, <2>5
<1> QED BY <1>1, <1>4, <1>5

(* finalize counts what was sent, samples what was answered in its time,   *)
(* and leaves out only what was cut short.                                 *)
LEMMA FinalizingIsRight ==
  ASSUME BucketInv, NEW truncated \in BOOLEAN, FinalizeBucket(truncated)
  PROVE  BucketInv'
<1> DEFINE counted == Counted(Reading, truncated)
           replied == Replied(Reading, truncated)
           sampled == {i \in replied : RoundTrip(pings[i]) \in 0..TimeoutTicks}
<1>1. /\ loop = "bucket" /\ ~measured.done /\ (truncated \/ (next > PerInterval /\ tick >= wake))
      /\ UNCHANGED <<loop, tick, ahead, slewed, steps, lowest, highest, sendPlan, next, wake, pings,
                     sentAt, arrived, started>>
  BY DEF FinalizeBucket, Measuring, clocks, notes
<1>2. /\ measured'.done = TRUE
      /\ measured'.counted = counted
      /\ measured'.samples = [i \in sampled |-> RoundTrip(pings[i])]
      /\ measured'.clockStep = (ClockStepped(Reading) \/ \E i \in replied : RoundTrip(pings[i]) < 0)
  BY DEF FinalizeBucket, Measurement
<1>3. /\ \A i \in counted : /\ i \in 1..PerInterval /\ pings[i].sent
                            /\ ~Abandoned(pings[i], Reading, truncated)
      /\ \A i \in counted : ~pings[i].failed /\ pings[i].rx # NoTime <=> i \in replied
      /\ replied \subseteq counted
  BY DEF Counted, Replied
<1> HIDE DEF counted, replied
<1>4. ClocksTyped' /\ NotesTyped' /\ LoopTyped' /\ ClockIsKnown' /\ LoopIsOnTime'
  BY <1>1, <1>2 DEF BucketInv, ClocksTyped, NotesTyped, LoopTyped, ClockIsKnown, SteppedBy, AheadThen,
                    LoopIsOnTime, LookedUpInTime
<1>5. PingsAreNoted'
  BY <1>1, <1>2, NotesStay DEF BucketInv, ClocksTyped
<1>6. MeasuredAreSent'
  BY <1>1, <1>2, <1>3 DEF MeasuredAreSent
<1>7. Wander' = Wander /\ (LookedUpInTime' <=> LookedUpInTime)
  BY <1>1 DEF Wander, LookedUpInTime
<1>8. ASSUME NEW i \in DOMAIN measured'.samples
      PROVE  SampleIsItsTime(i)'
  <2>1. i \in sampled /\ measured'.samples[i] = RoundTrip(pings[i])
    BY <1>2, <1>8
  <2>2. i \in 1..PerInterval /\ pings[i].sent /\ ~pings[i].failed /\ pings[i].rx # NoTime
    BY <1>3, <2>1
  <2> QED BY <1>1, <1>7, <2>1, <2>2, RoundTripIsRight DEF SampleIsItsTime
<1>9. ASSUME ~measured'.clockStep, LookedUpInTime, NEW i \in counted \ sampled, ~pings[i].failed
      PROVE  WasLost(i)'
  <2>1. i \in 1..PerInterval /\ pings[i].sent /\ ~Abandoned(pings[i], Reading, truncated)
    BY <1>3, <1>9
  <2>2. /\ sentAt[i] \in Int /\ tick \in Int /\ lowest \in Int /\ highest \in Int
        /\ lowest <= highest /\ wake \in Int /\ IntervalTicks \in Nat /\ TimeoutTicks \in Nat
        /\ pings[i].txUser.mono = sentAt[i] /\ sentAt[i] # Nothing
        /\ Wander = highest - lowest
    BY <2>1, <1>9, NotesAre, BucketAssumption
    DEF NotesSend, BucketInv, ClocksTyped, LoopTyped, Wander
  <2>3. CASE pings[i].rx = NoTime
    <3>1. arrived[i] = Nothing
      BY <2>1, <2>3, <1>1, NotesAre DEF NotesReply
    <3>2. tick >= sentAt[i] + TimeoutTicks - (highest - lowest)
      <4>1. CASE truncated
        <5>1. ~(tick - sentAt[i] < TimeoutTicks)
          BY <4>1, <2>1, <2>2, <2>3, <1>9, BucketAssumption DEF Abandoned, Between, Reading
        <5> QED BY <5>1, <2>2
      <4>2. CASE ~truncated
        <5>1. tick >= wake /\ wake + highest >= IntervalTicks + TimeoutTicks
              /\ sentAt[i] + lowest <= IntervalTicks
          BY <4>2, <1>1, <1>9, <2>1, <2>2 DEF BucketInv, LoopIsOnTime, FinalizeAt
        <5> QED BY <5>1, <2>2
      <4> QED BY <4>1, <4>2
    <3> QED BY <3>1, <3>2, <1>1, <1>7, <2>2 DEF WasLost
  <2>4. CASE pings[i].rx # NoTime
    <3>1. i \in replied
      BY <1>3, <1>9, <2>4
    <3>2. RoundTrip(pings[i]) \notin 0..TimeoutTicks /\ ~(RoundTrip(pings[i]) < 0)
      BY <1>2, <1>9, <3>1
    <3>3. /\ arrived[i] \in Int /\ RoundTrip(pings[i]) \in Int
          /\ Magnitude(RoundTrip(pings[i]) - (arrived[i] - sentAt[i])) <= Wander
      BY <1>9, <2>1, <2>4, RoundTripIsRight
    <3>4. arrived[i] >= sentAt[i] + TimeoutTicks - Wander
      <4> DEFINE rtt == RoundTrip(pings[i])
      <4> HIDE DEF rtt
      <4>1. rtt \in Int /\ rtt \notin 0..TimeoutTicks /\ ~(rtt < 0)
            /\ Magnitude(rtt - (arrived[i] - sentAt[i])) <= Wander
        BY <3>2, <3>3 DEF rtt
      <4> QED BY <4>1, <3>3, <2>2 DEF Magnitude
    <3> QED BY <3>3, <3>4, <1>1, <1>7, BucketAssumption DEF WasLost
  <2> QED BY <2>3, <2>4
<1>10. ASSUME NEW i \in counted \ sampled, pings[i].failed
       PROVE  WasLost(i)'
  BY <1>10, <1>1 DEF WasLost
<1>11. ASSUME ~measured'.clockStep
       PROVE  /\ (steps = 0 => Wander <= Tolerance)'
              /\ (steps = 1 => Wander <= 2 * Tolerance)'
  <2>1. ~ClockStepped(Reading)
    BY <1>2, <1>11
  <2> QED BY <2>1, <1>1, <1>7, UnseenIsSmall
<1>12. MeasuresWhatHappened'
  <2>1. measured'.counted \ DOMAIN measured'.samples = counted \ sampled
    BY <1>2
  <2> QED BY <1>7, <1>8, <1>9, <1>10, <1>11, <2>1 DEF MeasuresWhatHappened
<1> QED BY <1>4, <1>5, <1>6, <1>12 DEF BucketInv

(* No step breaks the invariant.                                           *)
LEMMA BucketStep ==
  ASSUME BucketInv, [BucketNext]_bucketVars
  PROVE  BucketInv'
<1>1. CASE AddressKnown \/ NoAddressKnown
  BY <1>1, CollectorStarts, GapIsNothing
<1>2. CASE \E i \in 1..PerInterval :
             \/ SendPing(i) \/ SendFailsHere(i) \/ KernelStamps(i)
             \/ \E kernel \in BOOLEAN : ReplyComes(i, kernel)
  BY <1>2, SendingIsNoted, StampIsNoted, ReplyIsNoted
<1>3. CASE \E truncated \in BOOLEAN : FinalizeBucket(truncated)
  BY <1>3, FinalizingIsRight
<1>4. CASE \/ \E size \in StepSizes, way \in {-1, 1} : StepClock(way * size)
           \/ \E d \in {-1, 1} : SlewClock(d)
  BY <1>4, WallClockMoves
<1>5. CASE TickPasses
  BY <1>5, TimePasses
<1>6. CASE UNCHANGED bucketVars
  <2>1. UNCHANGED bucketVars
    BY <1>6
  <2> QED
    BY <2>1 DEF bucketVars, clocks, notes, BucketInv, ClocksTyped, NotesTyped, LoopTyped,
                ClockIsKnown, SteppedBy, AheadThen, LoopIsOnTime, LookedUpInTime, PingsAreNoted,
                NotesSend, NotesStamp, NotesReply, ReadAt, MeasuredAreSent, MeasuresWhatHappened,
                SampleIsItsTime, WasLost, Wander
<1> QED BY <1>1, <1>2, <1>3, <1>4, <1>5, <1>6 DEF BucketNext

(* A bucket's measurement is what happened to its pings, or says that the  *)
(* clock was stepped: for any number of pings and any lengths of interval, *)
(* timeout, burst and lookup, sent in either mode from any offset, on a    *)
(* clock that is slewed by as much as finalize tolerates and stepped at    *)
(* any moment by anything; except that pings a lookup held up past the     *)
(* interval may be counted as lost untimely.                               *)
THEOREM BucketsMeasureWhatHappened == BucketSpec => []MeasuresWhatHappened
<1>1. BucketInit => BucketInv
  BY BucketStarts
<1>2. BucketInv /\ [BucketNext]_bucketVars => BucketInv'
  BY BucketStep
<1>3. BucketInv => MeasuresWhatHappened
  BY DEF BucketInv
<1> QED BY <1>1, <1>2, <1>3, PTL DEF BucketSpec
=============================================================================
