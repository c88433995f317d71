--------------------------- MODULE ResolverCache ---------------------------
(***************************************************************************)
(* The cache of resolved addresses (internal/probe/dnscache/dnscache.go),  *)
(* for one host and family: callers wait for DNS only while there is no    *)
(* entry, and an expired one is served while a goroutine refreshes it.     *)
(***************************************************************************)
EXTENDS Naturals

CONSTANTS
  Callers,         \* probe goroutines that look the host up
  Addresses,       \* what the record can hold
  NoAddress,       \* ... when the name has no record of the family
  RecordTTLs,      \* TTLs the resolver gives, in ticks
  ShortestTTL, LongestTTL, \* minTTL and maxTTL
  QueryLasts,      \* the resolvers' timeouts together
  LastMoment,      \* bound: the last tick of the clock
  MaxRecordChanges, MaxLookups, MaxResolverFaults \* bounds

ASSUME ResolverCacheAssumption ==
  /\ NoAddress \notin Addresses /\ RecordTTLs \subseteq Nat /\ "refresh" \notin Callers
  /\ {ShortestTTL, LongestTTL, QueryLasts} \subseteq Nat
  /\ QueryLasts < ShortestTTL /\ ShortestTTL <= LongestTTL
  /\ {LastMoment, MaxRecordChanges, MaxLookups, MaxResolverFaults} \subseteq Nat

VARIABLES
  moment,    \* the clock
  record,    \* what the name resolves to now
  entry,     \* the cache entry: an address, its expiry and "refreshing"
  queries,   \* queries under way, by first lookups and by the refresh
  recordChanges, lookups, resolverFaults, \* bounds
  (* ghost *)
  demand     \* the lookup that found the entry expired: when, and if it was answered

resolverVars ==
  <<moment, record, entry, queries, recordChanges, lookups, resolverFaults, demand>>

NoEntry == [present |-> FALSE, addr |-> NoAddress, expires |-> 0, refreshing |-> FALSE]
NoDemand == [open |-> FALSE, at |-> 0]

Refresher == "refresh"

ResolverInit ==
  /\ moment = 0 /\ record \in Addresses
  /\ entry = NoEntry /\ queries = {} /\ demand = NoDemand
  /\ recordChanges = 0 /\ lookups = 0 /\ resolverFaults = 0

Underway(who) == \E q \in queries : q.who = who

Query(who) == [who |-> who, state |-> "pending", addr |-> NoAddress, ttl |-> 0,
               by |-> moment + QueryLasts]

LookedUp == lookups < MaxLookups /\ lookups' = lookups + 1

-----------------------------------------------------------------------------

(* Lookup with an entry: its address is returned whatever its age, and the   *)
(* first to find it expired starts the refresh.                              *)
ServeCached ==
  /\ entry.present /\ LookedUp
  /\ IF moment > entry.expires /\ ~entry.refreshing
     THEN /\ entry' = [entry EXCEPT !.refreshing = TRUE]
          /\ queries' = queries \cup {Query(Refresher)}
     ELSE UNCHANGED <<entry, queries>>
  /\ demand' = IF moment > entry.expires /\ ~demand.open
               THEN [open |-> TRUE, at |-> moment] ELSE demand
  /\ UNCHANGED <<moment, record, recordChanges, resolverFaults>>

(* ... and without one: the caller resolves for itself, as may others. *)
ResolveFirst(c) ==
  /\ ~entry.present /\ ~Underway(c) /\ LookedUp
  /\ queries' = queries \cup {Query(c)}
  /\ UNCHANGED <<moment, record, entry, recordChanges, resolverFaults, demand>>

Becomes(q, answered) == queries' = (queries \ {q}) \cup {answered}

Clamped(ttl) ==
  IF ttl < ShortestTTL THEN ShortestTTL ELSE IF ttl > LongestTTL THEN LongestTTL ELSE ttl

Failed(q) == [q EXCEPT !.state = "error"]

(* resolve: the first resolver to answer decides, with an address of the     *)
(* family or without one; if none answers that is an error.                  *)
ResolverAnswers(q, ttl) ==
  /\ q.state = "pending"
  /\ Becomes(q, IF record = NoAddress THEN Failed(q)
                ELSE [q EXCEPT !.state = "ok", !.addr = record, !.ttl = Clamped(ttl)])
  /\ UNCHANGED <<moment, record, entry, recordChanges, lookups, resolverFaults, demand>>

ResolversFail(q) ==
  /\ q.state = "pending"
  /\ resolverFaults < MaxResolverFaults /\ resolverFaults' = resolverFaults + 1
  /\ Becomes(q, Failed(q))
  /\ UNCHANGED <<moment, record, entry, recordChanges, lookups, demand>>

FreshEntry(q) ==
  [present |-> TRUE, addr |-> q.addr, expires |-> moment + q.ttl, refreshing |-> FALSE]

(* A first lookup stores its answer over what another stored meanwhile; its  *)
(* error is its own.                                                         *)
EndFirst(q) ==
  /\ q.who # Refresher /\ q.state # "pending"
  /\ queries' = queries \ {q}
  /\ entry' = IF q.state = "error" THEN entry ELSE FreshEntry(q)
  /\ UNCHANGED <<moment, record, recordChanges, lookups, resolverFaults, demand>>

(* A failed refresh keeps the address, to be tried again after minTTL. *)
StuckAfterFailure == [entry EXCEPT !.expires = moment + ShortestTTL]
AfterFailure == [entry EXCEPT !.expires = moment + ShortestTTL, !.refreshing = FALSE]

EndRefresh(q) ==
  /\ q.who = Refresher /\ q.state # "pending"
  /\ queries' = queries \ {q}
  /\ entry' = IF q.state = "error" THEN AfterFailure ELSE FreshEntry(q)
  /\ demand' = NoDemand
  /\ UNCHANGED <<moment, record, recordChanges, lookups, resolverFaults>>

RecordChanges(a) ==
  /\ recordChanges < MaxRecordChanges /\ a # record
  /\ record' = a /\ recordChanges' = recordChanges + 1
  /\ UNCHANGED <<moment, entry, queries, lookups, resolverFaults, demand>>

(* A query is over, and its goroutine has run, when its timeouts are. *)
MomentPasses ==
  /\ moment < LastMoment /\ \A q \in queries : moment < q.by
  /\ moment' = moment + 1
  /\ UNCHANGED <<record, entry, queries, recordChanges, lookups, resolverFaults, demand>>

ResolverNext ==
  \/ ServeCached
  \/ \E c \in Callers : ResolveFirst(c)
  \/ \E q \in queries :
       \/ ResolversFail(q) \/ EndFirst(q) \/ EndRefresh(q)
       \/ \E ttl \in RecordTTLs : ResolverAnswers(q, ttl)
  \/ \E a \in Addresses \cup {NoAddress} : RecordChanges(a)
  \/ MomentPasses

ResolverSpec == ResolverInit /\ [][ResolverNext]_resolverVars

-----------------------------------------------------------------------------

(* An expired address is served only while it is being replaced: once a      *)
(* lookup has found it expired, within the time of one query the name has    *)
(* been resolved again, or that has failed.  A refresh that failed does not  *)
(* stop the next one; and no first lookup is slow enough to end its refresh, *)
(* because a query lasts less than the shortest TTL.                         *)
ExpiredIsRefreshed ==
  demand.open => moment <= demand.at + QueryLasts

=============================================================================
