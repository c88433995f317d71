------------------------------- MODULE Bucket -------------------------------
(***************************************************************************)
(* One bucket of one target (internal/probe/engine.go runTarget and        *)
(* scheduler.go): the address is looked up, the pings are sent, what       *)
(* becomes of each is noted, and a measurement is made of that, with a     *)
(* wall clock that is slewed and stepped meanwhile and a shutdown that may *)
(* cut the bucket short.                                                   *)
(*                                                                         *)
(* A time.Time with a monotonic reading is modelled by both readings, a    *)
(* kernel stamp by the wall clock's alone.  The schedule is in wall time   *)
(* from the bucket's start; a sleep is set by the wall clock of the moment *)
(* it begins and lasts by the monotonic one.  Timers and the receive loop  *)
(* run in the tick they are due; the lookup lasts as long as it may.       *)
(***************************************************************************)
EXTENDS Integers

CONSTANTS
  PerInterval,  \* pings_per_interval
  IntervalTicks, TimeoutTicks, BurstGap, \* interval_s, timeout_ms, burst_gap_ms
  LookupTicks,  \* how long a lookup may take
  StepSizes,    \* how far the wall clock is stepped, either way
  Tolerance,    \* what clockStepped allows: slew over a bucket
  Nothing,      \* no time
  MaxSteps      \* bound: steps of the clock

ASSUME BucketAssumption ==
  /\ {PerInterval, IntervalTicks, TimeoutTicks, BurstGap, LookupTicks, Tolerance,
      MaxSteps} \subseteq Nat
  /\ PerInterval > 0
  /\ StepSizes \subseteq Nat
  /\ Nothing \notin Int

VARIABLES
  loop,      \* the target's goroutine: in "lookup", the "bucket", or a "gap" for want of an address
  tick,      \* the monotonic clock
  ahead,     \* how far the wall clock is ahead of it
  sendPlan,  \* the wall times the pings are to be sent at
  next,      \* the ping to send next; past the last one, finalize is next
  wake,      \* the tick the sleep before it ends
  pings,     \* the collector's entry for each ping
  started,   \* the collector's wall and monotonic clock at its start
  measured,  \* the measurement, once finalized
  late,      \* replies that came after
  early,     \* steps of the clock before the collector's start
  slewed, steps, \* slew and steps after it
  (* ghosts *)
  lowest, highest, \* the range of ahead since the collector's start
  sentAt, arrived  \* when each ping left and its reply came, or Nothing

clocks == <<tick, ahead, early, slewed, steps, lowest, highest>>
notes == <<pings, sentAt, arrived>>
bucketVars == <<loop, clocks, sendPlan, next, wake, notes, started, measured, late>>

Reading == [mono |-> tick, wall |-> tick + ahead]
KernelStamp == [mono |-> Nothing, wall |-> tick + ahead]
NoTime == [mono |-> Nothing, wall |-> Nothing]

NewPing == [sent |-> FALSE, failed |-> FALSE, txUser |-> NoTime, txKern |-> NoTime, rx |-> NoTime]

-----------------------------------------------------------------------------
(* The schedule: phaseOffset and sendTimes.                                *)

Spacing(mode) == IF mode = "spread" THEN IntervalTicks \div PerInterval ELSE BurstGap

(* The room the train leaves in the interval; the hash of the target's id    *)
(* picks a place in it.                                                      *)
Window(mode) == IF mode = "spread" THEN Spacing(mode) ELSE IntervalTicks - PerInterval * BurstGap

SendTimes(mode, offset) == [i \in 1..PerInterval |-> offset + (i - 1) * Spacing(mode)]

(* What validateTiming asks of a burst; nothing is asked of the timeout.     *)
Timed(mode) == mode = "burst" => PerInterval * BurstGap < IntervalTicks

FinalizeAt == IntervalTicks + TimeoutTicks

(* sleepUntil: the wall time is how far off now?  Not at all, if it is past. *)
Alarm(at) == IF at > tick + ahead THEN at - ahead ELSE tick

(* The loop wakes for the bucket's first ping, 10 ms before it is due.       *)
BucketInit ==
  /\ loop = "lookup" /\ ahead = 0 /\ late = 0 /\ early = 0 /\ slewed = 0 /\ steps = 0
  /\ lowest = 0 /\ highest = 0
  /\ \E mode \in {"burst", "spread"} : \E offset \in {0} \cup 0..(Window(mode) - 1) :
       Timed(mode) /\ sendPlan = SendTimes(mode, offset)
  /\ tick = sendPlan[1] /\ next = 1 /\ wake = sendPlan[1]
  /\ pings = [i \in 1..PerInterval |-> NewPing]
  /\ started = NoTime
  /\ measured = [done |-> FALSE]
  /\ sentAt = [i \in 1..PerInterval |-> Nothing] /\ arrived = [i \in 1..PerInterval |-> Nothing]

-----------------------------------------------------------------------------
(* The loop: look the address up, then send each ping as it is due.        *)

(* The collector is made once there is an address and a socket. *)
AddressKnown ==
  /\ loop = "lookup"
  /\ loop' = "bucket"
  /\ started' = Reading
  /\ wake' = Alarm(sendPlan[1])
  /\ UNCHANGED <<clocks, sendPlan, next, notes, measured, late>>

(* No address or no socket, no measurement. *)
NoAddressKnown ==
  /\ loop = "lookup"
  /\ loop' = "gap"
  /\ UNCHANGED <<clocks, sendPlan, next, wake, notes, started, measured, late>>

Measuring == loop = "bucket" /\ ~measured.done

Due(i) == Measuring /\ next = i /\ tick >= wake

(* On to the next ping, or to the bucket's end. *)
SleepOn ==
  /\ next' = next + 1
  /\ wake' = Alarm(IF next < PerInterval THEN sendPlan[next + 1] ELSE FinalizeAt)

SendPing(i) ==
  /\ Due(i)
  /\ pings' = [pings EXCEPT ![i].sent = TRUE, ![i].txUser = Reading]
  /\ sentAt' = [sentAt EXCEPT ![i] = tick]
  /\ SleepOn
  /\ UNCHANGED <<loop, clocks, sendPlan, started, measured, late, arrived>>

(* markSendFailed: an attempt all the same. *)
SendFailsHere(i) ==
  /\ Due(i)
  /\ pings' = [pings EXCEPT ![i].sent = TRUE, ![i].failed = TRUE]
  /\ SleepOn
  /\ UNCHANGED <<loop, clocks, sendPlan, started, measured, late, sentAt, arrived>>

-----------------------------------------------------------------------------
(* What the pings meet.  After finalize the collector is only read.        *)

(* onTXKernel: the stamp is the ping's own. *)
KernelStamps(i) ==
  /\ Measuring /\ sentAt[i] = tick /\ pings[i].txKern = NoTime
  /\ pings' = [pings EXCEPT ![i].txKern = KernelStamp]
  /\ UNCHANGED <<loop, clocks, sendPlan, next, wake, started, measured, late, sentAt, arrived>>

(* onRX: the first reply counts; one that comes after the end is counted     *)
(* apart.                                                                    *)
ReplyComes(i, kernel) ==
  /\ sentAt[i] # Nothing /\ arrived[i] = Nothing
  /\ arrived' = [arrived EXCEPT ![i] = tick]
  /\ IF measured.done
     THEN late' = late + 1 /\ UNCHANGED pings
     ELSE /\ pings' = [pings EXCEPT ![i].rx = IF kernel THEN KernelStamp ELSE Reading]
          /\ UNCHANGED late
  /\ UNCHANGED <<loop, clocks, sendPlan, next, wake, started, measured, sentAt>>

-----------------------------------------------------------------------------
(* finalize.                                                               *)

(* Two times apart: by the monotonic clock if both have its reading. *)
Between(a, b) ==
  IF a.mono # Nothing /\ b.mono # Nothing THEN b.mono - a.mono ELSE b.wall - a.wall

Magnitude(d) == IF d < 0 THEN -d ELSE d

ByOneClock(now) == Magnitude(Between(started, now) - (now.mono - started.mono)) > Tolerance
ClockStepped(now) ==
  Magnitude((now.wall - started.wall) - (now.mono - started.mono)) > Tolerance

(* A ping still within its timeout when the bucket is cut short. *)
NoneAbandoned(p, now, truncated) == FALSE
Abandoned(p, now, truncated) ==
  /\ truncated /\ p.rx = NoTime /\ ~p.failed
  /\ Between(p.txUser, now) < TimeoutTicks

(* A kernel stamp that is not between the ping's send and its reply is not   *)
(* used.                                                                     *)
SentTime(p) ==
  IF p.txKern = NoTime \/ Between(p.txUser, p.txKern) < 0 \/ Between(p.txKern, p.rx) < 0
  THEN p.txUser ELSE p.txKern

RoundTrip(p) == Between(SentTime(p), p.rx)

Counted(now, truncated) ==
  {i \in 1..PerInterval : pings[i].sent /\ ~Abandoned(pings[i], now, truncated)}

Replied(now, truncated) ==
  {i \in Counted(now, truncated) : ~pings[i].failed /\ pings[i].rx # NoTime}

(* "samples" keeps, as a ghost, the ping each sample is of.  The flags that   *)
(* say why pings failed are left out.                                         *)
Measurement(now, truncated) ==
  LET replied == Replied(now, truncated)
      sampled == {i \in replied : RoundTrip(pings[i]) \in 0..TimeoutTicks}
  IN [done      |-> TRUE,
      counted   |-> Counted(now, truncated),
      samples   |-> [i \in sampled |-> RoundTrip(pings[i])],
      truncated |-> truncated,
      clockStep |-> ClockStepped(now) \/ \E i \in replied : RoundTrip(pings[i]) < 0]

(* The end of the last sleep, or, in any of them, the context's end. *)
FinalizeBucket(truncated) ==
  /\ Measuring
  /\ truncated \/ (next > PerInterval /\ tick >= wake)
  /\ measured' = Measurement(Reading, truncated)
  /\ UNCHANGED <<loop, clocks, sendPlan, next, wake, notes, started, late>>

-----------------------------------------------------------------------------
(* The clocks.  The range of the wall clock's lead begins with the bucket.  *)

Widened ==
  /\ lowest' = IF loop = "lookup" \/ ahead' < lowest THEN ahead' ELSE lowest
  /\ highest' = IF loop = "lookup" \/ ahead' > highest THEN ahead' ELSE highest

StepClock(s) ==
  /\ early + steps < MaxSteps
  /\ \/ loop = "lookup" /\ early' = early + 1 /\ UNCHANGED steps
     \/ Measuring /\ steps' = steps + 1 /\ UNCHANGED early
  /\ ahead' = ahead + s
  /\ Widened
  /\ UNCHANGED <<loop, tick, slewed, sendPlan, next, wake, notes, started, measured, late>>

(* One way, in one bucket. *)
SlewClock(d) ==
  /\ Measuring /\ d * slewed >= 0 /\ Magnitude(slewed + d) <= Tolerance /\ slewed' = slewed + d
  /\ ahead' = ahead + d
  /\ Widened
  /\ UNCHANGED <<loop, tick, early, steps, sendPlan, next, wake, notes, started, measured, late>>

TickPasses ==
  /\ ~measured.done
  /\ \/ loop = "lookup" /\ tick < sendPlan[1] + LookupTicks
     \/ loop = "bucket" /\ tick < wake
  /\ tick' = tick + 1
  /\ UNCHANGED <<loop, ahead, early, slewed, steps, lowest, highest, sendPlan, next, wake,
                 notes, started, measured, late>>

BucketNext ==
  \/ AddressKnown \/ NoAddressKnown
  \/ \E i \in 1..PerInterval :
       \/ SendPing(i) \/ SendFailsHere(i) \/ KernelStamps(i)
       \/ \E kernel \in BOOLEAN : ReplyComes(i, kernel)
  \/ \E truncated \in BOOLEAN : FinalizeBucket(truncated)
  \/ \E size \in StepSizes, way \in {-1, 1} : StepClock(way * size)
  \/ \E d \in {-1, 1} : SlewClock(d)
  \/ TickPasses

BucketSpec == BucketInit /\ [][BucketNext]_bucketVars

-----------------------------------------------------------------------------

(* How far the two clocks moved apart while the bucket was measured. *)
Wander == highest - lowest

SampleIsItsTime(i) ==
  Magnitude(measured.samples[i] - (arrived[i] - sentAt[i])) <= Wander

WasLost(i) ==
  \/ pings[i].failed
  \/ IF arrived[i] = Nothing THEN tick >= sentAt[i] + TimeoutTicks - Wander
                             ELSE arrived[i] >= sentAt[i] + TimeoutTicks - Wander

(* A measurement is what happened, or says that the clock was stepped.  A    *)
(* sample is the time its ping took, but for what the wall clock wandered,   *)
(* though stamps of the two clocks are mixed and a step can fall between any *)
(* of them.  Unless it says so, the clock wandered by no more than slew and  *)
(* a step that slew hides can account for (two steps may undo each other,    *)
(* and nobody sees them then), and a ping counted as lost failed to be sent, *)
(* or no reply came in the timeout, which it was given but for the wander,   *)
(* however the bucket ended: with one exception.  The end is fixed when the  *)
(* bucket is planned, so pings that a lookup held up past the interval are   *)
(* sent at once and counted as lost with less than the timeout, or nothing   *)
(* of it, given to them, and no flag says so.                                *)
LookedUpInTime == started.wall <= IntervalTicks

MeasuresWhatHappened ==
  measured.done =>
    /\ \A i \in DOMAIN measured.samples : SampleIsItsTime(i)
    /\ ~measured.clockStep =>
         /\ steps = 0 => Wander <= Tolerance
         /\ steps = 1 => Wander <= 2 * Tolerance
         /\ LookedUpInTime => \A i \in measured.counted \ DOMAIN measured.samples : WasLost(i)
=============================================================================
