----------------------------- MODULE PingSocket -----------------------------
(***************************************************************************)
(* One ICMP socket with kernel transmit stamps, shared by the loops of     *)
(* several targets: which ping a reply, an ICMP error and a transmit stamp *)
(* is taken to belong to (socket.go, and the collector of scheduler.go).   *)
(*                                                                         *)
(* A reply is matched by sequence number and then by token; an ICMP error  *)
(* by sequence number alone; a transmit stamp by a counter that user space *)
(* and the kernel each keep for themselves.  A send allocates under the    *)
(* socket's lock and reaches the kernel after it, so the sends of two      *)
(* loops can reach the kernel in the other order.                          *)
(*                                                                         *)
(* Times are kept as the order of events: a stamp fits a ping when it was  *)
(* taken after the ping was marked sent and before its reply was read.     *)
(***************************************************************************)
EXTENDS Naturals, FiniteSets

CONSTANTS
  Pings,        \* the pings of one bucket of each target, numbered as they are
                \* sent; a ping is its token
  Collectors,   \* one per target and bucket
  ColOf,        \* the collector of each ping
  NoPing,
  SeqSpace,     \* sequence numbers there are (65536 in the code)
  MaxFails      \* bound: sends that fail, ICMP errors and repeated replies

ASSUME SocketAssumption ==
  /\ ColOf \in [Pings -> Collectors]
  /\ Pings \subseteq Nat /\ IsFiniteSet(Pings)
  /\ NoPing \notin Nat /\ NoPing \notin Pings \X Pings
  /\ SeqSpace \in Nat \ {0} /\ MaxFails \in Nat

VARIABLES
  (* the socket, under its lock *)
  seq, txCount,   \* the last sequence number and the next counter
  pending,        \* which ping holds a sequence number
  byCounter,      \* which ping a transmit stamp with that counter is given to
  desync,         \* kernel stamps are not to be trusted any more
  (* a send *)
  stage,             \* how far each ping's send has come
  seqOf, counterOf,
  (* the kernel and the network *)
  tskey,          \* the kernel's own count of packets queued
  stamps,         \* transmit stamps on the error queue
  replies,        \* replies under way; one may come twice, or never
  refusals,       \* ICMP errors on the error queue
  reader,         \* recvLoop: the ping it is about to record a reply for, and whose it is
  (* the collectors *)
  rx,             \* whose reply each ping recorded
  txKern,         \* the stamp each ping recorded
  done, forgotten,\* collectors finalized, and dropped from the socket
  closed,
  fails,
  (* ghosts *)
  answered,       \* pings whose own reply was dealt with before they were finalized
  errored,        \* pings an ICMP error took the entry of
  overlapped,     \* pings whose send overlapped another's
  drifted         \* a packet that was never sent is still counted

tables  == <<seq, txCount, pending, byCounter, desync>>
sends   == <<stage, seqOf, counterOf>>
kernel  == <<tskey, stamps, replies, refusals>>
receipts == <<reader, rx, txKern>>
ends    == <<done, forgotten, closed>>
ghosts  == <<answered, errored, overlapped, drifted>>
socketVars    == <<tables, sends, kernel, receipts, ends, fails, ghosts>>

Seqs     == 0..(SeqSpace - 1)
Counters == 0..Cardinality(Pings)

(* A stamp: its key, the ping it was really taken for, and the pings whose *)
(* time between being marked sent and being answered it falls in.          *)
Stamp == [key : Counters, of : Pings, fits : SUBSET Pings]

Progress == {"unsent", "unbuilt", "allocated", "marked", "sent", "failing", "latched", "failed"}

InSend(p) == stage[p] \in {"allocated", "marked", "failing", "latched"}

SocketTypeOK ==
  /\ seq \in Seqs /\ txCount \in Counters /\ tskey \in Counters
  /\ pending \in [Seqs -> Pings \cup {NoPing}]
  /\ byCounter \in [Counters -> Pings \cup {NoPing}]
  /\ stage \in [Pings -> Progress]
  /\ seqOf \in [Pings -> Seqs \cup {NoPing}] /\ counterOf \in [Pings -> Counters \cup {NoPing}]
  /\ stamps \subseteq Stamp
  /\ replies \subseteq Pings /\ refusals \subseteq Pings
  /\ reader \in (Pings \X Pings) \cup {NoPing}
  /\ rx \in [Pings -> Pings \cup {NoPing}]
  /\ txKern \in [Pings -> Stamp \cup {NoPing}]
  /\ {answered, errored, overlapped} \subseteq SUBSET Pings
  /\ done \subseteq Collectors /\ forgotten \subseteq done
  /\ {desync, closed, drifted} \subseteq BOOLEAN
  /\ fails \in 0..MaxFails

SocketInit ==
  /\ seq = 0 /\ txCount = 0 /\ tskey = 0 /\ desync = FALSE
  /\ pending = [s \in Seqs |-> NoPing] /\ byCounter = [n \in Counters |-> NoPing]
  /\ stage = [p \in Pings |-> "unsent"]
  /\ seqOf = [p \in Pings |-> NoPing] /\ counterOf = [p \in Pings |-> NoPing]
  /\ stamps = {} /\ replies = {} /\ refusals = {}
  /\ reader = NoPing
  /\ rx = [p \in Pings |-> NoPing] /\ txKern = [p \in Pings |-> NoPing]
  /\ done = {} /\ forgotten = {} /\ closed = FALSE /\ fails = 0
  /\ answered = {} /\ errored = {} /\ overlapped = {} /\ drifted = FALSE

-----------------------------------------------------------------------------
(* A send.  The loop of a target sends one ping at a time.                 *)

(* The first free number after the last one, or, with all of them taken,   *)
(* the last one again.                                                     *)
NextSeq ==
  LET free == {d \in 1..SeqSpace : pending[(seq + d) % SeqSpace] = NoPing}
  IN  IF free = {} THEN seq ELSE (seq + CHOOSE d \in free : \A e \in free : d <= e) % SeqSpace

(* A counter is kept for the stamp to come, unless stamps are no longer     *)
(* trusted; the variant with a fault trusts them for ever.                  *)
Awaiting(p) == [byCounter EXCEPT ![txCount] = p]

AwaitingStamp(p) == IF desync THEN byCounter ELSE [byCounter EXCEPT ![txCount] = p]

Allocate(p) ==
  /\ stage[p] = "unsent" /\ ColOf[p] \notin done
  /\ \A q \in Pings : ColOf[q] = ColOf[p] /\ q < p => stage[q] \in {"sent", "failed", "unbuilt"}
  /\ seq' = NextSeq
  /\ pending' = [pending EXCEPT ![seq'] = p]
  /\ byCounter' = AwaitingStamp(p)
  /\ txCount' = txCount + 1
  /\ stage' = [stage EXCEPT ![p] = "allocated"]
  /\ seqOf' = [seqOf EXCEPT ![p] = seq'] /\ counterOf' = [counterOf EXCEPT ![p] = txCount]
  /\ LET during == {q \in Pings : InSend(q)}
     IN  overlapped' = IF during = {} THEN overlapped ELSE overlapped \cup during \cup {p}
  /\ UNCHANGED <<desync, kernel, receipts, ends, fails, answered, errored,
                 drifted>>

(* What forgetSeq does to the tables: whichever ping holds p's sequence     *)
(* number loses it, and its counter.                                        *)
Holder(p) == pending[seqOf[p]]

ForgetSeq(p) ==
  /\ pending' = [pending EXCEPT ![seqOf[p]] = NoPing]
  /\ byCounter' = IF Holder(p) = NoPing THEN byCounter
                  ELSE [byCounter EXCEPT ![counterOf[Holder(p)]] = NoPing]

(* The counter is wound back if no other send took one since. *)
WoundBack(p) ==
  IF Holder(p) # NoPing /\ counterOf[Holder(p)] = txCount - 1 THEN txCount - 1 ELSE txCount

(* The packet cannot be built: the kernel has seen nothing of it. *)
MarshalFails(p) ==
  /\ stage[p] = "allocated" /\ fails < MaxFails
  /\ fails' = fails + 1
  /\ ForgetSeq(p)
  /\ txCount' = WoundBack(p)
  /\ stage' = [stage EXCEPT ![p] = "unbuilt"]
  /\ drifted' = (drifted \/ Holder(p) # p \/ counterOf[p] # txCount - 1)
  /\ UNCHANGED <<seq, desync, seqOf, counterOf, kernel, receipts, ends,
                 answered, errored, overlapped>>

MarkSent(p) ==
  /\ stage[p] = "allocated"
  /\ stage' = [stage EXCEPT ![p] = "marked"]
  /\ UNCHANGED <<tables, seqOf, counterOf, kernel, receipts, ends, fails,
                 ghosts>>

(* Marked sent, and no reply read that will be recorded. *)
Waiting(p) == stage[p] \in {"marked", "sent"} /\ rx[p] = NoPing /\ (reader # NoPing => reader[1] # p)

(* The kernel queues the packet: it takes its next key and stamps it. *)
Transmit(p) ==
  /\ stage[p] = "marked"
  /\ stage' = [stage EXCEPT ![p] = "sent"]
  /\ stamps' = stamps \cup {[key |-> tskey, of |-> p, fits |-> {q \in Pings : Waiting(q)}]}
  /\ tskey' = tskey + 1
  /\ \/ replies' = replies \cup {p} /\ UNCHANGED <<refusals, fails>>
     \/ /\ fails < MaxFails /\ fails' = fails + 1
        /\ refusals' = refusals \cup {p} /\ UNCHANGED replies
  /\ UNCHANGED <<tables, seqOf, counterOf, receipts, ends, ghosts>>

(* The kernel refuses it, having taken a key for it or not. *)
SendFails(p) ==
  /\ stage[p] = "marked" /\ fails < MaxFails
  /\ fails' = fails + 1
  /\ tskey' \in {tskey, tskey + 1}
  /\ stage' = [stage EXCEPT ![p] = "failing"]
  /\ UNCHANGED <<tables, seqOf, counterOf, stamps, replies, refusals, receipts,
                 ends, ghosts>>

Latch(p) ==
  /\ stage[p] = "failing"
  /\ desync' = TRUE
  /\ stage' = [stage EXCEPT ![p] = "latched"]
  /\ UNCHANGED <<seq, txCount, pending, byCounter, seqOf, counterOf, kernel,
                 receipts, ends, fails, ghosts>>

(* forgetSeq, then markSendFailed: the ping is out of the tables and counts *)
(* as lost.                                                                 *)
SendFailed(p) ==
  /\ stage[p] = "latched"
  /\ ForgetSeq(p)
  /\ stage' = [stage EXCEPT ![p] = "failed"]
  /\ UNCHANGED <<seq, txCount, desync, seqOf, counterOf, kernel, receipts, ends,
                 fails, ghosts>>

-----------------------------------------------------------------------------
(* Receiving.                                                              *)

(* The reply of another ping with the same sequence number is not this      *)
(* one's; the variant with a fault does not look.                           *)
AnyToken(p, q) == TRUE

SameToken(p, q) == p = q

(* recvLoop reads the reply to q: its sequence number's holder loses it,    *)
(* and only then is the token compared.  A copy may be still to come.       *)
ReadReply(q) ==
  /\ ~closed /\ reader = NoPing
  /\ q \in replies
  /\ \/ replies' = replies \ {q} /\ UNCHANGED fails
     \/ /\ fails < MaxFails /\ fails' = fails + 1
        /\ UNCHANGED replies
  /\ pending' = [pending EXCEPT ![seqOf[q]] = NoPing]
  /\ reader' = IF Holder(q) # NoPing /\ SameToken(Holder(q), q) THEN <<Holder(q), q>> ELSE NoPing
  /\ answered' = IF reader' = NoPing /\ ColOf[q] \notin done THEN answered \cup {q} ELSE answered
  /\ UNCHANGED <<seq, txCount, byCounter, desync, sends, tskey, stamps,
                 refusals, rx, txKern, ends, errored, overlapped, drifted>>

(* The reply is recorded, unless the collector is done or has one already. *)
OnRX ==
  /\ reader # NoPing
  /\ LET p == reader[1]
         open == ColOf[p] \notin done
     IN  /\ rx' = IF open /\ rx[p] = NoPing THEN [rx EXCEPT ![p] = reader[2]] ELSE rx
         /\ answered' = IF open THEN answered \cup {reader[2]} ELSE answered
  /\ reader' = NoPing
  /\ UNCHANGED <<tables, sends, kernel, txKern, ends, fails, errored,
                 overlapped, drifted>>

(* errQueueLoop reads a stamp: the ping its counter belongs to records it. *)
ReadStamp(s) ==
  /\ ~closed
  /\ s \in stamps
  /\ stamps' = stamps \ {s}
  /\ LET p == byCounter[s.key]
     IN  txKern' = IF p # NoPing /\ ColOf[p] \notin done THEN [txKern EXCEPT ![p] = s] ELSE txKern
  /\ byCounter' = [byCounter EXCEPT ![s.key] = NoPing]
  /\ UNCHANGED <<seq, txCount, pending, desync, sends, tskey, replies, refusals,
                 reader, rx, ends, fails, ghosts>>

(* errQueueLoop reads an ICMP error: the ping is not waited for any more,   *)
(* and its bucket is told why.                                              *)
ReadRefusal(q) ==
  /\ ~closed
  /\ q \in refusals
  /\ refusals' = refusals \ {q}
  /\ ForgetSeq(q)
  /\ errored' = errored \cup ({Holder(q)} \ {NoPing})
  /\ UNCHANGED <<seq, txCount, desync, sends, tskey, stamps, replies, receipts,
                 ends, fails, answered, overlapped, drifted>>

-----------------------------------------------------------------------------
(* The end of a bucket, and of the socket.                                 *)

(* The loop has sent its pings, or was stopped before the rest. *)
EndBucket(c) ==
  /\ c \notin done
  /\ \A p \in Pings : ColOf[p] = c => ~InSend(p)
  /\ done' = done \cup {c}
  /\ UNCHANGED <<tables, sends, kernel, receipts, forgotten, closed, fails,
                 ghosts>>

(* Whatever is still held for the collector is dropped.  Variants with a    *)
(* fault: everything is dropped; a counter whose reply came before its      *)
(* stamp is not.                                                            *)
DropAll(table, c) == [x \in DOMAIN table |-> NoPing]

Drop(table, c) ==
  [x \in DOMAIN table |-> IF table[x] # NoPing /\ ColOf[table[x]] = c THEN NoPing ELSE table[x]]

CountersOfPending(c) ==
  [n \in Counters |-> IF \E s \in Seqs : pending[s] # NoPing /\ ColOf[pending[s]] = c
                                         /\ counterOf[pending[s]] = n
                      THEN NoPing ELSE byCounter[n]]

DropCounters(c) == Drop(byCounter, c)

Forget(c) ==
  /\ c \in done \ forgotten
  /\ forgotten' = forgotten \cup {c}
  /\ pending' = Drop(pending, c)
  /\ byCounter' = DropCounters(c)
  /\ UNCHANGED <<seq, txCount, desync, sends, kernel, receipts, done, closed,
                 fails, ghosts>>

(* The engine closes the socket when every bucket has ended. *)
Close ==
  /\ ~closed /\ forgotten = Collectors
  /\ closed' = TRUE
  /\ UNCHANGED <<tables, sends, kernel, receipts, done, forgotten, fails,
                 ghosts>>

-----------------------------------------------------------------------------
SocketNext ==
  \/ \E p \in Pings :
       \/ Allocate(p) \/ MarshalFails(p) \/ MarkSent(p) \/ Transmit(p)
       \/ SendFails(p) \/ Latch(p) \/ SendFailed(p)
       \/ ReadReply(p) \/ ReadRefusal(p)
  \/ \E s \in stamps : ReadStamp(s)
  \/ OnRX
  \/ \E c \in Collectors : EndBucket(c) \/ Forget(c)
  \/ Close

SocketSpec == SocketInit /\ [][SocketNext]_socketVars

-----------------------------------------------------------------------------
(* A reply is recorded for the ping it answers, whatever late and repeated  *)
(* replies carry its sequence number (socket.go handlePacket).              *)
RepliesAreOwn == \A p \in Pings : rx[p] \in {p, NoPing}

(* Once a bucket is over the socket keeps nothing of it, answered or not:   *)
(* nothing of it can be matched again, and nothing accumulates.             *)
ForgottenLeavesNothing ==
  \A p \in Pings : ColOf[p] \in forgotten =>
    /\ \A s \in Seqs : pending[s] # p
    /\ \A n \in Counters : byCounter[n] # p

(* Loss is never the socket's doing: a reply dealt with before its bucket   *)
(* ended was recorded, unless an ICMP error came first or another ping has  *)
(* had the same sequence number.                                            *)
AnsweredIsReceived ==
  \A p \in answered :
    \/ rx[p] # NoPing
    \/ p \in errored
    \/ \E q \in Pings \ {p} : seqOf[q] = seqOf[p]

(* A reply that comes in time is recorded, and for the ping it answers.     *)
ReplyFindsItsPing == RepliesAreOwn /\ AnsweredIsReceived

(* The stamp finalize takes for a ping: the recorded one, if it fits. *)
KernelTX(p) == IF txKern[p] # NoPing /\ p \in txKern[p].fits THEN txKern[p].of ELSE NoPing

Sampled(p) == stage[p] = "sent" /\ rx[p] # NoPing

StampIsOwn(p) == Sampled(p) => KernelTX(p) \in {p, NoPing}

(* A ping whose send no other overlapped is timed by its own packet: a send *)
(* that failed, with its key taken or not, shifts nobody's stamps.          *)
AloneStampsAreOwn == ~drifted => \A p \in Pings \ overlapped : StampIsOwn(p)

(* No ping is timed by another's packet ("Checking the stamp against the    *)
(* bounds this ping already knows catches the drift whatever caused it",    *)
(* scheduler.go:363-364).                                                   *)
StampsAreOwn == \A p \in Pings : StampIsOwn(p)
=============================================================================
