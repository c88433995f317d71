-------------------------- MODULE PingSocketProofs --------------------------
(***************************************************************************)
(* What one shared ICMP socket promises its targets, for any number of     *)
(* targets, pings and sequence numbers: replies go to the pings they       *)
(* answer, nothing is kept of a bucket that is over, and no reply is lost  *)
(* in the socket.                                                          *)
(***************************************************************************)
EXTENDS PingSocket, WellFoundedInduction, FiniteSetTheorems, TLAPS

(* The types the arguments below rest on; how far the counters run is left *)
(* to the model checker.                                                   *)
Typed ==
  /\ seq \in Seqs
  /\ pending \in [Seqs -> Pings \cup {NoPing}]
  /\ byCounter \in [Counters -> Pings \cup {NoPing}]
  /\ stage \in [Pings -> Progress]
  /\ seqOf \in [Pings -> Seqs \cup {NoPing}]
  /\ replies \in SUBSET Pings
  /\ refusals \in SUBSET Pings
  /\ reader \in (Pings \X Pings) \cup {NoPing}
  /\ rx \in [Pings -> Pings \cup {NoPing}]
  /\ done \in SUBSET Collectors
  /\ forgotten \in SUBSET done
  /\ answered \in SUBSET Pings

(* A reply about to be recorded is the ping's own. *)
ReaderIsOwn == reader # NoPing => reader[1] = reader[2]

(* Only what was sent is answered, and only what has been allocated has a  *)
(* sequence number.                                                        *)
RepliesWereSent ==
  /\ \A p \in replies \cup answered : stage[p] = "sent"
  /\ reader # NoPing => stage[reader[2]] = "sent"

NumbersAreAllocated == \A p \in Pings : stage[p] = "unsent" <=> seqOf[p] = NoPing

Outstanding(p) ==
  /\ stage[p] \in {"allocated", "marked", "failing", "latched", "sent"}
  /\ ColOf[p] \notin done
  /\ p \notin errored
  /\ rx[p] = NoPing
  /\ reader # NoPing => reader[1] # p
  /\ \A q \in Pings \ {p} : seqOf[q] # seqOf[p]

(* A ping that is neither answered nor refused, and whose number no other  *)
(* has had, holds its sequence number until its bucket is over.            *)
OutstandingHolds == \A p \in Pings : Outstanding(p) => pending[seqOf[p]] = p

IInv ==
  /\ Typed
  /\ ReaderIsOwn
  /\ RepliesAreOwn
  /\ ForgottenLeavesNothing
  /\ RepliesWereSent
  /\ NumbersAreAllocated
  /\ OutstandingHolds
  /\ AnsweredIsReceived

-----------------------------------------------------------------------------
(* A set of naturals that is not empty has a least element. *)
LEMMA LeastIsIn ==
  ASSUME NEW S \in SUBSET Nat, S # {}
  PROVE  (CHOOSE d \in S : \A e \in S : d <= e) \in S
<1>1. IsWellFoundedOn(OpToRel(<, Nat), Nat)
  BY NatLessThanWellFounded
<1>2. PICK d \in S : \A e \in S : ~(<<e, d>> \in OpToRel(<, Nat))
  BY <1>1, WFMin, Zenon
<1>3. \A e \in S : ~(e < d)
  BY <1>2, Zenon DEF OpToRel
<1>4. \A e \in S : d <= e
  BY <1>3
<1> QED
  BY <1>4

(* The next sequence number is one, with every number taken as well. *)
LEMMA NextSeqIsSeq ==
  ASSUME Typed
  PROVE  NextSeq \in Seqs
<1> USE SocketAssumption DEF Typed, Seqs
<1> DEFINE free == {d \in 1..SeqSpace : pending[(seq + d) % SeqSpace] = NoPing}
<1> DEFINE least == CHOOSE d \in free : \A e \in free : d <= e
<1>1. CASE free = {}
  BY <1>1 DEF NextSeq
<1>2. CASE free # {}
  <2>1. least \in free
    <3>1. free \in SUBSET Nat
      OBVIOUS
    <3> HIDE DEF free
    <3> QED
      BY <1>2, <3>1, LeastIsIn
  <2>2. least \in Nat
    BY <2>1
  <2>3. NextSeq = (seq + least) % SeqSpace
    BY <1>2 DEF NextSeq
  <2> HIDE DEF least
  <2>4. seq + least \in Int /\ SeqSpace \in Nat \ {0}
    BY <2>2
  <2> QED
    BY <2>3, <2>4
<1> QED
  BY <1>1, <1>2

(* Every variable keeps its type. *)
LEMMA TypedIsKept ==
  ASSUME Typed, [SocketNext]_socketVars
  PROVE  Typed'
<1> USE SocketAssumption DEF Typed, tables, sends, kernel, receipts, ends, ghosts
<1>1. ASSUME NEW p \in Pings, Allocate(p) PROVE Typed'
  <2>1. seq' \in Seqs
    BY <1>1, NextSeqIsSeq DEF Allocate
  <2>2. pending' \in [Seqs -> Pings \cup {NoPing}]
    BY <1>1 DEF Allocate
  <2>3. byCounter' \in [Counters -> Pings \cup {NoPing}]
    BY <1>1 DEF Allocate, AwaitingStamp
  <2>4. stage' \in [Pings -> Progress]
    BY <1>1 DEF Allocate, Progress
  <2>5. seqOf' \in [Pings -> Seqs \cup {NoPing}]
    BY <1>1, <2>1 DEF Allocate
  <2> QED
    BY <1>1, <2>1, <2>2, <2>3, <2>4, <2>5 DEF Allocate
<1>2. ASSUME NEW p \in Pings, MarshalFails(p) PROVE Typed'
  BY <1>2 DEF MarshalFails, ForgetSeq, Progress
<1>3. ASSUME NEW p \in Pings, MarkSent(p) PROVE Typed'
  BY <1>3 DEF MarkSent, Progress
<1>4. ASSUME NEW p \in Pings, Transmit(p) PROVE Typed'
  BY <1>4 DEF Transmit, Progress
<1>5. ASSUME NEW p \in Pings, SendFails(p) PROVE Typed'
  BY <1>5 DEF SendFails, Progress
<1>6. ASSUME NEW p \in Pings, Latch(p) PROVE Typed'
  BY <1>6 DEF Latch, Progress
<1>7. ASSUME NEW p \in Pings, SendFailed(p) PROVE Typed'
  BY <1>7 DEF SendFailed, ForgetSeq, Progress
<1>8. ASSUME NEW p \in Pings, ReadReply(p) PROVE Typed'
  <2>1. pending' \in [Seqs -> Pings \cup {NoPing}]
    BY <1>8 DEF ReadReply
  <2>2. replies' \in SUBSET Pings /\ answered' \in SUBSET Pings
    BY <1>8 DEF ReadReply
  <2>3. reader' \in {<<p, p>>, NoPing}
    BY <1>8 DEF ReadReply, SameToken
  <2> QED
    BY <1>8, <2>1, <2>2, <2>3 DEF ReadReply
<1>9. ASSUME NEW p \in Pings, ReadRefusal(p) PROVE Typed'
  <2>1. pending' \in [Seqs -> Pings \cup {NoPing}]
    BY <1>9 DEF ReadRefusal, ForgetSeq
  <2>2. byCounter' \in [Counters -> Pings \cup {NoPing}]
    BY <1>9 DEF ReadRefusal, ForgetSeq
  <2> QED
    BY <1>9, <2>1, <2>2 DEF ReadRefusal
<1>10. ASSUME NEW s \in stamps, ReadStamp(s) PROVE Typed'
  BY <1>10 DEF ReadStamp
<1>11. ASSUME OnRX PROVE Typed'
  BY <1>11 DEF OnRX
<1>12. ASSUME NEW c \in Collectors, EndBucket(c) PROVE Typed'
  BY <1>12 DEF EndBucket
<1>13. ASSUME NEW c \in Collectors, Forget(c) PROVE Typed'
  BY <1>13 DEF Forget, Drop, DropCounters
<1>14. ASSUME Close PROVE Typed'
  BY <1>14 DEF Close
<1>15. ASSUME UNCHANGED socketVars PROVE Typed'
  BY <1>15 DEF socketVars
<1> QED
  BY <1>1, <1>2, <1>3, <1>4, <1>5, <1>6, <1>7, <1>8, <1>9, <1>10, <1>11, <1>12, <1>13,
     <1>14, <1>15 DEF SocketNext

(* What is read is recorded for the ping it answers, and was sent. *)
LEMMA ReaderIsKept ==
  ASSUME Typed, ReaderIsOwn, RepliesAreOwn, RepliesWereSent, NumbersAreAllocated, [SocketNext]_socketVars
  PROVE  (ReaderIsOwn /\ RepliesAreOwn /\ RepliesWereSent /\ NumbersAreAllocated)'
<1> USE SocketAssumption DEF Typed, ReaderIsOwn, RepliesAreOwn, RepliesWereSent,
        NumbersAreAllocated, tables, sends, kernel, receipts, ends, ghosts
<1> DEFINE Goal == ReaderIsOwn /\ RepliesAreOwn /\ RepliesWereSent /\ NumbersAreAllocated
<1>1. ASSUME NEW p \in Pings, Allocate(p) PROVE Goal'
  <2>1. seq' \in Seqs /\ NoPing \notin Seqs
    BY <1>1, NextSeqIsSeq DEF Allocate, Seqs
  <2>2. NumbersAreAllocated'
    BY <1>1, <2>1 DEF Allocate
  <2>3. RepliesWereSent'
    BY <1>1 DEF Allocate
  <2> QED
    BY <1>1, <2>2, <2>3 DEF Allocate
<1>2. ASSUME NEW p \in Pings, MarshalFails(p) PROVE Goal'
  BY <1>2 DEF MarshalFails
<1>3. ASSUME NEW p \in Pings, MarkSent(p) PROVE Goal'
  BY <1>3 DEF MarkSent
<1>4. ASSUME NEW p \in Pings, Transmit(p) PROVE Goal'
  <2>1. NumbersAreAllocated'
    BY <1>4 DEF Transmit
  <2>2. replies' \in SUBSET (replies \cup {p})
    BY <1>4 DEF Transmit
  <2>3. stage' = [stage EXCEPT ![p] = "sent"] /\ answered' = answered /\ reader' = reader
    BY <1>4 DEF Transmit
  <2>4. RepliesWereSent'
    BY <2>2, <2>3
  <2> QED
    BY <1>4, <2>1, <2>4 DEF Transmit
<1>5. ASSUME NEW p \in Pings, SendFails(p) PROVE Goal'
  BY <1>5 DEF SendFails
<1>6. ASSUME NEW p \in Pings, Latch(p) PROVE Goal'
  BY <1>6 DEF Latch
<1>7. ASSUME NEW p \in Pings, SendFailed(p) PROVE Goal'
  BY <1>7 DEF SendFailed
<1>8. ASSUME NEW p \in Pings, ReadReply(p) PROVE Goal'
  BY <1>8 DEF ReadReply, Holder, SameToken
<1>9. ASSUME NEW p \in Pings, ReadRefusal(p) PROVE Goal'
  BY <1>9 DEF ReadRefusal
<1>10. ASSUME NEW s \in stamps, ReadStamp(s) PROVE Goal'
  BY <1>10 DEF ReadStamp
<1>11. ASSUME OnRX PROVE Goal'
  BY <1>11 DEF OnRX
<1>12. ASSUME NEW c \in Collectors, EndBucket(c) PROVE Goal'
  BY <1>12 DEF EndBucket
<1>13. ASSUME NEW c \in Collectors, Forget(c) PROVE Goal'
  BY <1>13 DEF Forget
<1>14. ASSUME Close PROVE Goal'
  BY <1>14 DEF Close
<1>15. ASSUME UNCHANGED socketVars PROVE Goal'
  BY <1>15 DEF socketVars
<1> QED
  BY <1>1, <1>2, <1>3, <1>4, <1>5, <1>6, <1>7, <1>8, <1>9, <1>10, <1>11, <1>12, <1>13,
     <1>14, <1>15 DEF SocketNext

(* Nothing is put in the tables for a bucket that is over. *)
LEMMA ForgottenIsKept ==
  ASSUME Typed, ForgottenLeavesNothing, [SocketNext]_socketVars
  PROVE  ForgottenLeavesNothing'
<1> USE SocketAssumption DEF Typed, ForgottenLeavesNothing, tables, sends, kernel, receipts,
        ends, ghosts
<1>1. ASSUME NEW p \in Pings, Allocate(p) PROVE ForgottenLeavesNothing'
  BY <1>1, NextSeqIsSeq DEF Allocate, AwaitingStamp
<1>2. ASSUME NEW p \in Pings, MarshalFails(p) PROVE ForgottenLeavesNothing'
  BY <1>2 DEF MarshalFails, ForgetSeq
<1>3. ASSUME NEW p \in Pings, MarkSent(p) PROVE ForgottenLeavesNothing'
  BY <1>3 DEF MarkSent
<1>4. ASSUME NEW p \in Pings, Transmit(p) PROVE ForgottenLeavesNothing'
  BY <1>4 DEF Transmit
<1>5. ASSUME NEW p \in Pings, SendFails(p) PROVE ForgottenLeavesNothing'
  BY <1>5 DEF SendFails
<1>6. ASSUME NEW p \in Pings, Latch(p) PROVE ForgottenLeavesNothing'
  BY <1>6 DEF Latch
<1>7. ASSUME NEW p \in Pings, SendFailed(p) PROVE ForgottenLeavesNothing'
  BY <1>7 DEF SendFailed, ForgetSeq
<1>8. ASSUME NEW p \in Pings, ReadReply(p) PROVE ForgottenLeavesNothing'
  BY <1>8 DEF ReadReply
<1>9. ASSUME NEW p \in Pings, ReadRefusal(p) PROVE ForgottenLeavesNothing'
  BY <1>9 DEF ReadRefusal, ForgetSeq
<1>10. ASSUME NEW s \in stamps, ReadStamp(s) PROVE ForgottenLeavesNothing'
  BY <1>10 DEF ReadStamp
<1>11. ASSUME OnRX PROVE ForgottenLeavesNothing'
  BY <1>11 DEF OnRX
<1>12. ASSUME NEW c \in Collectors, EndBucket(c) PROVE ForgottenLeavesNothing'
  BY <1>12 DEF EndBucket
<1>13. ASSUME NEW c \in Collectors, Forget(c) PROVE ForgottenLeavesNothing'
  <2>1. /\ forgotten' = forgotten \cup {c}
        /\ \A s \in Seqs : pending'[s] \in {pending[s], NoPing}
        /\ \A s \in Seqs : pending'[s] # NoPing => ColOf[pending'[s]] # c
    BY <1>13 DEF Forget, Drop
  <2>2. /\ \A n \in Counters : byCounter'[n] \in {byCounter[n], NoPing}
        /\ \A n \in Counters : byCounter'[n] # NoPing => ColOf[byCounter'[n]] # c
    BY <1>13 DEF Forget, Drop, DropCounters
  <2>3. \A p \in Pings : p # NoPing
    OBVIOUS
  <2> QED
    BY <2>1, <2>2, <2>3
<1>14. ASSUME Close PROVE ForgottenLeavesNothing'
  BY <1>14 DEF Close
<1>15. ASSUME UNCHANGED socketVars PROVE ForgottenLeavesNothing'
  BY <1>15 DEF socketVars
<1> QED
  BY <1>1, <1>2, <1>3, <1>4, <1>5, <1>6, <1>7, <1>8, <1>9, <1>10, <1>11, <1>12, <1>13,
     <1>14, <1>15 DEF SocketNext

(* A ping loses its number only by its answer, an error, its bucket's end, or *)
(* to another ping that has had the same number.                              *)
LEMMA OutstandingIsKept ==
  ASSUME Typed, NumbersAreAllocated, RepliesWereSent, OutstandingHolds, [SocketNext]_socketVars
  PROVE  OutstandingHolds'
<1> USE SocketAssumption DEF Typed, NumbersAreAllocated, RepliesWereSent, OutstandingHolds,
        Outstanding, tables, sends, kernel, receipts, ends, ghosts
<1>1. ASSUME NEW p \in Pings, Allocate(p) PROVE OutstandingHolds'
  <2> SUFFICES ASSUME NEW q \in Pings, Outstanding(q)'
               PROVE  pending'[seqOf'[q]] = q
    OBVIOUS
  <2>1. /\ seq' \in Seqs /\ seqOf' = [seqOf EXCEPT ![p] = seq']
        /\ pending' = [pending EXCEPT ![seq'] = p]
    BY <1>1, NextSeqIsSeq DEF Allocate
  <2>2. CASE q = p
    BY <2>1, <2>2
  <2>3. CASE q # p
    <3>1. seqOf'[q] = seqOf[q] /\ seqOf[q] # seq'
      BY <2>1, <2>3
    <3>2. Outstanding(q)
      BY <1>1, <2>1, <2>3 DEF Allocate
    <3> QED
      BY <2>1, <3>1, <3>2
  <2> QED
    BY <2>2, <2>3
<1>2. ASSUME NEW p \in Pings, MarshalFails(p) PROVE OutstandingHolds'
  BY <1>2 DEF MarshalFails, ForgetSeq
<1>3. ASSUME NEW p \in Pings, MarkSent(p) PROVE OutstandingHolds'
  BY <1>3 DEF MarkSent
<1>4. ASSUME NEW p \in Pings, Transmit(p) PROVE OutstandingHolds'
  BY <1>4 DEF Transmit
<1>5. ASSUME NEW p \in Pings, SendFails(p) PROVE OutstandingHolds'
  BY <1>5 DEF SendFails
<1>6. ASSUME NEW p \in Pings, Latch(p) PROVE OutstandingHolds'
  BY <1>6 DEF Latch
<1>7. ASSUME NEW p \in Pings, SendFailed(p) PROVE OutstandingHolds'
  BY <1>7 DEF SendFailed, ForgetSeq
<1>8. ASSUME NEW p \in Pings, ReadReply(p) PROVE OutstandingHolds'
  <2> SUFFICES ASSUME NEW q \in Pings, Outstanding(q)'
               PROVE  pending'[seqOf'[q]] = q
    OBVIOUS
  <2>1. pending' = [pending EXCEPT ![seqOf[p]] = NoPing] /\ UNCHANGED <<seqOf, stage, done,
        errored, rx>>
    BY <1>8 DEF ReadReply
  <2>2. Outstanding(q)
    BY <1>8, <2>1 DEF ReadReply
  <2>3. pending[seqOf[q]] = q
    BY <2>2
  <2>4. CASE q = p
    <3>1. reader' = <<p, p>>
      BY <1>8, <2>3, <2>4 DEF ReadReply, Holder, SameToken
    <3> QED
      BY <2>4, <3>1
  <2>5. CASE q # p
    <3>1. seqOf[p] # seqOf[q]
      BY <2>2, <2>5
    <3> QED
      BY <2>1, <2>3, <3>1
  <2> QED
    BY <2>4, <2>5
<1>9. ASSUME NEW p \in Pings, ReadRefusal(p) PROVE OutstandingHolds'
  BY <1>9 DEF ReadRefusal, ForgetSeq, Holder
<1>10. ASSUME NEW s \in stamps, ReadStamp(s) PROVE OutstandingHolds'
  BY <1>10 DEF ReadStamp
<1>11. ASSUME OnRX PROVE OutstandingHolds'
  <2> SUFFICES ASSUME NEW q \in Pings, Outstanding(q)'
               PROVE  pending'[seqOf'[q]] = q
    OBVIOUS
  <2>1. reader # NoPing /\ UNCHANGED <<pending, seqOf, stage, done, errored>>
    BY <1>11 DEF OnRX
  <2>2. ColOf[q] \notin done /\ rx'[q] = NoPing
    BY <2>1
  <2>3. /\ reader[1] \in Pings /\ reader[2] \in Pings /\ reader[2] # NoPing
        /\ rx' \in {rx, [rx EXCEPT ![reader[1]] = reader[2]]}
        /\ reader[1] = q /\ rx[q] = NoPing => rx' = [rx EXCEPT ![reader[1]] = reader[2]]
    BY <1>11, <2>1, <2>2 DEF OnRX
  <2>5. rx[q] = NoPing /\ reader[1] # q
    <3> HIDE DEF OutstandingHolds, Outstanding
    <3> QED
      BY <2>2, <2>3
  <2>4. Outstanding(q)
    BY <2>1, <2>2, <2>5
  <2> QED
    BY <2>1, <2>4
<1>12. ASSUME NEW c \in Collectors, EndBucket(c) PROVE OutstandingHolds'
  BY <1>12 DEF EndBucket
<1>13. ASSUME NEW c \in Collectors, Forget(c) PROVE OutstandingHolds'
  BY <1>13 DEF Forget, Drop
<1>14. ASSUME Close PROVE OutstandingHolds'
  BY <1>14 DEF Close
<1>15. ASSUME UNCHANGED socketVars PROVE OutstandingHolds'
  BY <1>15 DEF socketVars
<1> QED
  BY <1>1, <1>2, <1>3, <1>4, <1>5, <1>6, <1>7, <1>8, <1>9, <1>10, <1>11, <1>12, <1>13,
     <1>14, <1>15 DEF SocketNext

(* A reply that is dealt with is recorded. *)
LEMMA AnsweredIsKept ==
  ASSUME Typed, NumbersAreAllocated, RepliesWereSent, ReaderIsOwn, OutstandingHolds,
         AnsweredIsReceived, [SocketNext]_socketVars
  PROVE  AnsweredIsReceived'
<1> USE SocketAssumption DEF Typed, NumbersAreAllocated, RepliesWereSent, ReaderIsOwn,
        OutstandingHolds, Outstanding, AnsweredIsReceived, tables, sends, kernel, receipts,
        ends, ghosts
<1>1. ASSUME NEW p \in Pings, Allocate(p) PROVE AnsweredIsReceived'
  <2> SUFFICES ASSUME NEW a \in answered, rx[a] = NoPing, a \notin errored
               PROVE  \E q \in Pings \ {a} : seqOf'[q] = seqOf'[a]
    BY <1>1 DEF Allocate
  <2>1. PICK q \in Pings \ {a} : seqOf[q] = seqOf[a]
    OBVIOUS
  <2>2. stage[p] = "unsent" /\ seqOf' = [seqOf EXCEPT ![p] = seq']
    BY <1>1 DEF Allocate
  <2>3. a # p /\ q # p
    BY <2>1, <2>2
  <2> QED
    BY <2>1, <2>2, <2>3
<1>2. ASSUME NEW p \in Pings, MarshalFails(p) PROVE AnsweredIsReceived'
  BY <1>2 DEF MarshalFails
<1>3. ASSUME NEW p \in Pings, MarkSent(p) PROVE AnsweredIsReceived'
  BY <1>3 DEF MarkSent
<1>4. ASSUME NEW p \in Pings, Transmit(p) PROVE AnsweredIsReceived'
  BY <1>4 DEF Transmit
<1>5. ASSUME NEW p \in Pings, SendFails(p) PROVE AnsweredIsReceived'
  BY <1>5 DEF SendFails
<1>6. ASSUME NEW p \in Pings, Latch(p) PROVE AnsweredIsReceived'
  BY <1>6 DEF Latch
<1>7. ASSUME NEW p \in Pings, SendFailed(p) PROVE AnsweredIsReceived'
  BY <1>7 DEF SendFailed
<1>8. ASSUME NEW p \in Pings, ReadReply(p) PROVE AnsweredIsReceived'
  <2>1. reader = NoPing /\ p \in replies /\ UNCHANGED <<seqOf, rx, errored, done>>
    BY <1>8 DEF ReadReply
  <2>2. CASE answered' = answered
    BY <2>1, <2>2
  <2>3. CASE answered' # answered
    <3>1. answered' = answered \cup {p} /\ reader' = NoPing /\ ColOf[p] \notin done
      BY <1>8, <2>3 DEF ReadReply
    <3>2. pending[seqOf[p]] # p
      <4> SUFFICES ASSUME Holder(p) = p PROVE FALSE
        BY DEF Holder
      <4>1. p # NoPing
        OBVIOUS
      <4> HIDE DEF OutstandingHolds, Outstanding, AnsweredIsReceived, Typed
      <4>2. reader' = <<p, p>>
        BY <1>8, <4>1 DEF ReadReply, SameToken
      <4> QED
        BY <3>1, <4>2
    <3>3. ~Outstanding(p)
      BY <3>2
    <3>4. rx[p] # NoPing \/ p \in errored \/ \E q \in Pings \ {p} : seqOf[q] = seqOf[p]
      BY <2>1, <3>1, <3>3
    <3> QED
      BY <2>1, <3>1, <3>4
  <2> QED
    BY <2>2, <2>3
<1>9. ASSUME NEW p \in Pings, ReadRefusal(p) PROVE AnsweredIsReceived'
  BY <1>9 DEF ReadRefusal, Holder
<1>10. ASSUME NEW s \in stamps, ReadStamp(s) PROVE AnsweredIsReceived'
  BY <1>10 DEF ReadStamp
<1>11. ASSUME OnRX PROVE AnsweredIsReceived'
  BY <1>11 DEF OnRX
<1>12. ASSUME NEW c \in Collectors, EndBucket(c) PROVE AnsweredIsReceived'
  BY <1>12 DEF EndBucket
<1>13. ASSUME NEW c \in Collectors, Forget(c) PROVE AnsweredIsReceived'
  BY <1>13 DEF Forget
<1>14. ASSUME Close PROVE AnsweredIsReceived'
  BY <1>14 DEF Close
<1>15. ASSUME UNCHANGED socketVars PROVE AnsweredIsReceived'
  BY <1>15 DEF socketVars
<1> QED
  BY <1>1, <1>2, <1>3, <1>4, <1>5, <1>6, <1>7, <1>8, <1>9, <1>10, <1>11, <1>12, <1>13,
     <1>14, <1>15 DEF SocketNext
-----------------------------------------------------------------------------
(* The invariant holds of every behaviour. *)
LEMMA InvHolds == SocketSpec => []IInv
<1> USE SocketAssumption
<1>1. SocketInit => IInv
  BY DEF SocketInit, IInv, Typed, ReaderIsOwn, RepliesAreOwn, ForgottenLeavesNothing, RepliesWereSent,
         NumbersAreAllocated, OutstandingHolds, Outstanding, AnsweredIsReceived, Seqs, Counters,
         Progress
<1>2. IInv /\ [SocketNext]_socketVars => IInv'
  BY TypedIsKept, ReaderIsKept, ForgottenIsKept, OutstandingIsKept, AnsweredIsKept DEF IInv
<1> QED
  BY <1>1, <1>2, PTL DEF SocketSpec

(* Every reply a ping records is its own, whatever late and repeated        *)
(* replies and reused sequence numbers come (socket.go handlePacket).       *)
THEOREM RepliesAreOnlyOwn == SocketSpec => []RepliesAreOwn
<1>1. IInv => RepliesAreOwn
  BY DEF IInv
<1> QED
  BY InvHolds, <1>1, PTL

(* The socket holds nothing of a bucket that has been forgotten, so nothing *)
(* more is matched to it and the tables do not grow (socket.go forget).     *)
THEOREM NothingIsLeft == SocketSpec => []ForgottenLeavesNothing
<1>1. IInv => ForgottenLeavesNothing
  BY DEF IInv
<1> QED
  BY InvHolds, <1>1, PTL

(* A reply the socket read in time is never lost in it, for any number of   *)
(* targets: only an ICMP error or a reused number excuses a ping's loss     *)
(* (socket.go handlePacket, allocSeq).                                      *)
THEOREM NoReplyIsLost == SocketSpec => []AnsweredIsReceived
<1>1. IInv => AnsweredIsReceived
  BY DEF IInv
<1> QED
  BY InvHolds, <1>1, PTL

(* Both at once: every reply read in time finds the ping it answers, and no *)
(* other (socket.go handlePacket).                                          *)
THEOREM RepliesFindTheirPings == SocketSpec => []ReplyFindsItsPing
<1>1. RepliesAreOwn /\ AnsweredIsReceived => ReplyFindsItsPing
  BY DEF ReplyFindsItsPing
<1> QED
  BY RepliesAreOnlyOwn, NoReplyIsLost, <1>1, PTL

-----------------------------------------------------------------------------
(* Stamps.  The counter of the socket and the kernel's run apart by the     *)
(* sends that have the one and not yet the other, until a send fails; so a  *)
(* ping alone in its send is transmitted under the counter it was given.    *)
Timed == [key : Nat, of : Pings, fits : SUBSET Pings]

StampTyped ==
  /\ tskey \in Nat /\ txCount \in Int
  /\ counterOf \in [Pings -> Int \cup {NoPing}]
  /\ stamps \in SUBSET Timed
  /\ txKern \in [Pings -> Timed \cup {NoPing}]
  /\ overlapped \in SUBSET Pings

Queued == {p \in Pings : stage[p] \in {"allocated", "marked"}}

CountersAgree ==
  ~drifted /\ ~desync /\ (\A p \in Pings : stage[p] # "failing") => txCount = tskey + Cardinality(Queued)

(* No ping takes two keys. *)
Keyed == {p \in Pings : stage[p] \in {"sent", "failing", "latched", "failed"}}

KeysAreFew == tskey <= Cardinality(Keyed)

TwoOverlap ==
  \A p, q \in Pings : p # q /\ InSend(p) /\ InSend(q) => p \in overlapped /\ q \in overlapped

CounterIsOwn ==
  \A n \in Counters, p \in Pings : byCounter[n] = p => counterOf[p] = n /\ stage[p] # "unsent"

(* A ping alone whose stamp is awaited takes the kernel's next key, and     *)
(* once it is sent no other stamp has, or can get, its counter.             *)
AloneIsNext ==
  ~drifted => \A n \in Counters, p \in Pings \ overlapped :
    byCounter[n] = p /\ stage[p] \in {"allocated", "marked"} => tskey = n

AloneHasItsKey ==
  ~drifted => \A n \in Counters, p \in Pings \ overlapped :
    byCounter[n] = p /\ stage[p] = "sent" => n < tskey /\ \A s \in stamps : s.key = n => s.of = p

StampsAreTaken ==
  \A s \in stamps : /\ s.key < tskey
                    /\ \A p \in s.fits : p \in overlapped \/ stage[p] = "sent"

AloneIsTimed ==
  ~drifted => \A p \in Pings \ overlapped :
    txKern[p] # NoPing /\ p \in txKern[p].fits => txKern[p].of = p

StampInv ==
  /\ StampTyped /\ CountersAgree /\ KeysAreFew /\ TwoOverlap /\ CounterIsOwn
  /\ AloneIsNext /\ AloneHasItsKey /\ StampsAreTaken /\ AloneIsTimed

-----------------------------------------------------------------------------
(* Finitely many pings have a counter and no key yet. *)
LEMMA QueuedIsFinite == IsFiniteSet(Queued) /\ Cardinality(Queued) \in Nat
<1>1. Queued \subseteq Pings /\ IsFiniteSet(Pings)
  BY SocketAssumption DEF Queued
<1>2. IsFiniteSet(Queued)
  BY <1>1, FS_Subset
<1> QED
  BY <1>2, FS_CardinalityType

(* Finitely many pings took a key. *)
LEMMA KeyedIsFinite ==
  /\ IsFiniteSet(Keyed) /\ Cardinality(Keyed) \in Nat /\ Cardinality(Pings) \in Nat
  /\ Cardinality(Keyed) <= Cardinality(Pings)
<1>1. Keyed \subseteq Pings /\ IsFiniteSet(Pings)
  BY SocketAssumption DEF Keyed
<1>2. IsFiniteSet(Keyed) /\ Cardinality(Keyed) <= Cardinality(Pings)
  BY <1>1, FS_Subset
<1> QED
  BY <1>1, <1>2, FS_CardinalityType

(* A step in which no key and no counter is taken, and no stamp recorded.   *)
LEMMA NothingTaken ==
  ASSUME StampInv, Typed, Typed',
         UNCHANGED <<txCount, counterOf, tskey, txKern, overlapped>>,
         desync => desync', drifted => drifted', stamps' \subseteq stamps,
         \A n \in Counters : byCounter'[n] \in {byCounter[n], NoPing},
         \A p \in Pings : /\ stage[p] \in {"allocated", "marked"} <=> stage'[p] \in {"allocated", "marked"}
                          /\ stage[p] = "sent" <=> stage'[p] = "sent"
                          /\ stage'[p] = "unsent" => stage[p] = "unsent"
                          /\ stage'[p] \in {"failing", "latched"} => stage[p] \in {"failing", "latched"}
                          /\ stage[p] = "failing" => stage'[p] = "failing" \/ desync'
                          /\ stage[p] \in {"sent", "failing", "latched", "failed"} <=>
                               stage'[p] \in {"sent", "failing", "latched", "failed"}
  PROVE  StampInv'
<1> NoPing \notin Pings
  BY SocketAssumption
<1>1. StampTyped'
  BY DEF StampInv, StampTyped
<1>2. CountersAgree'
  <2>1. Queued' = Queued
    BY DEF Queued
  <2> QED
    BY <2>1 DEF StampInv, CountersAgree
<1>3. TwoOverlap'
  <2>1. \A p \in Pings : InSend(p)' => InSend(p)
    BY DEF InSend
  <2> QED
    BY <2>1 DEF StampInv, TwoOverlap
<1>4. \A n \in Counters, p \in Pings : byCounter'[n] = p => byCounter[n] = p
  OBVIOUS
<1>5. CounterIsOwn'
  BY <1>4 DEF StampInv, CounterIsOwn
<1>6. AloneIsNext' /\ AloneHasItsKey'
  BY <1>4 DEF StampInv, AloneIsNext, AloneHasItsKey
<1>7. StampsAreTaken' /\ AloneIsTimed'
  <2>1. \A s \in stamps : s.fits \subseteq Pings
    BY DEF StampInv, StampTyped, Timed
  <2> QED
    BY <2>1 DEF StampInv, StampsAreTaken, AloneIsTimed
<1>8. KeysAreFew'
  <2>1. Keyed' = Keyed
    BY DEF Keyed
  <2> QED
    BY <2>1 DEF StampInv, KeysAreFew
<1> QED
  BY <1>1, <1>2, <1>3, <1>5, <1>6, <1>7, <1>8 DEF StampInv

(* Steps that take no counter and no key. *)
LEMMA QuietSteps ==
  ASSUME StampInv, Typed, Typed', NEW p \in Pings,
         MarkSent(p) \/ Latch(p) \/ SendFailed(p) \/ ReadReply(p) \/ ReadRefusal(p)
  PROVE  StampInv'
<1> USE DEF tables, sends, kernel, receipts, ends, ghosts
<1>1. stage \in [Pings -> Progress] /\ byCounter \in [Counters -> Pings \cup {NoPing}]
  BY DEF Typed
<1>2. /\ UNCHANGED <<txCount, counterOf, tskey, txKern, overlapped>>
      /\ desync => desync'
      /\ drifted => drifted'
      /\ stamps' \subseteq stamps
  BY DEF MarkSent, Latch, SendFailed, ReadReply, ReadRefusal
<1>3. \A n \in Counters : byCounter'[n] \in {byCounter[n], NoPing}
  BY <1>1 DEF MarkSent, Latch, SendFailed, ReadReply, ReadRefusal, ForgetSeq
<1>4. \A q \in Pings : /\ stage[q] \in {"allocated", "marked"} <=> stage'[q] \in {"allocated", "marked"}
                       /\ stage[q] = "sent" <=> stage'[q] = "sent"
                       /\ stage'[q] = "unsent" => stage[q] = "unsent"
                       /\ stage'[q] \in {"failing", "latched"} => stage[q] \in {"failing", "latched"}
                       /\ stage[q] = "failing" => stage'[q] = "failing" \/ desync'
                       /\ stage[q] \in {"sent", "failing", "latched", "failed"} <=>
                            stage'[q] \in {"sent", "failing", "latched", "failed"}
  BY <1>1 DEF MarkSent, Latch, SendFailed, ReadReply, ReadRefusal
<1> QED
  BY <1>2, <1>3, <1>4, NothingTaken

(* Steps that move neither counter and send nothing leave the stamps right. *)
LEMMA QuietEnds ==
  ASSUME StampInv, Typed, Typed',
         OnRX \/ (\E c \in Collectors : EndBucket(c) \/ Forget(c)) \/ Close \/ UNCHANGED socketVars
  PROVE  StampInv'
<1> USE DEF socketVars, tables, sends, kernel, receipts, ends, ghosts
<1>1. byCounter \in [Counters -> Pings \cup {NoPing}]
  BY DEF Typed
<1>2. UNCHANGED <<txCount, counterOf, tskey, txKern, overlapped, desync, drifted, stamps, stage>>
  BY DEF OnRX, EndBucket, Forget, Close
<1>3. \A n \in Counters : byCounter'[n] \in {byCounter[n], NoPing}
  BY <1>1 DEF OnRX, EndBucket, Forget, Close, DropCounters, Drop
<1> QED
  BY <1>2, <1>3, NothingTaken

-----------------------------------------------------------------------------
(* A counter is given: the kernel's next key, with no other send under way. *)
LEMMA AllocateStep ==
  ASSUME StampInv, Typed, Typed', NEW p \in Pings, Allocate(p)
  PROVE  StampInv'
<1> USE DEF tables, sends, kernel, receipts, ends, ghosts
<1> DEFINE during == {q \in Pings : InSend(q)}
<1>1. /\ stage[p] = "unsent" /\ stage' = [stage EXCEPT ![p] = "allocated"]
      /\ byCounter' = AwaitingStamp(p) /\ txCount' = txCount + 1
      /\ counterOf' = [counterOf EXCEPT ![p] = txCount]
      /\ overlapped' = IF during = {} THEN overlapped ELSE overlapped \cup during \cup {p}
      /\ UNCHANGED <<desync, tskey, stamps, txKern, drifted>>
  BY DEF Allocate
<1>2. /\ stage \in [Pings -> Progress] /\ byCounter \in [Counters -> Pings \cup {NoPing}]
      /\ NoPing \notin Pings
  BY SocketAssumption DEF Typed
<1>3. /\ tskey \in Nat /\ txCount \in Int /\ counterOf \in [Pings -> Int \cup {NoPing}]
      /\ stamps \in SUBSET Timed /\ txKern \in [Pings -> Timed \cup {NoPing}]
      /\ overlapped \in SUBSET Pings
  BY DEF StampInv, StampTyped
<1>4. /\ stage'[p] = "allocated" /\ counterOf'[p] = txCount
      /\ \A q \in Pings : q # p => stage'[q] = stage[q] /\ counterOf'[q] = counterOf[q]
      /\ overlapped \subseteq overlapped'
  BY <1>1, <1>2, <1>3
<1>5. StampTyped'
  BY <1>1, <1>3 DEF StampTyped
<1>6. p \notin Queued /\ Queued' = Queued \cup {p}
  BY <1>1, <1>4 DEF Queued
<1>7. CountersAgree'
  <2>1. Cardinality(Queued') = Cardinality(Queued) + 1 /\ Cardinality(Queued) \in Nat
    BY <1>6, QueuedIsFinite, FS_AddElement
  <2>2. \A q \in Pings : stage'[q] # "failing" => stage[q] # "failing"
    BY <1>1, <1>4
  <2> QED
    BY <1>1, <1>3, <2>1, <2>2 DEF StampInv, CountersAgree
<1>8. TwoOverlap'
  <2> SUFFICES ASSUME NEW q \in Pings, NEW r \in Pings, q # r, InSend(q)', InSend(r)'
               PROVE  q \in overlapped' /\ r \in overlapped'
    BY DEF TwoOverlap
  <2>1. \A x \in Pings : x # p => (InSend(x)' <=> InSend(x))
    BY <1>4 DEF InSend
  <2>2. CASE q # p /\ r # p
    BY <1>4, <2>1, <2>2 DEF StampInv, TwoOverlap
  <2>3. CASE q = p \/ r = p
    BY <1>1, <2>1, <2>3
  <2> QED
    BY <2>2, <2>3
<1>9. \A n \in Counters : /\ byCounter[n] # p
                          /\ byCounter'[n] = p => ~desync /\ n = txCount
                          /\ \A q \in Pings \ {p} : byCounter'[n] = q => byCounter[n] = q
  BY <1>1, <1>2 DEF StampInv, CounterIsOwn, AwaitingStamp
<1>10. CounterIsOwn'
  BY <1>4, <1>9 DEF StampInv, CounterIsOwn
<1>11. AloneIsNext'
  <2> SUFFICES ASSUME ~drifted, NEW n \in Counters, NEW q \in Pings, q \notin overlapped',
                      byCounter'[n] = q, stage'[q] \in {"allocated", "marked"}
               PROVE  tskey = n
    BY <1>1 DEF AloneIsNext
  <2>1. CASE q = p
    <3>1. \A r \in Pings : ~InSend(r)
      BY <1>1, <2>1
    <3>2. Queued = {} /\ \A r \in Pings : stage[r] # "failing"
      BY <3>1 DEF InSend, Queued
    <3>3. Cardinality(Queued) = 0
      BY <3>2, FS_EmptySet
    <3>4. ~desync /\ n = txCount
      BY <1>9, <2>1
    <3> QED
      BY <1>3, <3>2, <3>3, <3>4 DEF StampInv, CountersAgree
  <2>2. CASE q # p
    BY <1>4, <1>9, <2>2 DEF StampInv, AloneIsNext
  <2> QED
    BY <2>1, <2>2
<1>12. AloneHasItsKey'
  <2>1. \A n \in Counters, q \in Pings : byCounter'[n] = q /\ stage'[q] = "sent" =>
          byCounter[n] = q /\ stage[q] = "sent"
    BY <1>4, <1>9
  <2> QED
    BY <1>1, <1>4, <2>1 DEF StampInv, AloneHasItsKey
<1>13. StampsAreTaken' /\ AloneIsTimed'
  <2>1. \A q \in Pings : stage[q] = "sent" => stage'[q] = "sent"
    BY <1>1, <1>4
  <2>2. \A s \in stamps : s.fits \subseteq Pings
    BY <1>3 DEF Timed
  <2> QED
    BY <1>1, <1>4, <2>1, <2>2 DEF StampInv, StampsAreTaken, AloneIsTimed
<1>14. KeysAreFew'
  <2>1. Keyed' = Keyed
    BY <1>1, <1>4 DEF Keyed
  <2> QED
    BY <1>1, <2>1 DEF StampInv, KeysAreFew
<1> QED
  BY <1>5, <1>7, <1>8, <1>10, <1>11, <1>12, <1>13, <1>14 DEF StampInv

(* A counter is given back, or, when it cannot be, the count has drifted.   *)
LEMMA MarshalStep ==
  ASSUME StampInv, Typed, Typed', NEW p \in Pings, MarshalFails(p)
  PROVE  StampInv'
<1> USE DEF tables, sends, kernel, receipts, ends, ghosts
<1>1. /\ stage[p] = "allocated" /\ stage' = [stage EXCEPT ![p] = "unbuilt"] /\ ForgetSeq(p)
      /\ txCount' = WoundBack(p)
      /\ drifted' = (drifted \/ Holder(p) # p \/ counterOf[p] # txCount - 1)
      /\ UNCHANGED <<desync, counterOf, tskey, stamps, txKern, overlapped>>
  BY DEF MarshalFails
<1>2. /\ stage \in [Pings -> Progress] /\ byCounter \in [Counters -> Pings \cup {NoPing}]
      /\ NoPing \notin Pings
  BY SocketAssumption DEF Typed
<1>3. /\ tskey \in Nat /\ txCount \in Int /\ counterOf \in [Pings -> Int \cup {NoPing}]
      /\ stamps \in SUBSET Timed
  BY DEF StampInv, StampTyped
<1>4. \A n \in Counters : byCounter'[n] \in {byCounter[n], NoPing}
  BY <1>1, <1>2 DEF ForgetSeq
<1>5. stage'[p] = "unbuilt" /\ \A q \in Pings : q # p => stage'[q] = stage[q]
  BY <1>1, <1>2
<1>6. \A n \in Counters, q \in Pings : byCounter'[n] = q => byCounter[n] = q
  BY <1>2, <1>4
<1>7. StampTyped'
  BY <1>1, <1>3 DEF StampInv, StampTyped, WoundBack
<1>8. CountersAgree'
  <2>1. p \in Queued /\ Queued' = Queued \ {p}
    BY <1>1, <1>5 DEF Queued
  <2>2. Cardinality(Queued') = Cardinality(Queued) - 1 /\ Cardinality(Queued) \in Nat
    BY <2>1, QueuedIsFinite, FS_RemoveElement
  <2>3. \A q \in Pings : stage'[q] # "failing" => stage[q] # "failing"
    BY <1>1, <1>5
  <2>4. ~drifted' => ~drifted /\ txCount' = txCount - 1
    BY <1>1, <1>2 DEF WoundBack
  <2> QED
    BY <1>1, <1>3, <2>2, <2>3, <2>4 DEF StampInv, CountersAgree
<1>9. TwoOverlap'
  <2>1. \A x \in Pings : InSend(x)' => InSend(x)
    BY <1>5 DEF InSend
  <2> QED
    BY <1>1, <2>1 DEF StampInv, TwoOverlap
<1>10. \A q \in Pings : /\ stage'[q] \in {"allocated", "marked"} => stage[q] \in {"allocated", "marked"}
                        /\ stage'[q] = "sent" <=> stage[q] = "sent"
                        /\ stage'[q] = "unsent" => stage[q] = "unsent"
  BY <1>1, <1>5
<1>11. drifted => drifted'
  BY <1>1
<1>12. CounterIsOwn'
  BY <1>1, <1>6, <1>10 DEF StampInv, CounterIsOwn
<1>13. AloneIsNext' /\ AloneHasItsKey'
  BY <1>1, <1>6, <1>10, <1>11 DEF StampInv, AloneIsNext, AloneHasItsKey
<1>14. StampsAreTaken' /\ AloneIsTimed'
  <2>1. \A s \in stamps : s.fits \subseteq Pings
    BY <1>3 DEF Timed
  <2> QED
    BY <1>1, <1>10, <1>11, <2>1 DEF StampInv, StampsAreTaken, AloneIsTimed
<1>15. KeysAreFew'
  <2>1. Keyed' = Keyed
    BY <1>1, <1>5 DEF Keyed
  <2> QED
    BY <1>1, <2>1 DEF StampInv, KeysAreFew
<1> QED
  BY <1>7, <1>8, <1>9, <1>12, <1>13, <1>14, <1>15 DEF StampInv

(* A key is taken: whoever is alone in its send has the counter of that key.*)
LEMMA TransmitStep ==
  ASSUME StampInv, Typed, Typed', NEW p \in Pings, Transmit(p)
  PROVE  StampInv'
<1> USE DEF tables, sends, kernel, receipts, ends, ghosts
<1> DEFINE s0 == [key |-> tskey, of |-> p, fits |-> {q \in Pings : Waiting(q)}]
<1>1. /\ stage[p] = "marked" /\ stage' = [stage EXCEPT ![p] = "sent"]
      /\ stamps' = stamps \cup {s0} /\ tskey' = tskey + 1
      /\ UNCHANGED <<txCount, byCounter, desync, counterOf, txKern, overlapped, drifted>>
  BY DEF Transmit
<1>2. /\ stage \in [Pings -> Progress] /\ byCounter \in [Counters -> Pings \cup {NoPing}]
  BY DEF Typed
<1>3. /\ tskey \in Nat /\ txCount \in Int /\ counterOf \in [Pings -> Int \cup {NoPing}]
      /\ stamps \in SUBSET Timed
  BY DEF StampInv, StampTyped
<1>4. /\ s0 \in Timed /\ s0.key = tskey /\ s0.of = p
      /\ \A q \in s0.fits : q \in Pings /\ stage[q] \in {"marked", "sent"}
  BY <1>3 DEF Timed, Waiting
<1> HIDE DEF s0
<1>5. stage'[p] = "sent" /\ \A q \in Pings : q # p => stage'[q] = stage[q]
  BY <1>1, <1>2
<1>6. StampTyped'
  BY <1>1, <1>3, <1>4 DEF StampInv, StampTyped
<1>7. CountersAgree'
  <2>1. p \in Queued /\ Queued' = Queued \ {p}
    BY <1>1, <1>5 DEF Queued
  <2>2. Cardinality(Queued') = Cardinality(Queued) - 1 /\ Cardinality(Queued) \in Nat
    BY <2>1, QueuedIsFinite, FS_RemoveElement
  <2>3. \A q \in Pings : stage'[q] # "failing" => stage[q] # "failing"
    BY <1>1, <1>5
  <2> QED
    BY <1>1, <1>3, <2>2, <2>3 DEF StampInv, CountersAgree
<1>8. TwoOverlap'
  <2>1. \A x \in Pings : InSend(x)' => InSend(x)
    BY <1>5 DEF InSend
  <2> QED
    BY <1>1, <2>1 DEF StampInv, TwoOverlap
<1>9. CounterIsOwn'
  BY <1>1, <1>5 DEF StampInv, CounterIsOwn
(* Whoever else is in its send overlaps this one. *)
<1>10. \A q \in Pings \ overlapped : q # p => stage[q] \notin {"allocated", "marked"}
  BY <1>1 DEF StampInv, TwoOverlap, InSend
<1>11. AloneIsNext'
  BY <1>1, <1>5, <1>10 DEF AloneIsNext
<1>12. AloneHasItsKey'
  <2> SUFFICES ASSUME ~drifted, NEW n \in Counters, NEW q \in Pings \ overlapped,
                      byCounter[n] = q, stage'[q] = "sent"
               PROVE  n < tskey + 1 /\ \A s \in stamps' : s.key = n => s.of = q
    BY <1>1 DEF AloneHasItsKey
  <2>1. CASE q = p
    <3>1. tskey = n
      BY <1>1, <2>1 DEF StampInv, AloneIsNext
    <3>2. \A s \in stamps : s.key \in Nat /\ s.key < tskey
      BY <1>3 DEF StampInv, StampsAreTaken, Timed
    <3> QED
      BY <1>1, <1>3, <1>4, <2>1, <3>1, <3>2
  <2>2. CASE q # p
    <3>1. n < tskey /\ \A s \in stamps : s.key = n => s.of = q
      BY <1>5, <2>2 DEF StampInv, AloneHasItsKey
    <3>2. n \in Nat
      BY SocketAssumption, FS_CardinalityType DEF Counters
    <3> QED
      BY <1>1, <1>3, <1>4, <3>1, <3>2
  <2> QED
    BY <2>1, <2>2
<1>13. StampsAreTaken'
  <2>1. \A s \in stamps : s.key \in Nat /\ s.key < tskey + 1 /\ s.fits \subseteq Pings
    BY <1>3 DEF StampInv, StampsAreTaken, Timed
  <2>2. \A s \in stamps : \A q \in s.fits : q \in overlapped \/ stage'[q] = "sent"
    BY <1>5, <2>1 DEF StampInv, StampsAreTaken
  <2>3. s0.key < tskey + 1 /\ \A q \in s0.fits : q \in overlapped \/ stage'[q] = "sent"
    BY <1>3, <1>4, <1>5, <1>10
  <2> QED
    BY <1>1, <2>1, <2>2, <2>3 DEF StampsAreTaken
<1>14. AloneIsTimed'
  BY <1>1 DEF StampInv, AloneIsTimed
<1>15. KeysAreFew'
  <2>1. p \notin Keyed /\ Keyed' = Keyed \cup {p}
    BY <1>1, <1>5 DEF Keyed
  <2>2. Cardinality(Keyed') = Cardinality(Keyed) + 1 /\ Cardinality(Keyed) \in Nat
    BY <2>1, KeyedIsFinite, FS_AddElement
  <2> QED
    BY <1>1, <1>3, <2>2 DEF StampInv, KeysAreFew
<1> QED
  BY <1>6, <1>7, <1>8, <1>9, <1>11, <1>12, <1>13, <1>14, <1>15 DEF StampInv

(* A send fails, with or without a key taken. *)
LEMMA SendFailsStep ==
  ASSUME StampInv, Typed, Typed', NEW p \in Pings, SendFails(p)
  PROVE  StampInv'
<1> USE DEF tables, sends, kernel, receipts, ends, ghosts
<1>1. /\ stage[p] = "marked" /\ stage' = [stage EXCEPT ![p] = "failing"] /\ tskey' \in {tskey, tskey + 1}
      /\ UNCHANGED <<txCount, byCounter, desync, counterOf, stamps, txKern, overlapped, drifted>>
  BY DEF SendFails
<1>2. /\ stage \in [Pings -> Progress]
      /\ tskey \in Nat /\ stamps \in SUBSET Timed /\ \A n \in Counters : n \in Nat
  BY SocketAssumption, FS_CardinalityType DEF Typed, StampInv, StampTyped, Counters
<1>3. stage'[p] = "failing" /\ \A q \in Pings : q # p => stage'[q] = stage[q]
  BY <1>1, <1>2
<1>4. tskey' \in Nat /\ \A k \in Nat : k < tskey => k < tskey'
  BY <1>1, <1>2
<1>5. StampTyped'
  BY <1>1, <1>4 DEF StampInv, StampTyped
<1>6. CountersAgree'
  BY <1>3 DEF CountersAgree
<1>7. TwoOverlap'
  <2>1. \A x \in Pings : InSend(x)' => InSend(x)
    BY <1>1, <1>3 DEF InSend
  <2> QED
    BY <1>1, <2>1 DEF StampInv, TwoOverlap
<1>8. CounterIsOwn'
  BY <1>1, <1>3 DEF StampInv, CounterIsOwn
<1>9. \A q \in Pings \ overlapped : q # p => stage[q] \notin {"allocated", "marked"}
  BY <1>1 DEF StampInv, TwoOverlap, InSend
<1>10. AloneIsNext'
  BY <1>1, <1>3, <1>9 DEF AloneIsNext
<1>11. AloneHasItsKey'
  BY <1>1, <1>2, <1>3, <1>4 DEF StampInv, AloneHasItsKey
<1>12. StampsAreTaken'
  <2>1. \A s \in stamps : s.key \in Nat /\ s.fits \subseteq Pings
    BY <1>2 DEF Timed
  <2> QED
    BY <1>1, <1>3, <1>4, <2>1 DEF StampInv, StampsAreTaken
<1>13. AloneIsTimed'
  BY <1>1 DEF StampInv, AloneIsTimed
<1>14. KeysAreFew'
  <2>1. p \notin Keyed /\ Keyed' = Keyed \cup {p}
    BY <1>1, <1>3 DEF Keyed
  <2>2. Cardinality(Keyed') = Cardinality(Keyed) + 1 /\ Cardinality(Keyed) \in Nat
    BY <2>1, KeyedIsFinite, FS_AddElement
  <2> QED
    BY <1>1, <1>2, <2>2 DEF StampInv, KeysAreFew
<1> QED
  BY <1>5, <1>6, <1>7, <1>8, <1>10, <1>11, <1>12, <1>13, <1>14 DEF StampInv

(* The stamp read for a ping it fits: one sent, whose counter nobody else   *)
(* was stamped under.                                                       *)
LEMMA ReadStampStep ==
  ASSUME StampInv, Typed, Typed', NEW s \in stamps, ReadStamp(s)
  PROVE  StampInv'
<1> USE DEF tables, sends, kernel, receipts, ends, ghosts
<1> DEFINE p == byCounter[s.key]
<1>1. /\ stamps' = stamps \ {s}
      /\ txKern' = IF p # NoPing /\ ColOf[p] \notin done THEN [txKern EXCEPT ![p] = s] ELSE txKern
      /\ byCounter' = [byCounter EXCEPT ![s.key] = NoPing]
      /\ UNCHANGED <<txCount, desync, counterOf, tskey, stage, overlapped, drifted>>
  BY DEF ReadStamp
<1>2. /\ byCounter \in [Counters -> Pings \cup {NoPing}] /\ NoPing \notin Pings
      /\ stamps \in SUBSET Timed /\ txKern \in [Pings -> Timed \cup {NoPing}]
  BY SocketAssumption DEF Typed, StampInv, StampTyped
<1>3. \A n \in Counters, q \in Pings : byCounter'[n] = q => byCounter[n] = q
  BY <1>1, <1>2
<1>4. \A q \in Pings : txKern'[q] = txKern[q] \/ (q = p /\ txKern'[q] = s)
  BY <1>1, <1>2
<1>5. txKern' \in [Pings -> Timed \cup {NoPing}]
  BY <1>1, <1>2
<1> HIDE DEF p
<1>6. StampTyped'
  BY <1>1, <1>2, <1>5 DEF StampInv, StampTyped
<1>7. CountersAgree' /\ KeysAreFew' /\ TwoOverlap'
  BY <1>1 DEF StampInv, CountersAgree, KeysAreFew, TwoOverlap, Queued, Keyed, InSend
<1>8. CounterIsOwn' /\ AloneIsNext' /\ AloneHasItsKey'
  BY <1>1, <1>3 DEF StampInv, CounterIsOwn, AloneIsNext, AloneHasItsKey
<1>9. StampsAreTaken'
  BY <1>1 DEF StampInv, StampsAreTaken
<1>10. AloneIsTimed'
  <2> SUFFICES ASSUME ~drifted, NEW q \in Pings \ overlapped, txKern'[q] # NoPing, q \in txKern'[q].fits
               PROVE  txKern'[q].of = q
    BY <1>1 DEF AloneIsTimed
  <2>1. CASE txKern'[q] = txKern[q]
    BY <2>1 DEF StampInv, AloneIsTimed
  <2>2. s.key \in Counters
    <3>1. s.key \in Nat /\ s.key < tskey /\ tskey \in Nat /\ tskey <= Cardinality(Keyed)
      BY <1>2 DEF StampInv, StampTyped, StampsAreTaken, KeysAreFew, Timed
    <3> QED
      BY <3>1, KeyedIsFinite DEF Counters
  <2>3. CASE q = p /\ txKern'[q] = s
    <3>1. stage[q] = "sent"
      BY <2>3 DEF StampInv, StampsAreTaken
    <3> QED
      BY <2>2, <2>3, <3>1 DEF StampInv, AloneHasItsKey, p
  <2> QED
    BY <1>4, <2>1, <2>3
<1> QED
  BY <1>6, <1>7, <1>8, <1>9, <1>10 DEF StampInv

(* At first nothing is sent and nothing stamped. *)
LEMMA StampInit == SocketInit => StampInv
<1> SUFFICES ASSUME SocketInit PROVE StampInv
  OBVIOUS
<1>1. /\ tskey = 0 /\ txCount = 0 /\ stamps = {} /\ overlapped = {}
      /\ stage = [p \in Pings |-> "unsent"] /\ counterOf = [p \in Pings |-> NoPing]
      /\ byCounter = [n \in Counters |-> NoPing] /\ txKern = [p \in Pings |-> NoPing]
  BY DEF SocketInit
<1>2. Queued = {} /\ \A p \in Pings : ~InSend(p)
  BY <1>1 DEF Queued, InSend
<1>3. Cardinality(Queued) = 0
  BY <1>2, FS_EmptySet
<1>4. KeysAreFew
  BY <1>1, KeyedIsFinite DEF KeysAreFew
<1>5. StampTyped /\ CountersAgree /\ TwoOverlap
  BY <1>1, <1>2, <1>3 DEF StampTyped, CountersAgree, TwoOverlap
<1>6. CounterIsOwn /\ AloneIsNext /\ AloneHasItsKey /\ StampsAreTaken /\ AloneIsTimed
  BY <1>1, SocketAssumption
     DEF CounterIsOwn, AloneIsNext, AloneHasItsKey, StampsAreTaken, AloneIsTimed
<1> QED
  BY <1>4, <1>5, <1>6 DEF StampInv

(* A ping that was alone in its send is timed by its own packet, whatever   *)
(* sends fail around it and whether the kernel counts them, as long as no   *)
(* packet was counted that was never sent (socket.go send, handleTimestamp; *)
(* scheduler.go finalize).                                                  *)
THEOREM AloneAreTimedByTheirOwn == SocketSpec => []AloneStampsAreOwn
<1>1. Typed /\ Typed' /\ StampInv /\ [SocketNext]_socketVars => StampInv'
  <2> SUFFICES ASSUME Typed, Typed', StampInv, [SocketNext]_socketVars PROVE StampInv'
    OBVIOUS
  <2>1. ASSUME NEW p \in Pings,
               \/ Allocate(p) \/ MarshalFails(p) \/ MarkSent(p) \/ Transmit(p)
               \/ SendFails(p) \/ Latch(p) \/ SendFailed(p)
               \/ ReadReply(p) \/ ReadRefusal(p)
        PROVE  StampInv'
    BY <2>1, AllocateStep, MarshalStep, TransmitStep, SendFailsStep, QuietSteps
  <2>2. ASSUME NEW s \in stamps, ReadStamp(s) PROVE StampInv'
    BY <2>2, ReadStampStep
  <2> QED
    BY <2>1, <2>2, QuietEnds DEF SocketNext
<1>2. IInv => Typed
  BY DEF IInv
<1>3. StampInv => AloneStampsAreOwn
  BY DEF StampInv, AloneIsTimed, AloneStampsAreOwn, StampIsOwn, KernelTX
<1> QED
  BY <1>1, <1>2, <1>3, StampInit, InvHolds, PTL DEF SocketSpec
=============================================================================
