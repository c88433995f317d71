----------------------------- MODULE WireBatch -----------------------------
(***************************************************************************)
(* A submission on its way from the wire into the database: the screen     *)
(* over its messages, the rows taken out of its record batches one by one, *)
(* the write of all of them as blobs, and what reading a blob back gives,  *)
(* should the file have been damaged too (batch.go, frame.go, limit.go,    *)
(* enc.go).  One series stands for the three; a target and a time are told *)
(* apart by the place of the row.                                          *)
(*                                                                         *)
(* Integers of the code are unsigned 64 and 32 bits wide; here they are    *)
(* below Wrap, and samples at most MostMicros.                             *)
(***************************************************************************)
EXTENDS Integers, Sequences, FiniteSets

CONSTANTS
  Bodies,        \* what agents send, those with a bug included: sequences of messages
  Absent,        \* no list: a series that was not measured, a blob that is none
  MaxRows,       \* rows a submission may hold
  MostMessages,  \* messages a submission may have
  Budget,        \* bytes decoding may allocate
  MostMicros, Wrap

IsRow(r) ==
  /\ {r.sent, r.received} \subseteq Nat
  /\ r.samples \in Seq(0..MostMicros)
  /\ r.series = Absent \/ r.series \in Seq((-MostMicros)..MostMicros)

IsList(s) == Len(s) \in Nat /\ DOMAIN s = 1..Len(s)

IsMessage(m) ==
  \/ m.kind = "schema"
  \/ m.kind = "records" /\ IsList(m.rows) /\ \A i \in DOMAIN m.rows : IsRow(m.rows[i])

ASSUME WireAssumption ==
  /\ {MaxRows, MostMessages, Budget, MostMicros, Wrap} \subseteq Nat
  /\ 2 * MostMicros < Wrap
  /\ Absent \notin Seq(Int)
  /\ \A w \in Bodies : IsList(w) /\ \A i \in DOMAIN w : IsMessage(w[i])

VARIABLES
  wire,      \* the messages of the body
  whole,     \* the last of them is all there
  stage,     \* "screen", "decode", "stored", "refused", "failed"
  cursor,        \* the message, and the row of it, to take next
  decoded,   \* rows counted
  reserved,  \* what decoding has allocated
  taken,     \* measurements made of rows
  blobs,     \* what is stored: for each measurement its two blobs
  damaged    \* ghost: something was done to the file

wireVars == <<wire, whole, stage, cursor, decoded, reserved, taken, blobs, damaged>>

Ascending(s) == \A i, j \in DOMAIN s : i <= j => s[i] <= s[j]

(* What a list comes to in any order of its numbers, and in the one that ascends. *)
Orders(places) == {p \in [places -> places] : \A i \in places : \E k \in places : p[k] = i}

Rearranged(s) == {[i \in DOMAIN s |-> s[p[i]]] : p \in Orders(DOMAIN s)}

Sorted(s) == CHOOSE t \in Rearranged(s) : Ascending(t)

-----------------------------------------------------------------------------
(* Blobs (enc.go): the first value, and how much each is above the last.   *)

EncodeBlob(s) ==
  IF Ascending(s) THEN [i \in DOMAIN s |-> IF i = 1 THEN s[1] ELSE s[i] - s[i - 1]]
  ELSE Absent

(* Added up in a word of Wrap values, of which low is the least: a sum of    *)
(* two wraps once at most.  The check comes first, or, in the variant with   *)
(* a fault, after.                                                           *)
InWord(x, low) == IF x < low + Wrap THEN x ELSE x - Wrap

TooMuchAfter(cur, v) == (cur + v) % Wrap > MostMicros

TooMuch(cur, v) == v > MostMicros - cur

SumsOf(b, low) ==
  LET sum[i \in DOMAIN b] == IF i = 1 THEN b[1] ELSE InWord(sum[i - 1] + b[i], low)
  IN  sum

(* Microseconds, or a series of differences, which may be below zero.        *)
DecodeBlob(b, signed) ==
  LET sums  == SumsOf(b, IF signed THEN -(Wrap \div 2) ELSE 0)
      least == IF signed THEN -MostMicros ELSE 0
      first == b = <<>> \/ (least <= b[1] /\ b[1] <= MostMicros)
  IN  IF first /\ \A i \in DOMAIN b \ {1} : ~TooMuch(sums[i - 1], b[i]) THEN sums ELSE Absent

-----------------------------------------------------------------------------
(* From the wire.                                                          *)

(* The schema first, then record batches, no more of them than there may    *)
(* be, and each as long as it says.                                         *)
Framed ==
  /\ \A i \in DOMAIN wire : (wire[i].kind = "schema") <=> (i = 1)
  /\ Len(wire) <= MostMessages
  /\ whole

Screen ==
  /\ stage = "screen"
  /\ stage' = IF Framed THEN "decode" ELSE "refused"
  /\ cursor' = <<2, 1>>
  /\ UNCHANGED <<wire, whole, decoded, reserved, taken, blobs, damaged>>

(* Every row of a record batch counts; in the variant with a fault only     *)
(* those that will be kept.                                                 *)
KeptRows(batch) == Cardinality({k \in DOMAIN batch : batch[k].received <= batch[k].sent})

CountedRows(batch) == Len(batch)

OpenRecords ==
  /\ stage = "decode" /\ cursor[1] <= Len(wire) /\ cursor[2] = 1
  /\ LET batch == wire[cursor[1]].rows IN
     /\ decoded' = decoded + CountedRows(batch)
     /\ reserved' = IF Len(batch) > Budget - reserved THEN reserved ELSE reserved + Len(batch)
     /\ stage' = IF Len(batch) > Budget - reserved \/ decoded' > MaxRows
                  THEN "refused" ELSE "decode"
     /\ cursor' = IF batch = <<>> THEN <<cursor[1] + 1, 1>> ELSE <<cursor[1], 2>>
  /\ UNCHANGED <<wire, whole, taken, blobs, damaged>>

(* A list that is out of order is put in order; in the variant with a fault *)
(* it is taken as it is.                                                    *)
AsSent(l) == l

InOrder(l) == IF l = Absent THEN Absent ELSE Sorted(l)

Measured(r) == [samples |-> InOrder(r.samples), series |-> InOrder(r.series)]

Miscounted(r) == r.received # Len(r.samples)

Impossible(r) == r.received > r.sent

Overlong(r) == r.series # Absent /\ Len(r.series) > r.sent

(* One row; at[2] is one more than its place.  An impossible one is left    *)
(* out; in the variant with a fault it refuses the batch.                   *)
RefusesImpossible(r) == Miscounted(r) \/ Impossible(r) \/ Overlong(r)

RefusesBatch(r) == Miscounted(r) \/ (~Impossible(r) /\ Overlong(r))

TakeRow ==
  /\ stage = "decode" /\ cursor[1] <= Len(wire) /\ cursor[2] > 1
  /\ LET batch == wire[cursor[1]].rows
         r    == batch[cursor[2] - 1]
     IN  /\ stage' = IF RefusesBatch(r) THEN "refused" ELSE "decode"
         /\ taken' = IF RefusesBatch(r) \/ Impossible(r) THEN taken ELSE Append(taken, Measured(r))
         /\ cursor' = IF cursor[2] > Len(batch) THEN <<cursor[1] + 1, 1>>
                       ELSE <<cursor[1], cursor[2] + 1>>
  /\ UNCHANGED <<wire, whole, decoded, reserved, blobs, damaged>>

(* All of a batch is written, or, should one not encode, nothing is, and    *)
(* the agent sends it again.                                                *)
WriteBatch ==
  /\ stage = "decode" /\ cursor[1] > Len(wire)
  /\ LET encoded == [i \in DOMAIN taken |->
           [samples |-> EncodeBlob(taken[i].samples),
            series  |-> IF taken[i].series = Absent THEN Absent ELSE EncodeBlob(taken[i].series)]]
         ok == \A i \in DOMAIN taken :
           /\ encoded[i].samples # Absent
           /\ taken[i].series # Absent => encoded[i].series # Absent
     IN  /\ stage' = IF ok THEN "stored" ELSE "failed"
         /\ blobs' = IF ok THEN encoded ELSE <<>>
  /\ UNCHANGED <<wire, whole, cursor, decoded, reserved, taken, damaged>>

(* The file is damaged: one number of a blob becomes another.               *)
Damage(i, k, v) ==
  /\ stage = "stored" /\ ~damaged
  /\ blobs' = [blobs EXCEPT ![i].samples[k] = v]
  /\ damaged' = TRUE
  /\ UNCHANGED <<wire, whole, stage, cursor, decoded, reserved, taken>>

WireInit ==
  /\ wire \in Bodies
  /\ whole \in BOOLEAN
  /\ stage = "screen" /\ cursor = <<1, 1>> /\ decoded = 0 /\ reserved = 0
  /\ taken = <<>> /\ blobs = <<>> /\ damaged = FALSE

WireNext ==
  \/ Screen \/ OpenRecords \/ TakeRow \/ WriteBatch
  \/ \E i \in DOMAIN blobs : \E k \in DOMAIN blobs[i].samples, v \in 0..(Wrap - 1) : Damage(i, k, v)

WireSpec == WireInit /\ [][WireNext]_wireVars

-----------------------------------------------------------------------------
(* The properties.                                                         *)

(* The rows of a submission by their places, which rows are told by.        *)
RowsOf(m) == IF m.kind = "schema" THEN <<>> ELSE m.rows

Places == UNION {{i} \X DOMAIN RowsOf(wire[i]) : i \in DOMAIN wire}

Row(p) == wire[p[1]].rows[p[2]]

Before(p, q) == p[1] < q[1] \/ (p[1] = q[1] /\ p[2] < q[2])

Kept == {p \in Places : ~Impossible(Row(p))}

(* A batch is refused only for what makes all of it doubtful. *)
DoubtfulAsAWhole ==
  \/ ~Framed
  \/ Cardinality(Places) > MaxRows \/ Cardinality(Places) > Budget
  \/ \E p \in Places : Miscounted(Row(p)) \/ (Overlong(Row(p)) /\ ~Impossible(Row(p)))

(* The rows that can be are all taken, in their order, each as it was sent. *)
RankOf(p) == Cardinality({q \in Kept : Before(q, p)}) + 1

IsAsSent(m, r) ==
  /\ m.samples \in Rearranged(r.samples) /\ Ascending(m.samples)
  /\ Len(m.samples) = r.received
  /\ IF r.series = Absent THEN m.series = Absent
     ELSE m.series \in Rearranged(r.series) /\ Ascending(m.series)

TakenAsSent ==
  /\ Cardinality(Places) <= MaxRows
  /\ Len(taken) = Cardinality(Kept)
  /\ \A p \in Kept : RankOf(p) \in DOMAIN taken /\ IsAsSent(taken[RankOf(p)], Row(p))

(* What is read is what was taken, and of a file that was damaged it is an  *)
(* error or a distribution, never numbers out of order or past their width  *)
(* (enc.go:79-85).                                                          *)
ReadAsTaken ==
  \A i \in DOMAIN blobs :
    LET s == DecodeBlob(blobs[i].samples, FALSE) IN
    /\ ~damaged => s = taken[i].samples
    /\ s # Absent => Ascending(s) /\ \A k \in DOMAIN s : s[k] \in 0..MostMicros
    /\ blobs[i].series # Absent => DecodeBlob(blobs[i].series, TRUE) = taken[i].series

(* A row costs nobody but itself: whatever an agent gets wrong that says    *)
(* nothing about its other rows, an order or an impossible count, they are  *)
(* stored as sent and read back so.  None that was let in is refused by the *)
(* database, from where it would come back forever (batch.go:276-283,       *)
(* 293-298), nor is a longer one let in for having rows that are dropped    *)
(* (batch.go:173-176).                                                      *)
ARowCostsItself ==
  /\ stage # "failed"
  /\ stage = "refused" => DoubtfulAsAWhole
  /\ stage = "stored" => TakenAsSent
  /\ ReadAsTaken
=============================================================================
