------------------------- MODULE MesPipelineProofs -------------------------
(***************************************************************************)
(* Proofs about MesPipeline, for every size of queue, batch and budget and *)
(* every number of events, databases and restarts.                         *)
(*                                                                         *)
(* DurableBeforeAck is not inductive: what is acknowledged next is the     *)
(* position of the read, and what MillWright has forgotten is where the    *)
(* next read starts.  Durable says of each of these places that everything *)
(* up to it is in the spool.                                               *)
(*                                                                         *)
(* CopiedInOrder needs where the next read starts and what the worker has  *)
(* read but not stored: InOrder ties them to the number of rows copied.    *)
(* CycleAccounted follows one line, what waits and then what is queued:    *)
(* cycles join it at the end and leave it from the front (Accounted).      *)
(*                                                                         *)
(* The refinement of EventDelivery follows the events from place to place: *)
(* WayStep says what one step may do to an event, PhaseStep that this is   *)
(* what EventDelivery allows.                                              *)
(***************************************************************************)
EXTENDS MesPipeline, SpoolEpochs, TLAPS, SequenceTheorems, FiniteSetTheorems

Rows == [ev : Event, st : {"pending", "acked", "pruned"}]

\* Rows are added at the end and keep their events.
Grows ==
  /\ DOMAIN spool \subseteq DOMAIN spool'
  /\ \A i \in DOMAIN spool : spool'[i].ev = spool[i].ev

\* No place is ahead of the outbox it is in.
NotAhead(epoch, seq) ==
  epoch <= outbox.epoch /\ (epoch = outbox.epoch => seq <= outbox.last)

Places ==
  /\ outbox.low <= outbox.last
  /\ NotAhead(ack.epoch, ack.seq)
  /\ NotAhead(cursor.epoch, cursor.pos)
  /\ NotAhead(read.epoch, read.to)
  /\ read.from >= 1 /\ read.from <= read.to + 1

StoredUpTo(epoch, seq) ==
  \A s \in 1..seq : [epoch |-> epoch, seq |-> s] \in Stored

Durable ==
  /\ StoredUpTo(ack.epoch, ack.seq)
  /\ StoredUpTo(cursor.epoch, cursor.pos)
  /\ StoredUpTo(outbox.epoch, outbox.low)
  /\ wpc = "append" => StoredUpTo(read.epoch, read.from - 1)
  /\ wpc = "ack" => cursor.epoch = read.epoch /\ cursor.pos = read.to

\* Receipts are of events with a verdict, and of the request that was answered.
Settled ==
  /\ fpc # "answered" => receipts = {}
  /\ \A i \in receipts : spool[i].ev \in final
  /\ FinalBeforeForgotten

IInv == TypeOK /\ Places /\ Durable /\ Settled

-----------------------------------------------------------------------------
\* The sequences

LEMMA SpoolIsSeq == ASSUME TypeOK PROVE spool \in Seq(Rows) /\ DOMAIN spool = 1..Len(spool)
  BY LenProperties DEF TypeOK, Rows

LEMMA RowIsRow == ASSUME NEW e \in Event PROVE Row(e) \in Rows /\ Row(e).ev = e /\ Row(e).st = "pending"
  BY DEF Row, Rows

LEMMA CycleIsEvent == ASSUME NEW n \in Nat PROVE Cycle(n) \in Event
  BY DEF Cycle, Event

\* Rows put behind the spool leave it a spool, and what it held where it was.
LEMMA AddedRows ==
  ASSUME TypeOK, NEW rows \in Seq(Rows), spool' = spool \o rows
  PROVE  /\ spool' \in Seq(Rows) /\ Grows
         /\ \A i \in DOMAIN spool : spool'[i] = spool[i]
         /\ \A n \in 1..Len(rows) : Len(spool) + n \in DOMAIN spool'
                                    /\ spool'[Len(spool) + n] = rows[n]
         /\ \A i \in DOMAIN spool' \ DOMAIN spool :
              \E n \in 1..Len(rows) : spool'[i] = rows[n]
<1>1. spool \in Seq(Rows) /\ Len(spool) \in Nat /\ DOMAIN spool = 1..Len(spool)
  BY SpoolIsSeq, LenProperties
<1>2. Len(rows) \in Nat
  BY LenProperties
<1>3. /\ spool' \in Seq(Rows)
      /\ Len(spool') = Len(spool) + Len(rows)
      /\ \A i \in 1..(Len(spool) + Len(rows)) :
           spool'[i] = IF i <= Len(spool) THEN spool[i] ELSE rows[i - Len(spool)]
  BY <1>1, ConcatProperties
<1>4. DOMAIN spool' = 1..(Len(spool) + Len(rows))
  BY <1>3, LenProperties
<1>5. \A i \in DOMAIN spool : i \in DOMAIN spool' /\ spool'[i] = spool[i]
  BY <1>1, <1>2, <1>3, <1>4
<1>6. ASSUME NEW n \in 1..Len(rows)
      PROVE  Len(spool) + n \in DOMAIN spool' /\ spool'[Len(spool) + n] = rows[n]
  BY <1>1, <1>2, <1>3, <1>4
<1>7. ASSUME NEW i \in DOMAIN spool' \ DOMAIN spool
      PROVE  \E n \in 1..Len(rows) : spool'[i] = rows[n]
  <2>1. i - Len(spool) \in 1..Len(rows) /\ spool'[i] = rows[i - Len(spool)]
    BY <1>1, <1>2, <1>3, <1>4
  <2> QED
    BY <2>1
<1> QED
  BY <1>3, <1>5, <1>6, <1>7 DEF Grows

\* The facts a stop leaves behind, the first k of them as rows.
LEMMA FirstRows ==
  ASSUME NEW s \in Seq(Event), NEW k \in 0..Len(s)
  PROVE  /\ [n \in 1..k |-> Row(s[n])] \in Seq(Rows)
         /\ Len([n \in 1..k |-> Row(s[n])]) = k
<1>1. k \in Nat /\ \A n \in 1..k : s[n] \in Event
  BY LenProperties, ElementOfSeq
<1>2. [n \in 1..k |-> Row(s[n])] \in [1..k -> Rows]
  BY <1>1, RowIsRow
<1> QED
  BY <1>1, <1>2, SeqDef

\* high is a number.
LEMMA HigherIsNat == ASSUME TypeOK, NEW n \in Nat PROVE Higher(n) \in Nat
<1>1. IsFiniteSet(Held)
  <2>1. Len(spool) \in Nat /\ Held \subseteq 1..Len(spool)
    BY SpoolIsSeq, LenProperties DEF Held
  <2>2. IsFiniteSet(1..Len(spool))
    BY <2>1, FS_Interval
  <2> QED
    BY <2>1, <2>2, FS_Subset
<1>2. Cardinality(Held) \in Nat
  BY <1>1, FS_CardinalityType
<1>3. high \in Nat
  BY DEF TypeOK
<1> QED
  BY <1>2, <1>3 DEF Higher

-----------------------------------------------------------------------------
\* The initial state

LEMMA InitInv == Init => IInv
<1> SUFFICES ASSUME Init PROVE IInv
  OBVIOUS
<1>1. spool = <<>> /\ DOMAIN spool = {} /\ spool \in Seq(Rows) /\ facts \in Seq(Event) /\ waiting \in Seq(Event)
  BY EmptySeq, LenProperties DEF Init
<1>2. TypeOK
  BY <1>1 DEF Init, TypeOK, Rows, Event, NoAck, Nothing
<1>3. Places
  BY DEF Init, Places, NotAhead, NoAck, Nothing
<1>4. Durable
  BY DEF Init, Durable, StoredUpTo, NoAck
<1>5. Settled
  BY <1>1 DEF Init, Settled, FinalBeforeForgotten, RowsIn
<1> QED
  BY <1>2, <1>3, <1>4, <1>5 DEF IInv

-----------------------------------------------------------------------------
\* Types; and rows stay where they are

\* New rows are pending, the others as they were.
NewArePending ==
  \A i \in DOMAIN spool' :
    spool'[i].st = "pending" \/ (i \in DOMAIN spool /\ spool'[i] = spool[i])

LEMMA MoreRows ==
  ASSUME TypeOK, NEW rows \in Seq(Rows), \A n \in 1..Len(rows) : rows[n].st = "pending",
         spool' = spool \o rows
  PROVE  spool' \in Seq(Rows) /\ Grows /\ NewArePending
<1>1. \A i \in DOMAIN spool : spool'[i] = spool[i]
  BY AddedRows
<1>2. \A i \in DOMAIN spool' \ DOMAIN spool : spool'[i].st = "pending"
  <2>1. ASSUME NEW i \in DOMAIN spool' \ DOMAIN spool PROVE spool'[i].st = "pending"
    <3>1. PICK n \in 1..Len(rows) : spool'[i] = rows[n]
      BY AddedRows
    <3> QED
      BY <3>1
  <2> QED
    BY <2>1
<1>3. NewArePending
  <2>1. ASSUME NEW i \in DOMAIN spool'
        PROVE  spool'[i].st = "pending" \/ (i \in DOMAIN spool /\ spool'[i] = spool[i])
    <3>1. CASE i \in DOMAIN spool
      BY <1>1, <3>1
    <3>2. CASE i \notin DOMAIN spool
      BY <1>2, <2>1, <3>2
    <3> QED
      BY <3>1, <3>2
  <2> QED
    BY <2>1 DEF NewArePending
<1>4. spool' \in Seq(Rows) /\ Grows
  BY AddedRows
<1> QED
  BY <1>3, <1>4

\* What refers to rows still does.
LEMMA RowsOfForwarder ==
  ASSUME TypeOK, Grows, UNCHANGED <<batch, receipts, wire>>
  PROVE  batch' \subseteq DOMAIN spool' /\ receipts' \subseteq batch' /\ wire' \subseteq SUBSET DOMAIN spool'
<1>1. DOMAIN spool \subseteq DOMAIN spool'
  BY DEF Grows
<1>2. SUBSET DOMAIN spool \subseteq SUBSET DOMAIN spool'
  BY <1>1
<1> QED
  BY <1>1, <1>2 DEF TypeOK

LEMMA WorkerStoresType ==
  ASSUME IInv, WorkerStores PROVE TypeOK' /\ Grows /\ NewArePending
<1> DEFINE new == <<Row(Head(waiting))>>
<1>0. TypeOK
  BY DEF IInv
<1>1. Head(waiting) \in Event /\ Tail(waiting) \in Seq(Event)
  BY <1>0, HeadTailProperties DEF TypeOK, WorkerStores
<1>2. Row(Head(waiting)) \in Rows /\ Row(Head(waiting)).st = "pending"
  BY <1>1, RowIsRow
<1>3. new \in Seq(Rows) /\ Len(new) = 1 /\ new[1] = Row(Head(waiting))
  BY <1>2
<1>4. spool' = spool \o new
  BY <1>0, <1>2, SpoolIsSeq, AppendIsConcat DEF WorkerStores
<1>5. high' \in Nat
  BY <1>0, HigherIsNat DEF WorkerStores
<1>6. spool' \in Seq(Rows) /\ Grows /\ NewArePending
  <2>1. \A n \in 1..Len(new) : new[n].st = "pending"
    BY <1>2, <1>3
  <2> HIDE DEF new
  <2> QED
    BY <1>0, <1>3, <1>4, <2>1, MoreRows
<1>7. UNCHANGED <<batch, receipts, wire>>
  BY DEF WorkerStores, forwarder, service
<1>8. batch' \subseteq DOMAIN spool' /\ receipts' \subseteq batch' /\ wire' \subseteq SUBSET DOMAIN spool'
  BY <1>0, <1>6, <1>7, RowsOfForwarder
<1>9. TypeOK'
  BY <1>0, <1>1, <1>5, <1>6, <1>8
  DEF TypeOK, Rows, WorkerStores, AfterStore, link, sampler, forwarder, service
<1> QED
  BY <1>6, <1>9

\* The rows of a read.
LEMMA ReadRows ==
  ASSUME IInv
  PROVE  LET rows == [n \in 1..ReadCount |-> Row(ReadEvent(n))]
         IN  /\ ReadCount \in Nat
             /\ rows \in Seq(Rows) /\ Len(rows) = ReadCount
             /\ \A n \in 1..ReadCount : ReadEvent(n) \in Event /\ rows[n] = Row(ReadEvent(n))
<1>1. read.from \in Nat /\ read.to \in Nat /\ read.epoch \in Nat /\ read.from >= 1
      /\ read.from <= read.to + 1
  BY DEF IInv, TypeOK, Places
<1>2. ReadCount \in Nat
  BY <1>1 DEF ReadCount
<1>3. \A n \in 1..ReadCount : ReadEvent(n) \in Event
  BY <1>1, <1>2 DEF ReadEvent, Event
<1>4. [n \in 1..ReadCount |-> Row(ReadEvent(n))] \in [1..ReadCount -> Rows]
  BY <1>3, RowIsRow
<1> QED
  BY <1>2, <1>3, <1>4, SeqDef

LEMMA WorkerAppendsType ==
  ASSUME IInv, WorkerAppends PROVE TypeOK' /\ Grows /\ NewArePending
<1> DEFINE rows == [n \in 1..ReadCount |-> Row(ReadEvent(n))]
<1>0. TypeOK
  BY DEF IInv
<1>1. rows \in Seq(Rows) /\ ReadCount \in Nat /\ Len(rows) = ReadCount
      /\ \A n \in 1..Len(rows) : rows[n].st = "pending"
  BY ReadRows, RowIsRow
<1>2. spool' = spool \o rows
  BY DEF WorkerAppends
<1>3. spool' \in Seq(Rows) /\ Grows /\ NewArePending
  <2> HIDE DEF rows
  <2> QED
    BY <1>0, <1>1, <1>2, MoreRows
<1>4. high' \in Nat
  BY <1>0, <1>1, HigherIsNat DEF WorkerAppends
<1>5. UNCHANGED <<batch, receipts, wire>>
  BY DEF WorkerAppends, forwarder, service
<1>6. batch' \subseteq DOMAIN spool' /\ receipts' \subseteq batch' /\ wire' \subseteq SUBSET DOMAIN spool'
  BY <1>0, <1>3, <1>5, RowsOfForwarder
<1>7. cursor' \in [epoch : Nat, pos : Nat]
  BY <1>0 DEF WorkerAppends, NewPos, TypeOK
<1> HIDE DEF rows
<1>8. TypeOK'
  BY <1>0, <1>3, <1>4, <1>6, <1>7
  DEF TypeOK, Rows, WorkerAppends, link, sampler, forwarder, service
<1> QED
  BY <1>3, <1>8

LEMMA StoppedCleanlyType ==
  ASSUME IInv, StoppedCleanly PROVE TypeOK' /\ Grows /\ NewArePending
<1> DEFINE left == waiting \o facts
<1>0. TypeOK
  BY DEF IInv
<1>1. left \in Seq(Event)
  BY <1>0, ConcatProperties DEF TypeOK
<1>2. PICK k \in 0..Len(left) :
        /\ spool' = spool \o [n \in 1..k |-> Row(left[n])]
        /\ high' = Higher(k)
        /\ dropped' = dropped \cup {left[n] : n \in (k + 1)..Len(left)}
  BY DEF StoppedCleanly
<1> DEFINE rows == [n \in 1..k |-> Row(left[n])]
<1>3. k \in Nat /\ Len(left) \in Nat /\ \A n \in 1..Len(left) : left[n] \in Event
  BY <1>1, LenProperties, ElementOfSeq
<1> HIDE DEF left
<1>4. rows \in Seq(Rows) /\ Len(rows) = k
  BY <1>1, FirstRows
<1>5. \A n \in 1..Len(rows) : rows[n].st = "pending"
  BY <1>3, <1>4, RowIsRow
<1>6. spool' \in Seq(Rows) /\ Grows /\ NewArePending
  <2>1. spool' = spool \o rows
    BY <1>2
  <2> HIDE DEF rows
  <2> QED
    BY <1>0, <1>4, <1>5, <2>1, MoreRows
<1>7. high' \in Nat
  BY <1>0, <1>2, <1>3, HigherIsNat
<1>8. dropped' \subseteq Event
  <2>1. dropped \subseteq Event
    BY <1>0 DEF TypeOK
  <2>2. (k + 1)..Len(left) \subseteq 1..Len(left)
    BY <1>3
  <2> QED
    BY <1>2, <1>3, <2>1, <2>2
<1>9. facts' \in Seq(Event) /\ waiting' \in Seq(Event)
  BY EmptySeq DEF StoppedCleanly, Restarted
<1>10. wire' \subseteq SUBSET DOMAIN spool'
  <2>1. DOMAIN spool \subseteq DOMAIN spool' /\ wire' = wire
    BY <1>6 DEF Grows, StoppedCleanly, Restarted, service
  <2> QED
    BY <1>0, <2>1 DEF TypeOK
<1>11. /\ wpc' = "collect" /\ read' = Nothing
       /\ fpc' = "idle" /\ batch' = {} /\ receipts' = {}
       /\ UNCHANGED <<outbox, ack, cursor, cycles, final>>
       /\ restarts' = restarts + 1
  BY DEF StoppedCleanly, Restarted, link, service
<1>12. TypeOK'
  <2>1. read' \in [epoch : Nat, from : Nat, to : Nat]
    BY <1>11 DEF Nothing
  <2>2. restarts' \in Nat
    BY <1>0, <1>11 DEF TypeOK
  <2>3. batch' \subseteq DOMAIN spool' /\ receipts' \subseteq batch'
    BY <1>11
  <2> QED
    BY <1>0, <1>6, <1>7, <1>8, <1>9, <1>10, <1>11, <2>1, <2>2, <2>3 DEF TypeOK, Rows
<1> QED
  BY <1>6, <1>12

LEMMA KilledType ==
  ASSUME IInv, Killed PROVE TypeOK' /\ Grows /\ NewArePending
<1>0. TypeOK
  BY DEF IInv
<1>1. /\ wpc' = "collect" /\ read' = Nothing
      /\ fpc' = "idle" /\ batch' = {} /\ receipts' = {}
      /\ UNCHANGED <<outbox, ack, spool, cursor, high, cycles, wire, final>>
      /\ restarts' = restarts + 1
      /\ facts' = <<>> /\ waiting' = <<>>
  BY DEF Killed, Restarted, link, service
<1>2. Elements(waiting) \subseteq Event /\ Elements(facts) \subseteq Event
  <2>1. /\ \A i \in DOMAIN waiting : waiting[i] \in Event
        /\ \A i \in DOMAIN facts : facts[i] \in Event
    BY <1>0, ElementOfSeq, LenProperties DEF TypeOK
  <2> QED
    BY <2>1 DEF Elements
<1>3. dropped' \subseteq Event
  BY <1>0, <1>2 DEF Killed, TypeOK
<1>4. facts' \in Seq(Event) /\ waiting' \in Seq(Event)
  BY <1>1, EmptySeq
<1> QED
  BY <1>0, <1>1, <1>3, <1>4 DEF TypeOK, Nothing, Grows, NewArePending

LEMMA CycleEndsType ==
  ASSUME IInv, CycleEnds PROVE TypeOK'
<1>0. TypeOK
  BY DEF IInv
<1>1. cycles' \in Nat /\ Cycle(cycles') \in Event
  BY <1>0, CycleIsEvent DEF TypeOK, CycleEnds
<1>2. facts' \in Seq(Event) /\ dropped' \subseteq Event
  <2>1. Append(facts, Cycle(cycles')) \in Seq(Event)
    BY <1>0, <1>1, AppendProperties DEF TypeOK
  <2> QED
    BY <1>0, <1>1, <2>1 DEF TypeOK, CycleEnds
<1>3. UNCHANGED <<outbox, ack, spool, cursor, high, waiting, wpc, read, fpc, batch,
                  receipts, wire, final, restarts>>
  BY DEF CycleEnds, link, disk, worker, forwarder, service
<1> QED
  BY <1>0, <1>1, <1>2, <1>3 DEF TypeOK

LEMMA WorkerCollectsType ==
  ASSUME IInv, WorkerCollects PROVE TypeOK'
<1>0. TypeOK
  BY DEF IInv
<1>1. waiting' \in Seq(Event) /\ facts' \in Seq(Event)
  BY <1>0, ConcatProperties, EmptySeq DEF TypeOK, WorkerCollects
<1> QED
  BY <1>0, <1>1 DEF TypeOK, WorkerCollects, link, disk, forwarder, service

LEMMA WorkerStoreRefusedType ==
  ASSUME IInv, WorkerStoreRefused PROVE TypeOK'
<1>0. TypeOK
  BY DEF IInv
<1>1. Head(waiting) \in Event /\ Tail(waiting) \in Seq(Event)
  BY <1>0, HeadTailProperties DEF TypeOK, WorkerStoreRefused
<1>2. waiting' \in Seq(Event) /\ dropped' \subseteq Event
  BY <1>0, <1>1 DEF TypeOK, WorkerStoreRefused
<1> QED
  BY <1>0, <1>2 DEF TypeOK, WorkerStoreRefused, link, disk, forwarder, service

LEMMA WorkerReadsType ==
  ASSUME IInv, WorkerReads
  PROVE  /\ TypeOK' /\ Places'
         /\ read'.epoch = outbox.epoch /\ read'.from = Larger(ReadPos, outbox.low) + 1
<1>0. TypeOK /\ Places
  BY DEF IInv
<1>1. ReadPos \in Nat /\ outbox.low \in Nat /\ outbox.last \in Nat /\ outbox.epoch \in Nat
      /\ ReadPos < outbox.last /\ outbox.low <= outbox.last /\ ReadBatch \in Nat \ {0}
  BY <1>0, SizesAssumption DEF TypeOK, Places, WorkerReads, ReadPos
<1>2. /\ read'.epoch = outbox.epoch
      /\ read'.from = Larger(ReadPos, outbox.low) + 1
      /\ read'.to = Smaller(read'.from + ReadBatch - 1, outbox.last)
      /\ read' = [epoch |-> read'.epoch, from |-> read'.from, to |-> read'.to]
  BY DEF WorkerReads
<1>3. /\ read'.from \in Nat /\ read'.to \in Nat /\ read'.epoch \in Nat
      /\ read'.from >= 1 /\ read'.from <= read'.to + 1
      /\ read'.to <= outbox.last
  BY <1>1, <1>2 DEF Larger, Smaller
<1>4. read' \in [epoch : Nat, from : Nat, to : Nat]
  BY <1>2, <1>3
<1>5. /\ UNCHANGED <<outbox, ack, spool, cursor, high, cycles, facts, dropped, waiting,
                     fpc, batch, receipts, wire, final, restarts>>
      /\ wpc' = "append"
  BY DEF WorkerReads, AfterRead, link, disk, sampler, forwarder, service
<1>6. TypeOK'
  BY <1>0, <1>4, <1>5 DEF TypeOK
<1>7. Places'
  BY <1>0, <1>1, <1>2, <1>3, <1>5 DEF Places, NotAhead
<1> QED
  BY <1>2, <1>6, <1>7

LEMMA WorkerPrunesType ==
  ASSUME IInv, WorkerPrunes
  PROVE  /\ TypeOK' /\ Grows
         /\ \E k \in Prunable : spool' = [spool EXCEPT ![k].st = "pruned"]
<1>0. TypeOK
  BY DEF IInv
<1>1. PICK k \in Prunable : spool' = [spool EXCEPT ![k].st = "pruned"]
  BY DEF WorkerPrunes
<1>2. k \in DOMAIN spool /\ spool \in Seq(Rows) /\ DOMAIN spool = 1..Len(spool) /\ Len(spool) \in Nat
  BY <1>0, SpoolIsSeq, LenProperties DEF Prunable, RowsIn
<1>3. spool \in [1..Len(spool) -> Rows]
  BY <1>2, LenProperties
<1>4. spool' \in [1..Len(spool) -> Rows]
  BY <1>1, <1>2, <1>3 DEF Rows
<1>5. spool' \in Seq(Rows)
  BY <1>2, <1>4, SeqDef
<1>6. Grows /\ DOMAIN spool' = DOMAIN spool
  BY <1>1, <1>2, <1>3, <1>4 DEF Grows, Rows
<1>7. UNCHANGED <<outbox, ack, cursor, high, cycles, facts, dropped, waiting, wpc, read,
                  fpc, batch, receipts, wire, final, restarts>>
  BY DEF WorkerPrunes, link, sampler, worker, forwarder, service
<1>8. TypeOK'
  BY <1>0, <1>5, <1>6, <1>7 DEF TypeOK, Rows
<1> QED
  BY <1>1, <1>6, <1>8

LEMMA ForwarderAcksType ==
  ASSUME IInv, ForwarderAcks PROVE TypeOK' /\ Grows
<1>0. TypeOK
  BY DEF IInv
<1>2. spool \in Seq(Rows) /\ DOMAIN spool = 1..Len(spool) /\ Len(spool) \in Nat
  BY <1>0, SpoolIsSeq, LenProperties
<1>3. spool \in [1..Len(spool) -> Rows]
  BY <1>2, LenProperties
<1>4. \A i \in 1..Len(spool) : [spool[i] EXCEPT !.st = "acked"] \in Rows
                               /\ [spool[i] EXCEPT !.st = "acked"].ev = spool[i].ev
  BY <1>3 DEF Rows
<1>5. spool' \in [1..Len(spool) -> Rows]
  BY <1>2, <1>3, <1>4 DEF ForwarderAcks
<1>6. spool' \in Seq(Rows)
  BY <1>2, <1>5, SeqDef
<1>7. Grows /\ DOMAIN spool' = DOMAIN spool
  BY <1>2, <1>4, <1>5 DEF Grows, ForwarderAcks
<1>8. /\ UNCHANGED <<outbox, ack, cursor, high, cycles, facts, dropped, waiting, wpc, read,
                     wire, final, restarts>>
      /\ fpc' = "idle" /\ batch' = {} /\ receipts' = {}
  BY DEF ForwarderAcks, link, sampler, worker, service
<1>9. TypeOK'
  BY <1>0, <1>6, <1>7, <1>8 DEF TypeOK, Rows
<1> QED
  BY <1>7, <1>9

LEMMA ForwarderSendsType ==
  ASSUME IInv, ForwarderSends PROVE TypeOK'
<1>0. TypeOK
  BY DEF IInv
<1>1. OldestPending \subseteq DOMAIN spool
  BY DEF OldestPending, RowsIn
<1>2. receipts = {}
  BY DEF IInv, Settled, ForwarderSends
<1> QED
  BY <1>0, <1>1, <1>2 DEF TypeOK, ForwarderSends, link, disk, sampler, worker

\* The other steps change one or two variables of simple types.
LEMMA TypeStep ==
  ASSUME IInv, [Next]_vars PROVE TypeOK' /\ Grows
<1>0. TypeOK
  BY DEF IInv
<1> USE DEF link, disk, sampler, worker, forwarder, service
<1>1. ASSUME UNCHANGED spool PROVE Grows
  BY <1>1 DEF Grows
<1>2. CASE MillWrightAdds
  <2>1. outbox \in [epoch : Nat, low : Nat, last : Nat]
    BY <1>0 DEF TypeOK
  <2>2. outbox' = [epoch |-> outbox.epoch, low |-> outbox.low, last |-> outbox.last + 1]
    BY <1>2, <2>1 DEF MillWrightAdds
  <2>3. outbox' \in [epoch : Nat, low : Nat, last : Nat]
    BY <2>1, <2>2
  <2> QED
    BY <1>0, <1>1, <1>2, <2>3 DEF TypeOK, MillWrightAdds
<1>3. CASE MillWrightPrunes
  <2>1. outbox \in [epoch : Nat, low : Nat, last : Nat]
    BY <1>0 DEF TypeOK
  <2>2. outbox' = [epoch |-> outbox.epoch, low |-> outbox.low + 1, last |-> outbox.last]
    BY <1>3, <2>1 DEF MillWrightPrunes
  <2>3. outbox' \in [epoch : Nat, low : Nat, last : Nat]
    BY <2>1, <2>2
  <2> QED
    BY <1>0, <1>1, <1>3, <2>3 DEF TypeOK, MillWrightPrunes
<1>4. CASE MillWrightStartsAgain
  <2>1. outbox' \in [epoch : Nat, low : Nat, last : Nat]
    BY <1>0, <1>4 DEF TypeOK, MillWrightStartsAgain
  <2> QED
    BY <1>0, <1>1, <1>4, <2>1 DEF TypeOK, MillWrightStartsAgain
<1>5. CASE CycleEnds
  BY <1>1, <1>5, CycleEndsType DEF CycleEnds
<1>6. CASE WorkerCollects
  BY <1>1, <1>6, WorkerCollectsType DEF WorkerCollects
<1>7. CASE WorkerStores
  BY <1>7, WorkerStoresType
<1>8. CASE WorkerStoreRefused
  BY <1>1, <1>8, WorkerStoreRefusedType DEF WorkerStoreRefused
<1>9. CASE WorkerStoredAll
  BY <1>0, <1>1, <1>9 DEF TypeOK, WorkerStoredAll
<1>10. CASE WorkerReads
  BY <1>1, <1>10, WorkerReadsType DEF WorkerReads
<1>11. CASE WorkerReadsNothing
  <2>1. ack' \in [epoch : Nat, seq : Nat]
    BY <1>0, <1>11 DEF TypeOK, WorkerReadsNothing, AckAgain
  <2> QED
    BY <1>0, <1>1, <1>11, <2>1 DEF TypeOK, WorkerReadsNothing, AckAgain
<1>12. CASE WorkerAppends
  BY <1>12, WorkerAppendsType
<1>13. CASE WorkerAppendRefused
  BY <1>0, <1>1, <1>13 DEF TypeOK, WorkerAppendRefused, AfterRefused
<1>14. CASE WorkerAcks
  <2>1. ack' \in [epoch : Nat, seq : Nat]
    BY <1>0, <1>14 DEF TypeOK, WorkerAcks
  <2>2. wpc' \in {"collect", "store", "read", "append", "ack"}
    BY <1>14 DEF WorkerAcks
  <2> QED
    BY <1>0, <1>1, <1>14, <2>1, <2>2 DEF TypeOK, WorkerAcks
<1>15. CASE WorkerAckFails
  BY <1>0, <1>1, <1>15 DEF TypeOK, WorkerAckFails
<1>16. CASE WorkerPrunes
  BY <1>16, WorkerPrunesType
<1>17. CASE ForwarderSends
  BY <1>1, <1>17, ForwarderSendsType DEF ForwarderSends
<1>18. ASSUME NEW b \in wire, ServiceHandles(b) PROVE TypeOK' /\ Grows
  <2>1. PICK n \in 0..Cardinality(b) :
          /\ final' = final \cup {spool[i].ev : i \in First(b, n)}
          /\ IF fpc = "waiting" /\ batch = b
               THEN fpc' = "answered" /\ receipts' = First(b, n)
               ELSE UNCHANGED <<fpc, receipts>>
    BY <1>18 DEF ServiceHandles
  <2>2. b \subseteq DOMAIN spool /\ First(b, n) \subseteq b
    BY <1>0 DEF TypeOK, First
  <2>3. \A i \in DOMAIN spool : spool[i].ev \in Event
    <3>1. \A i \in DOMAIN spool : spool[i] \in Rows
      BY <1>0, SpoolIsSeq, ElementOfSeq
    <3> QED
      BY <3>1 DEF Rows
  <2>4. final' \subseteq Event
    BY <1>0, <2>1, <2>2, <2>3 DEF TypeOK
  <2>5. /\ UNCHANGED <<outbox, ack, spool, cursor, high, cycles, facts, dropped, waiting,
                       wpc, read, batch, restarts>>
        /\ wire' = wire \ {b}
    BY <1>18 DEF ServiceHandles
  <2>6. fpc' \in {"idle", "waiting", "answered"} /\ receipts' \subseteq batch'
    BY <1>0, <2>1, <2>2, <2>5 DEF TypeOK
  <2> QED
    BY <1>0, <1>1, <2>4, <2>5, <2>6 DEF TypeOK
<1>19. ASSUME NEW b \in wire, NetworkLoses(b) PROVE TypeOK' /\ Grows
  BY <1>0, <1>1, <1>19 DEF TypeOK, NetworkLoses
<1>20. CASE ForwarderAcks
  BY <1>20, ForwarderAcksType
<1>21. CASE ForwarderGivesUp
  BY <1>0, <1>1, <1>21 DEF TypeOK, ForwarderGivesUp
<1>22. CASE Killed
  BY <1>22, KilledType
<1>23. CASE StoppedCleanly
  BY <1>23, StoppedCleanlyType
<1>24. CASE UNCHANGED vars
  BY <1>0, <1>1, <1>24 DEF TypeOK, vars
<1> QED
  BY <1>2, <1>3, <1>4, <1>5, <1>6, <1>7, <1>8, <1>9, <1>10, <1>11, <1>12, <1>13, <1>14,
     <1>15, <1>16, <1>17, <1>18, <1>19, <1>20, <1>21, <1>22, <1>23, <1>24
  DEF Next, Worker

-----------------------------------------------------------------------------
\* Places

\* A place stays behind the outbox while the outbox only grows or starts again.
LEMMA OutboxMovesOn ==
  ASSUME IInv, [Next]_vars
  PROVE  /\ outbox'.low <= outbox'.last
         /\ \A epoch, seq \in Nat : NotAhead(epoch, seq) => NotAhead(epoch, seq)'
<1>0. TypeOK /\ Places
  BY DEF IInv
<1> USE DEF link
<1>1. CASE MillWrightAdds
  <2>1. /\ outbox' = [outbox EXCEPT !.last = @ + 1] /\ outbox.low <= outbox.last
        /\ outbox \in [epoch : Nat, low : Nat, last : Nat]
    BY <1>0, <1>1 DEF TypeOK, Places, MillWrightAdds
  <2>2. outbox'.epoch = outbox.epoch /\ outbox'.low = outbox.low
        /\ outbox'.last = outbox.last + 1
    BY <2>1
  <2>3. outbox.low \in Nat /\ outbox.last \in Nat
    BY <2>1
  <2> QED
    BY <2>1, <2>2, <2>3 DEF NotAhead
<1>2. CASE MillWrightPrunes
  <2>1. /\ outbox' = [outbox EXCEPT !.low = @ + 1]
        /\ outbox \in [epoch : Nat, low : Nat, last : Nat]
        /\ ack \in [epoch : Nat, seq : Nat]
        /\ outbox.low < ack.seq /\ ack.seq <= outbox.last
    BY <1>0, <1>2 DEF TypeOK, Places, NotAhead, MillWrightPrunes
  <2>2. outbox'.epoch = outbox.epoch /\ outbox'.low = outbox.low + 1
        /\ outbox'.last = outbox.last
    BY <2>1
  <2>3. outbox.low \in Nat /\ outbox.last \in Nat /\ ack.seq \in Nat
    BY <2>1
  <2> QED
    BY <2>1, <2>2, <2>3 DEF NotAhead
<1>3. CASE MillWrightStartsAgain
  BY <1>0, <1>3 DEF TypeOK, Places, NotAhead, MillWrightStartsAgain
<1>4. CASE UNCHANGED outbox
  BY <1>0, <1>4 DEF Places, NotAhead
<1>5. MillWrightAdds \/ MillWrightPrunes \/ MillWrightStartsAgain \/ UNCHANGED outbox
  BY DEF Next, Worker, CycleEnds, WorkerCollects, WorkerStores, WorkerStoreRefused,
         WorkerStoredAll, WorkerReads, WorkerReadsNothing, WorkerAppends,
         WorkerAppendRefused, WorkerAcks, WorkerAckFails, WorkerPrunes, ForwarderSends,
         ServiceHandles, NetworkLoses, ForwarderAcks, ForwarderGivesUp, Killed,
         StoppedCleanly, Restarted, vars
<1> QED
  BY <1>1, <1>2, <1>3, <1>4, <1>5

\* Every place is left alone, started again, or moved to one that was behind.
LEMMA PlacesStep ==
  ASSUME IInv, [Next]_vars PROVE Places'
<1>0. TypeOK /\ Places
  BY DEF IInv
<1> DEFINE Kept == ack' = ack /\ cursor' = cursor /\ read' = read
<1>1. /\ ack.epoch \in Nat /\ ack.seq \in Nat /\ cursor.epoch \in Nat /\ cursor.pos \in Nat
      /\ read.epoch \in Nat /\ read.from \in Nat /\ read.to \in Nat
  BY <1>0 DEF TypeOK
<1>2. /\ NotAhead(ack.epoch, ack.seq)' \/ ack' # ack
      /\ NotAhead(cursor.epoch, cursor.pos)' \/ cursor' # cursor
      /\ NotAhead(read.epoch, read.to)' \/ read' # read
  BY <1>0, <1>1, OutboxMovesOn DEF Places, NotAhead
<1>3. CASE Kept
  BY <1>0, <1>2, <1>3, OutboxMovesOn DEF Places
<1>4. CASE WorkerReads
  BY <1>4, WorkerReadsType
<1>5. CASE WorkerReadsNothing
  BY <1>0, <1>5 DEF Places, NotAhead, WorkerReadsNothing, AckAgain, disk
<1>6. CASE WorkerAppends
  BY <1>0, <1>6 DEF Places, NotAhead, WorkerAppends, NewPos, link
<1>7. CASE WorkerAcks
  BY <1>0, <1>7 DEF Places, NotAhead, WorkerAcks, disk
<1>8. CASE Restarted
  BY <1>0, <1>8 DEF Places, NotAhead, Restarted, Nothing, link, TypeOK
<1>9. Kept \/ WorkerReads \/ WorkerReadsNothing \/ WorkerAppends \/ WorkerAcks \/ Restarted
  BY DEF Next, Worker, MillWrightAdds, MillWrightPrunes, MillWrightStartsAgain, CycleEnds,
         WorkerCollects, WorkerStores, WorkerStoreRefused, WorkerStoredAll,
         WorkerAppendRefused, WorkerAckFails, WorkerPrunes, ForwarderSends,
         ServiceHandles, NetworkLoses, ForwarderAcks, ForwarderGivesUp, Killed,
         StoppedCleanly, vars, link, disk, worker
<1> QED
  BY <1>3, <1>4, <1>5, <1>6, <1>7, <1>8, <1>9

-----------------------------------------------------------------------------
\* Durable

LEMMA StoredStays ==
  ASSUME IInv, [Next]_vars
  PROVE  /\ Stored \subseteq Stored'
         /\ \A epoch, seq : StoredUpTo(epoch, seq) => StoredUpTo(epoch, seq)'
<1>1. Grows
  BY TypeStep
<1>2. Stored \subseteq Stored'
  BY <1>1 DEF Grows, Stored
<1> QED
  BY <1>2 DEF StoredUpTo

\* An append stores the read it made, from the first row to the last.
LEMMA AppendStores ==
  ASSUME IInv, WorkerAppends
  PROVE  StoredUpTo(read.epoch, read.to)'
<1> DEFINE rows == [n \in 1..ReadCount |-> Row(ReadEvent(n))]
<1>0. TypeOK /\ Places /\ StoredUpTo(read.epoch, read.from - 1)
  BY DEF IInv, Durable, WorkerAppends
<1>1. rows \in Seq(Rows) /\ ReadCount \in Nat /\ Len(rows) = ReadCount
      /\ \A n \in 1..ReadCount : ReadEvent(n) \in Event /\ rows[n] = Row(ReadEvent(n))
  BY ReadRows
<1>2. spool' = spool \o rows
  BY DEF WorkerAppends
<1>3. \A n \in 1..ReadCount : Row(ReadEvent(n)).ev = ReadEvent(n)
  BY DEF Row
<1> HIDE DEF rows
<1>4. \A n \in 1..ReadCount : ReadEvent(n) \in Stored'
  <2>1. ASSUME NEW n \in 1..ReadCount PROVE ReadEvent(n) \in Stored'
    <3>1. Len(spool) + n \in DOMAIN spool' /\ spool'[Len(spool) + n] = rows[n]
      BY <1>0, <1>1, <1>2, AddedRows
    <3>2. rows[n].ev = ReadEvent(n)
      BY <1>1, <1>3
    <3> QED
      BY <3>1, <3>2 DEF Stored
  <2> QED
    BY <2>1
<1>5. Stored \subseteq Stored'
  BY StoredStays DEF Next, Worker
<1>6. ASSUME NEW s \in 1..read.to PROVE [epoch |-> read.epoch, seq |-> s] \in Stored'
  <2>1. read.from \in Nat /\ read.to \in Nat /\ read.from >= 1 /\ s \in Nat
    BY <1>0 DEF TypeOK, Places
  <2>2. CASE s < read.from
    <3>1. s \in 1..(read.from - 1)
      BY <2>1, <2>2
    <3> QED
      BY <1>0, <1>5, <3>1 DEF StoredUpTo
  <2>3. CASE s >= read.from
    <3>1. s - read.from + 1 \in 1..ReadCount
      BY <2>1, <2>3 DEF ReadCount
    <3>2. ReadEvent(s - read.from + 1) = [epoch |-> read.epoch, seq |-> s]
      BY <2>1 DEF ReadEvent
    <3> QED
      BY <1>4, <3>1, <3>2
  <2> QED
    BY <2>1, <2>2, <2>3
<1>7. read' = read
  BY DEF WorkerAppends
<1> QED
  BY <1>6, <1>7 DEF StoredUpTo

LEMMA DurableStep ==
  ASSUME IInv, [Next]_vars PROVE Durable'
<1>0. TypeOK /\ Places /\ Durable
  BY DEF IInv
<1>1. \A epoch, seq : StoredUpTo(epoch, seq) => StoredUpTo(epoch, seq)'
  BY StoredStays
<1> USE DEF link, disk, worker
<1>2. CASE UNCHANGED <<outbox, ack, cursor, read>> /\ wpc' \notin {"append", "ack"}
  BY <1>0, <1>1, <1>2 DEF Durable, StoredUpTo
<1>3. CASE UNCHANGED <<outbox, ack, cursor, read, wpc>>
  BY <1>0, <1>1, <1>3 DEF Durable, StoredUpTo
<1>4. CASE MillWrightAdds
  <2>1. outbox'.epoch = outbox.epoch /\ outbox'.low = outbox.low
    BY <1>0, <1>4 DEF TypeOK, MillWrightAdds
  <2>2. UNCHANGED <<ack, cursor, read, wpc>>
    BY <1>4 DEF MillWrightAdds, disk, worker
  <2> QED
    BY <1>0, <1>1, <2>1, <2>2 DEF Durable, StoredUpTo
<1>5. CASE MillWrightPrunes
  <2>1. outbox.low + 1 \in Nat /\ outbox.low + 1 <= ack.seq /\ ack.seq \in Nat
    <3>1. outbox \in [epoch : Nat, low : Nat, last : Nat] /\ ack \in [epoch : Nat, seq : Nat]
      BY <1>0 DEF TypeOK
    <3>2. outbox.low < ack.seq
      BY <1>5 DEF MillWrightPrunes
    <3> QED
      BY <3>1, <3>2
  <2>2. StoredUpTo(outbox.epoch, outbox.low + 1)
    BY <1>0, <1>5, <2>1 DEF Durable, StoredUpTo, MillWrightPrunes
  <2>3. outbox'.epoch = outbox.epoch /\ outbox'.low = outbox.low + 1
    BY <1>0, <1>5 DEF TypeOK, MillWrightPrunes
  <2>4. UNCHANGED <<ack, cursor, read, wpc, spool>>
    BY <1>5 DEF MillWrightPrunes
  <2> QED
    BY <1>0, <2>2, <2>3, <2>4 DEF Durable, StoredUpTo, Stored
<1>6. CASE MillWrightStartsAgain
  <2>1. UNCHANGED <<ack, cursor, read, wpc, spool>> /\ outbox'.low = 0
    BY <1>6 DEF MillWrightStartsAgain
  <2> QED
    BY <1>0, <2>1 DEF Durable, StoredUpTo, Stored
<1>7. CASE WorkerReads
  <2>1. read'.epoch = outbox.epoch /\ read'.from = Larger(ReadPos, outbox.low) + 1
    BY <1>7, WorkerReadsType
  <2>2. UNCHANGED <<outbox, ack, cursor, spool>> /\ wpc' = "append"
    BY <1>7 DEF WorkerReads, AfterRead
  <2>3. ReadPos \in Nat /\ outbox.low \in Nat /\ StoredUpTo(outbox.epoch, ReadPos)
    BY <1>0 DEF TypeOK, Durable, ReadPos, StoredUpTo
  <2>4. StoredUpTo(outbox.epoch, Larger(ReadPos, outbox.low))
    BY <1>0, <2>3 DEF Durable, Larger
  <2>5. read'.from - 1 = Larger(ReadPos, outbox.low)
    BY <2>1, <2>3 DEF Larger
  <2> QED
    BY <1>0, <2>1, <2>2, <2>4, <2>5 DEF Durable, StoredUpTo, Stored
<1>8. CASE WorkerReadsNothing
  <2>1. UNCHANGED <<outbox, cursor, read, spool>> /\ wpc' = "collect"
        /\ (ack' = ack \/ ack' = [epoch |-> cursor.epoch, seq |-> cursor.pos])
    BY <1>8 DEF WorkerReadsNothing, AckAgain
  <2> QED
    BY <1>0, <2>1 DEF Durable, StoredUpTo, Stored
<1>9. CASE WorkerAppends
  <2>1. StoredUpTo(read.epoch, read.to)'
    BY <1>9, AppendStores
  <2>2. /\ UNCHANGED <<outbox, ack, read>> /\ wpc' = "ack"
        /\ cursor'.epoch = read'.epoch /\ cursor'.pos = read'.to
    BY <1>9 DEF WorkerAppends, NewPos
  <2> QED
    BY <1>0, <1>1, <2>1, <2>2 DEF Durable, StoredUpTo
<1>10. CASE WorkerAcks
  <2>1. /\ UNCHANGED <<outbox, cursor, read, spool>> /\ wpc' \in {"read", "collect"}
        /\ ack'.epoch = cursor.epoch /\ ack'.seq = cursor.pos
    BY <1>0, <1>10 DEF WorkerAcks, Durable
  <2> QED
    BY <1>0, <2>1 DEF Durable, StoredUpTo, Stored
<1>11. CASE Restarted
  <2>1. UNCHANGED <<outbox, ack, cursor>> /\ wpc' = "collect"
    BY <1>11 DEF Restarted
  <2> QED
    BY <1>0, <1>1, <2>1 DEF Durable, StoredUpTo
<1>12. \/ UNCHANGED <<outbox, ack, cursor, read>> /\ wpc' \notin {"append", "ack"}
       \/ UNCHANGED <<outbox, ack, cursor, read, wpc>>
       \/ MillWrightAdds \/ MillWrightPrunes \/ MillWrightStartsAgain \/ WorkerReads
       \/ WorkerReadsNothing \/ WorkerAppends \/ WorkerAcks \/ Restarted
  BY DEF Next, Worker, CycleEnds,
         WorkerCollects, WorkerStores, WorkerStoreRefused, WorkerStoredAll,
         WorkerAppendRefused, AfterRefused, WorkerAckFails, WorkerPrunes, ForwarderSends,
         ServiceHandles, NetworkLoses, ForwarderAcks, ForwarderGivesUp, Killed,
         StoppedCleanly, vars
<1> QED
  BY <1>2, <1>3, <1>4, <1>5, <1>6, <1>7, <1>8, <1>9, <1>10, <1>11, <1>12

-----------------------------------------------------------------------------
\* Settled

\* New rows have nothing to be settled, and a verdict is not taken back.
LEMMA StaysSettled ==
  ASSUME IInv, Grows, NewArePending, TypeOK', final \subseteq final',
         receipts' \subseteq receipts, fpc' = fpc \/ receipts' = {}
  PROVE  Settled'
<1>1. TypeOK /\ Settled
  BY DEF IInv
<1>2. \A i \in receipts' : spool'[i].ev \in final'
  BY <1>1 DEF TypeOK, Settled, Grows
<1>3. ASSUME NEW i \in (RowsIn("acked") \cup RowsIn("pruned"))'
      PROVE  spool'[i].ev \in final'
  <2>1. i \in DOMAIN spool' /\ spool'[i].st \in {"acked", "pruned"}
    BY <1>3 DEF RowsIn
  <2>2. i \in DOMAIN spool /\ spool'[i] = spool[i]
    BY <2>1 DEF NewArePending
  <2>3. i \in RowsIn("acked") \cup RowsIn("pruned")
    BY <2>1, <2>2 DEF RowsIn
  <2> QED
    BY <1>1, <2>2, <2>3 DEF Settled, FinalBeforeForgotten
<1>4. fpc' # "answered" => receipts' = {}
  BY <1>1 DEF Settled
<1> QED
  BY <1>2, <1>3, <1>4 DEF Settled, FinalBeforeForgotten

LEMMA SettledStep ==
  ASSUME IInv, [Next]_vars PROVE Settled'
<1>0. TypeOK /\ Settled
  BY DEF IInv
<1>1. TypeOK' /\ Grows
  BY TypeStep
<1> USE DEF link, disk, worker, forwarder, service
<1>2. CASE UNCHANGED <<spool, final>> /\ (UNCHANGED <<fpc, receipts>> \/ receipts' = {})
  <2>1. NewArePending
    BY <1>2 DEF NewArePending
  <2> QED
    BY <1>1, <1>2, <2>1, StaysSettled
<1>3. CASE WorkerStores
  BY <1>1, <1>3, WorkerStoresType, StaysSettled DEF WorkerStores
<1>4. CASE WorkerAppends
  BY <1>1, <1>4, WorkerAppendsType, StaysSettled DEF WorkerAppends
<1>5. CASE StoppedCleanly
  <2>1. NewArePending
    BY <1>5, StoppedCleanlyType
  <2>2. UNCHANGED final /\ receipts' = {}
    BY <1>5 DEF StoppedCleanly, Restarted
  <2> QED
    BY <1>1, <2>1, <2>2, StaysSettled
<1>6. CASE WorkerPrunes
  <2>1. PICK k \in Prunable : spool' = [spool EXCEPT ![k].st = "pruned"]
    BY <1>6, WorkerPrunesType
  <2>2. spool[k].ev \in final
    BY <1>0, <2>1 DEF Prunable, Settled, FinalBeforeForgotten
  <2>3. UNCHANGED <<final, receipts, fpc>> /\ DOMAIN spool' = DOMAIN spool
    BY <1>6, <2>1 DEF WorkerPrunes
  <2>4. \A i \in DOMAIN spool : spool'[i].ev = spool[i].ev
    BY <1>1 DEF Grows
  <2>5. \A i \in receipts' : spool'[i].ev \in final'
    BY <1>0, <2>3, <2>4 DEF Settled, TypeOK
  <2>6. ASSUME NEW i \in (RowsIn("acked") \cup RowsIn("pruned"))'
        PROVE  spool'[i].ev \in final'
    <3>1. i \in DOMAIN spool /\ spool'[i].st \in {"acked", "pruned"}
      BY <2>3, <2>6 DEF RowsIn
    <3>2. CASE i = k
      BY <2>2, <2>3, <2>4, <3>1, <3>2
    <3>3. CASE i # k
      <4>1. spool'[i] = spool[i]
        BY <2>1, <3>1, <3>3
      <4>2. i \in RowsIn("acked") \cup RowsIn("pruned")
        BY <3>1, <4>1 DEF RowsIn
      <4> QED
        BY <1>0, <2>3, <4>1, <4>2 DEF Settled, FinalBeforeForgotten
    <3> QED
      BY <3>2, <3>3
  <2> QED
    BY <1>0, <2>3, <2>5, <2>6 DEF Settled, FinalBeforeForgotten
<1>7. ASSUME NEW b \in wire, ServiceHandles(b) PROVE Settled'
  <2>1. PICK n \in 0..Cardinality(b) :
          /\ final' = final \cup {spool[i].ev : i \in First(b, n)}
          /\ IF fpc = "waiting" /\ batch = b
               THEN fpc' = "answered" /\ receipts' = First(b, n)
               ELSE UNCHANGED <<fpc, receipts>>
    BY <1>7 DEF ServiceHandles
  <2>2. spool' = spool
    BY <1>7 DEF ServiceHandles
  <2>3. \A i \in receipts' : spool'[i].ev \in final'
    BY <1>0, <2>1, <2>2 DEF Settled
  <2>4. FinalBeforeForgotten'
    BY <1>0, <2>1, <2>2 DEF Settled, FinalBeforeForgotten, RowsIn
  <2> QED
    BY <1>0, <2>1, <2>3, <2>4 DEF Settled
<1>8. CASE ForwarderAcks
  <2>1. receipts' = {} /\ fpc' = "idle" /\ final' = final /\ DOMAIN spool' = DOMAIN spool
    BY <1>8 DEF ForwarderAcks
  <2>2. ASSUME NEW i \in (RowsIn("acked") \cup RowsIn("pruned"))'
        PROVE  spool'[i].ev \in final'
    <3>1. i \in DOMAIN spool /\ spool'[i].st \in {"acked", "pruned"} /\ spool'[i].ev = spool[i].ev
      BY <1>1, <2>1, <2>2 DEF RowsIn, Grows
    <3>2. CASE i \in receipts
      BY <1>0, <2>1, <3>1, <3>2 DEF Settled
    <3>3. CASE i \notin receipts
      <4>1. spool'[i] = spool[i]
        BY <1>8, <3>1, <3>3 DEF ForwarderAcks, Acknowledged
      <4>2. i \in RowsIn("acked") \cup RowsIn("pruned")
        BY <3>1, <4>1 DEF RowsIn
      <4> QED
        BY <1>0, <2>1, <4>1, <4>2 DEF Settled, FinalBeforeForgotten
    <3> QED
      BY <3>2, <3>3
  <2> QED
    BY <2>1, <2>2 DEF Settled, FinalBeforeForgotten
<1>9. \/ UNCHANGED <<spool, final>> /\ (UNCHANGED <<fpc, receipts>> \/ receipts' = {})
      \/ ForwarderSends
      \/ WorkerStores \/ WorkerAppends \/ StoppedCleanly \/ WorkerPrunes
      \/ (\E b \in wire : ServiceHandles(b)) \/ ForwarderAcks
  BY DEF Next, Worker, MillWrightAdds, MillWrightPrunes, MillWrightStartsAgain, CycleEnds,
         WorkerCollects, WorkerStoreRefused, WorkerStoredAll, WorkerReads,
         WorkerReadsNothing, WorkerAppendRefused, WorkerAcks, WorkerAckFails,
         NetworkLoses, ForwarderGivesUp, Killed, Restarted, vars
<1>10. CASE ForwarderSends
  BY <1>0, <1>10 DEF Settled, FinalBeforeForgotten, RowsIn, ForwarderSends
<1> QED
  BY <1>2, <1>3, <1>4, <1>5, <1>6, <1>7, <1>8, <1>9, <1>10

-----------------------------------------------------------------------------
\* The theorems

LEMMA StepInv == IInv /\ [Next]_vars => IInv'
  BY TypeStep, PlacesStep, DurableStep, SettledStep DEF IInv

THEOREM SpecInv == Spec => []IInv
  BY InitInv, StepInv, PTL DEF Spec

\* Types, whatever the sizes and bounds.
THEOREM SpecTypeOK == Spec => []TypeOK
<1>1. IInv => TypeOK
  BY DEF IInv
<1> QED
  BY <1>1, SpecInv, PTL

\* "Durable before acknowledged": what mes_ack.json covers is in the spool
\* (OutboxReader.step stores a read, then acknowledges it).
THEOREM SpecDurableBeforeAck == Spec => []DurableBeforeAck
<1>1. IInv => DurableBeforeAck
  BY DEF IInv, Durable, StoredUpTo, DurableBeforeAck
<1> QED
  BY <1>1, SpecInv, PTL

\* No event of MillWright's present outbox is lost between its outbox and
\* the spool.
THEOREM SpecNothingSkipped == Spec => []NothingSkipped
<1>1. IInv => NothingSkipped
  <2> SUFFICES ASSUME IInv, NEW s \in 1..outbox.last
               PROVE  [epoch |-> outbox.epoch, seq |-> s] \in InOutbox \cup Stored
    BY DEF NothingSkipped
  <2>1. outbox.low \in Nat /\ outbox.last \in Nat /\ s \in Nat
    BY DEF IInv, TypeOK
  <2>2. CASE s <= outbox.low
    BY <2>1, <2>2 DEF IInv, Durable, StoredUpTo
  <2>3. CASE s > outbox.low
    BY <2>1, <2>3 DEF InOutbox
  <2> QED
    BY <2>1, <2>2, <2>3
<1> QED
  BY <1>1, SpecInv, PTL

\* A row is acknowledged and deleted only after the service's verdict
\* (Forwarder._receipts, EventSpool.acknowledge and prune).
THEOREM SpecFinalBeforeForgotten == Spec => []FinalBeforeForgotten
<1>1. IInv => FinalBeforeForgotten
  BY DEF IInv, Settled
<1> QED
  BY <1>1, SpecInv, PTL

-----------------------------------------------------------------------------
\* The refinement of EventDelivery

\* Facts, waiting and given up are cycles that ended; verdicts are on events of
\* the spool; a read is of a database there was.
Whence ==
  /\ outbox.epoch >= 1
  /\ final \subseteq Stored
  /\ Elements(facts) \cup Elements(waiting) \cup dropped \subseteq {Cycle(n) : n \in 1..cycles}
  /\ wpc = "append" => read.epoch >= 1

LEMMA ElementsEmpty == Elements(<<>>) = {}
  BY DEF Elements

LEMMA ElementsConcat ==
  ASSUME NEW s \in Seq(Event), NEW t \in Seq(Event)
  PROVE  Elements(s \o t) = Elements(s) \cup Elements(t)
<1>1. /\ s \o t \in Seq(Event) /\ Len(s \o t) = Len(s) + Len(t)
      /\ \A i \in 1..(Len(s) + Len(t)) :
           (s \o t)[i] = IF i <= Len(s) THEN s[i] ELSE t[i - Len(s)]
  BY ConcatProperties
<1>2. /\ DOMAIN (s \o t) = 1..(Len(s) + Len(t)) /\ DOMAIN s = 1..Len(s) /\ DOMAIN t = 1..Len(t)
      /\ Len(s) \in Nat /\ Len(t) \in Nat
  BY <1>1, LenProperties
<1>3. ASSUME NEW i \in DOMAIN (s \o t) PROVE (s \o t)[i] \in Elements(s) \cup Elements(t)
  <2>1. CASE i <= Len(s)
    BY <1>1, <1>2, <2>1 DEF Elements
  <2>2. CASE i > Len(s)
    <3>1. i - Len(s) \in DOMAIN t /\ (s \o t)[i] = t[i - Len(s)]
      BY <1>1, <1>2, <2>2
    <3> QED
      BY <3>1 DEF Elements
  <2> QED
    BY <1>2, <2>1, <2>2
<1>4. ASSUME NEW i \in DOMAIN s PROVE s[i] \in Elements(s \o t)
  <2>1. i \in DOMAIN (s \o t) /\ (s \o t)[i] = s[i]
    BY <1>1, <1>2
  <2> QED
    BY <2>1 DEF Elements
<1>5. ASSUME NEW i \in DOMAIN t PROVE t[i] \in Elements(s \o t)
  <2>1. Len(s) + i \in DOMAIN (s \o t) /\ (s \o t)[Len(s) + i] = t[i]
    BY <1>1, <1>2
  <2> QED
    BY <2>1 DEF Elements
<1> QED
  BY <1>3, <1>4, <1>5 DEF Elements

LEMMA ElementsAppend ==
  ASSUME NEW s \in Seq(Event), NEW e \in Event
  PROVE  Elements(Append(s, e)) = Elements(s) \cup {e}
<1>1. Append(s, e) = s \o <<e>> /\ <<e>> \in Seq(Event)
  BY AppendIsConcat, EmptySeq
<1>2. Elements(<<e>>) = {e}
  BY DEF Elements
<1> QED
  BY <1>1, <1>2, ElementsConcat

LEMMA ElementsTail ==
  ASSUME NEW s \in Seq(Event), s # <<>>
  PROVE  /\ Head(s) \in Event /\ Tail(s) \in Seq(Event)
         /\ Elements(s) = {Head(s)} \cup Elements(Tail(s))
<1>1. /\ Head(s) \in Event /\ Tail(s) \in Seq(Event) /\ Head(s) = s[1]
      /\ Len(Tail(s)) = Len(s) - 1 /\ \A i \in 1..(Len(s) - 1) : Tail(s)[i] = s[i + 1]
  BY HeadTailProperties
<1>2. DOMAIN s = 1..Len(s) /\ Len(s) \in Nat /\ Len(s) # 0 /\ DOMAIN Tail(s) = 1..(Len(s) - 1)
  BY <1>1, LenProperties, EmptySeq
<1>3. ASSUME NEW i \in DOMAIN s PROVE s[i] \in {Head(s)} \cup Elements(Tail(s))
  <2>1. CASE i = 1
    BY <1>1, <2>1
  <2>2. CASE i # 1
    <3>1. i - 1 \in DOMAIN Tail(s) /\ Tail(s)[i - 1] = s[i]
      BY <1>1, <1>2, <2>2
    <3> QED
      BY <3>1 DEF Elements
  <2> QED
    BY <2>1, <2>2
<1>4. ASSUME NEW i \in DOMAIN Tail(s) PROVE Tail(s)[i] \in Elements(s)
  <2>1. i + 1 \in DOMAIN s /\ Tail(s)[i] = s[i + 1]
    BY <1>1, <1>2
  <2> QED
    BY <2>1 DEF Elements
<1>5. Head(s) \in Elements(s)
  <2>1. 1 \in DOMAIN s
    BY <1>2
  <2> QED
    BY <1>1, <2>1 DEF Elements
<1> QED
  BY <1>1, <1>3, <1>4, <1>5 DEF Elements

Queued == Elements(facts) \cup Elements(waiting)

\* The cycle that ends in this step, if one does.
Ended == IF cycles' = cycles + 1 THEN {Cycle(cycles + 1)} ELSE {}

\* What a step adds to the spool was queued, or read before it.
NewRowsFrom(source) == Stored' \subseteq Stored \cup source

LEMMA RowsAreFrom ==
  ASSUME TypeOK, NEW rows \in Seq(Rows), spool' = spool \o rows, NEW source,
         \A n \in 1..Len(rows) : rows[n].ev \in source
  PROVE  NewRowsFrom(source)
<1> SUFFICES ASSUME NEW i \in DOMAIN spool' PROVE spool'[i].ev \in Stored \cup source
  BY DEF NewRowsFrom, Stored
<1>1. CASE i \in DOMAIN spool
  BY <1>1, AddedRows DEF Stored
<1>2. CASE i \notin DOMAIN spool
  BY <1>2, AddedRows
<1> QED
  BY <1>1, <1>2

\* A fact leaves the queues for the spool or is given up; none gets in but the
\* cycle that ends.
QueueStep ==
  /\ Queued \subseteq Queued' \cup Stored' \cup dropped'
  /\ Queued' \subseteq Queued \cup Ended
  /\ dropped \subseteq dropped'
  /\ dropped' \subseteq dropped \cup Queued \cup Ended

LEMMA CycleEndsQueue ==
  ASSUME TypeOK, CycleEnds PROVE QueueStep
<1>1. facts \in Seq(Event) /\ Cycle(cycles + 1) \in Event
  BY CycleIsEvent DEF TypeOK
<1>2. /\ cycles' = cycles + 1 /\ waiting' = waiting
      /\ \/ facts' = Append(facts, Cycle(cycles + 1)) /\ dropped' = dropped
         \/ facts' = facts /\ dropped' = dropped \cup {Cycle(cycles + 1)}
  BY DEF CycleEnds, worker
<1>3. Ended = {Cycle(cycles + 1)}
  BY <1>2 DEF Ended
<1>4. CASE facts' = Append(facts, Cycle(cycles + 1)) /\ dropped' = dropped
  <2>1. Elements(facts') = Elements(facts) \cup {Cycle(cycles + 1)}
    BY <1>1, <1>4, ElementsAppend
  <2>2. Elements(facts)' = Elements(facts') /\ Elements(waiting)' = Elements(waiting)
    BY <1>2 DEF Elements
  <2> QED
    BY <1>3, <1>4, <2>1, <2>2 DEF QueueStep, Queued
<1>5. CASE facts' = facts /\ dropped' = dropped \cup {Cycle(cycles + 1)}
  <2>1. Elements(facts)' = Elements(facts) /\ Elements(waiting)' = Elements(waiting)
    BY <1>2, <1>5 DEF Elements
  <2> QED
    BY <1>3, <1>5, <2>1 DEF QueueStep, Queued
<1> QED
  BY <1>2, <1>4, <1>5

LEMMA WorkerCollectsQueue ==
  ASSUME TypeOK, WorkerCollects PROVE QueueStep
<1>1. Elements(waiting \o facts) = Elements(waiting) \cup Elements(facts)
  BY ElementsConcat DEF TypeOK
<1>2. waiting' = waiting \o facts /\ facts' = <<>> /\ dropped' = dropped
  BY DEF WorkerCollects
<1>3. Elements(waiting)' = Elements(waiting \o facts) /\ Elements(facts)' = {}
  BY <1>2, ElementsEmpty DEF Elements
<1> QED
  BY <1>1, <1>2, <1>3 DEF QueueStep, Queued

LEMMA WorkerStoresQueue ==
  ASSUME TypeOK, WorkerStores PROVE QueueStep /\ NewRowsFrom(Queued)
<1>1. /\ waiting # <<>> /\ waiting \in Seq(Event)
      /\ spool' = Append(spool, Row(Head(waiting)))
      /\ waiting' = Tail(waiting) /\ facts' = facts /\ dropped' = dropped
  BY DEF TypeOK, WorkerStores, AfterStore, sampler
<1>2. Head(waiting) \in Event /\ Elements(waiting) = {Head(waiting)} \cup Elements(Tail(waiting))
  BY <1>1, ElementsTail
<1>3. Row(Head(waiting)) \in Rows /\ Row(Head(waiting)).ev = Head(waiting)
  BY <1>2, RowIsRow
<1> DEFINE rows == <<Row(Head(waiting))>>
<1>4. /\ rows \in Seq(Rows) /\ Len(rows) = 1 /\ rows[1] = Row(Head(waiting))
      /\ spool' = spool \o rows
  BY <1>1, <1>3, SpoolIsSeq, AppendIsConcat
<1>5. \A n \in 1..Len(rows) : rows[n].ev \in Queued
  BY <1>2, <1>3, <1>4 DEF Queued
<1> HIDE DEF rows
<1>6. NewRowsFrom(Queued)
  BY <1>4, <1>5, RowsAreFrom
<1>7. Head(waiting) \in Stored'
  <2>1. 1 \in 1..Len(rows)
    BY <1>4
  <2>2. Len(spool) + 1 \in DOMAIN spool' /\ spool'[Len(spool) + 1] = rows[1]
    BY <1>4, <2>1, AddedRows
  <2> QED
    BY <1>3, <1>4, <2>2 DEF Stored
<1>8. Elements(waiting)' = Elements(Tail(waiting)) /\ Elements(facts)' = Elements(facts)
  BY <1>1 DEF Elements
<1> QED
  BY <1>1, <1>2, <1>6, <1>7, <1>8 DEF QueueStep, Queued

LEMMA WorkerStoreRefusedQueue ==
  ASSUME TypeOK, WorkerStoreRefused PROVE QueueStep
<1>1. /\ waiting # <<>> /\ waiting \in Seq(Event) /\ facts' = facts
      /\ \/ waiting' = Tail(waiting) /\ dropped' = dropped \cup {Head(waiting)}
         \/ waiting' = waiting /\ dropped' = dropped
  BY DEF TypeOK, WorkerStoreRefused
<1>2. Elements(waiting) = {Head(waiting)} \cup Elements(Tail(waiting))
  BY <1>1, ElementsTail
<1>3. Elements(facts)' = Elements(facts)
      /\ (waiting' = Tail(waiting) => Elements(waiting)' = Elements(Tail(waiting)))
      /\ (waiting' = waiting => Elements(waiting)' = Elements(waiting))
  BY <1>1 DEF Elements
<1> QED
  BY <1>1, <1>2, <1>3 DEF QueueStep, Queued

LEMMA KilledQueue ==
  ASSUME Killed PROVE QueueStep
<1>1. /\ facts' = <<>> /\ waiting' = <<>>
      /\ dropped' = dropped \cup Elements(waiting) \cup Elements(facts)
  BY DEF Killed, Restarted
<1>2. Elements(waiting)' = {} /\ Elements(facts)' = {}
  BY <1>1, ElementsEmpty DEF Elements
<1> QED
  BY <1>1, <1>2 DEF QueueStep, Queued

LEMMA StoppedCleanlyQueue ==
  ASSUME TypeOK, StoppedCleanly PROVE QueueStep /\ NewRowsFrom(Queued)
<1> DEFINE left == waiting \o facts
<1>1. PICK k \in 0..Len(left) :
        /\ spool' = spool \o [n \in 1..k |-> Row(left[n])]
        /\ dropped' = dropped \cup {left[n] : n \in (k + 1)..Len(left)}
  BY DEF StoppedCleanly
<1>2. /\ left \in Seq(Event) /\ Elements(left) = Elements(waiting) \cup Elements(facts)
      /\ DOMAIN left = 1..Len(left) /\ Len(left) \in Nat
  <2>1. left \in Seq(Event)
    BY ConcatProperties DEF TypeOK
  <2> QED
    BY <2>1, ElementsConcat, LenProperties DEF TypeOK
<1>3. facts' = <<>> /\ waiting' = <<>>
  BY DEF StoppedCleanly, Restarted
<1>4. Elements(waiting)' = {} /\ Elements(facts)' = {}
  BY <1>3, ElementsEmpty DEF Elements
<1> HIDE DEF left
<1> DEFINE rows == [n \in 1..k |-> Row(left[n])]
<1>5. rows \in Seq(Rows) /\ Len(rows) = k /\ spool' = spool \o rows
  BY <1>1, <1>2, FirstRows
<1>6. \A n \in 1..k : n \in DOMAIN left /\ rows[n] = Row(left[n]) /\ rows[n].ev = left[n]
  BY <1>2 DEF Row
<1>7. \A n \in 1..Len(rows) : rows[n].ev \in Queued
  BY <1>2, <1>5, <1>6 DEF Queued, Elements
<1> HIDE DEF rows
<1>8. NewRowsFrom(Queued)
  BY <1>5, <1>7, RowsAreFrom
<1>9. ASSUME NEW i \in DOMAIN left PROVE left[i] \in Stored' \cup dropped'
  <2>1. CASE i <= k
    <3>1. i \in 1..Len(rows) /\ rows[i].ev = left[i]
      BY <1>2, <1>5, <1>6, <2>1
    <3>2. Len(spool) + i \in DOMAIN spool' /\ spool'[Len(spool) + i] = rows[i]
      BY <1>5, <3>1, AddedRows
    <3> QED
      BY <3>1, <3>2 DEF Stored
  <2>2. CASE i > k
    <3>1. i \in (k + 1)..Len(left)
      BY <1>2, <2>2
    <3> QED
      BY <1>1, <3>1
  <2> QED
    BY <1>2, <2>1, <2>2
<1>10. Queued = {left[i] : i \in DOMAIN left}
  <2>1. Queued = Elements(left)
    BY <1>2 DEF Queued
  <2> QED
    BY <2>1 DEF Elements
<1>11. {left[n] : n \in (k + 1)..Len(left)} \subseteq Queued
  BY <1>2, <1>10
<1> QED
  BY <1>1, <1>4, <1>8, <1>9, <1>10, <1>11 DEF QueueStep, Queued

\* A step that leaves the queues, the spool's events and what was given up alone.
LEMMA QueuesStay ==
  ASSUME UNCHANGED <<facts, waiting, dropped>> PROVE QueueStep
  BY DEF QueueStep, Queued, Elements

LEMMA SpoolStays ==
  ASSUME UNCHANGED spool, NEW source PROVE NewRowsFrom(source)
  BY DEF NewRowsFrom, Stored

\* WorkerAppends adds the rows of its read, and all of them.
LEMMA WorkerAppendsRead ==
  ASSUME IInv, WorkerAppends
  PROVE  NewRowsFrom(Reading) /\ Reading \subseteq Stored'
<1> DEFINE rows == [n \in 1..ReadCount |-> Row(ReadEvent(n))]
<1>0. TypeOK
  BY DEF IInv
<1>1. rows \in Seq(Rows) /\ ReadCount \in Nat /\ Len(rows) = ReadCount
      /\ \A n \in 1..ReadCount : ReadEvent(n) \in Event /\ rows[n] = Row(ReadEvent(n))
  BY <1>0, ReadRows DEF IInv
<1>2. spool' = spool \o rows /\ Reading = {ReadEvent(n) : n \in 1..ReadCount}
  BY DEF WorkerAppends, Reading
<1>3. \A n \in 1..ReadCount : Row(ReadEvent(n)).ev = ReadEvent(n)
  BY DEF Row
<1> HIDE DEF rows
<1>4. \A n \in 1..Len(rows) : rows[n].ev \in Reading
  BY <1>1, <1>2, <1>3
<1>5. NewRowsFrom(Reading)
  BY <1>0, <1>1, <1>2, <1>4, RowsAreFrom
<1>6. ASSUME NEW n \in 1..ReadCount PROVE ReadEvent(n) \in Stored'
  <2>1. Len(spool) + n \in DOMAIN spool' /\ spool'[Len(spool) + n] = rows[n]
    BY <1>0, <1>1, <1>2, AddedRows
  <2>2. rows[n].ev = ReadEvent(n)
    BY <1>1, <1>3
  <2> QED
    BY <2>1, <2>2 DEF Stored
<1> QED
  BY <1>2, <1>5, <1>6

\* The other ways the spool changes keep its events.
LEMMA MarksKeepEvents ==
  ASSUME DOMAIN spool' = DOMAIN spool, Grows, NEW source PROVE NewRowsFrom(source)
  BY DEF Grows, NewRowsFrom, Stored

LEMMA FlowStep ==
  ASSUME IInv, [Next]_vars
  PROVE  QueueStep /\ NewRowsFrom(Queued \cup Reading)
<1>0. TypeOK /\ Grows
  BY TypeStep DEF IInv
<1>1. ASSUME NEW source, NewRowsFrom(source), source \subseteq Queued \cup Reading
      PROVE  NewRowsFrom(Queued \cup Reading)
  BY <1>1 DEF NewRowsFrom
<1> USE DEF link, disk, sampler, worker, forwarder, service
<1>2. CASE UNCHANGED <<facts, waiting, dropped, spool>>
  BY <1>2, QueuesStay, SpoolStays
<1>3. CASE CycleEnds
  BY <1>0, <1>3, CycleEndsQueue, SpoolStays DEF CycleEnds
<1>4. CASE WorkerCollects
  BY <1>0, <1>4, WorkerCollectsQueue, SpoolStays DEF WorkerCollects
<1>5. CASE WorkerStores
  BY <1>0, <1>1, <1>5, WorkerStoresQueue
<1>6. CASE WorkerStoreRefused
  BY <1>0, <1>6, WorkerStoreRefusedQueue, SpoolStays DEF WorkerStoreRefused
<1>7. CASE WorkerAppends
  BY <1>1, <1>7, WorkerAppendsRead, QueuesStay DEF WorkerAppends
<1>8. CASE WorkerPrunes
  <2>1. DOMAIN spool' = DOMAIN spool /\ UNCHANGED <<facts, waiting, dropped>>
    BY <1>8 DEF WorkerPrunes
  <2> QED
    BY <1>0, <2>1, QueuesStay, MarksKeepEvents
<1>9. CASE ForwarderAcks
  <2>1. DOMAIN spool' = DOMAIN spool /\ UNCHANGED <<facts, waiting, dropped>>
    BY <1>9 DEF ForwarderAcks
  <2> QED
    BY <1>0, <2>1, QueuesStay, MarksKeepEvents
<1>10. CASE Killed
  BY <1>10, KilledQueue, SpoolStays DEF Killed
<1>11. CASE StoppedCleanly
  BY <1>0, <1>1, <1>11, StoppedCleanlyQueue
<1>12. \/ UNCHANGED <<facts, waiting, dropped, spool>>
       \/ CycleEnds \/ WorkerCollects \/ WorkerStores \/ WorkerStoreRefused \/ WorkerAppends
       \/ WorkerPrunes \/ ForwarderAcks \/ Killed \/ StoppedCleanly
  BY DEF Next, Worker, MillWrightAdds, MillWrightPrunes, MillWrightStartsAgain,
         WorkerStoredAll, WorkerReads, WorkerReadsNothing, WorkerAppendRefused, WorkerAcks,
         WorkerAckFails, ForwarderSends, ServiceHandles, NetworkLoses, ForwarderGivesUp, vars
<1> QED
  BY <1>2, <1>3, <1>4, <1>5, <1>6, <1>7, <1>8, <1>9, <1>10, <1>11, <1>12

\* Verdicts are on events of the spool.
LEMMA VerdictStep ==
  ASSUME IInv, [Next]_vars
  PROVE  final \subseteq final' /\ final' \subseteq final \cup Stored
<1>1. CASE UNCHANGED final
  BY <1>1
<1>2. ASSUME NEW b \in wire, ServiceHandles(b)
      PROVE  final \subseteq final' /\ final' \subseteq final \cup Stored
  <2>1. PICK n \in 0..Cardinality(b) : final' = final \cup {spool[i].ev : i \in First(b, n)}
    BY <1>2 DEF ServiceHandles
  <2>2. First(b, n) \subseteq DOMAIN spool
    BY DEF IInv, TypeOK, First
  <2> QED
    BY <2>1, <2>2 DEF Stored
<1>3. UNCHANGED final \/ \E b \in wire : ServiceHandles(b)
  BY DEF Next, Worker, MillWrightAdds, MillWrightPrunes, MillWrightStartsAgain, CycleEnds,
         WorkerCollects, WorkerStores, WorkerStoreRefused, WorkerStoredAll, WorkerReads,
         WorkerReadsNothing, WorkerAppends, WorkerAppendRefused, WorkerAcks, WorkerAckFails,
         WorkerPrunes, ForwarderSends, NetworkLoses, ForwarderAcks, ForwarderGivesUp,
         Killed, StoppedCleanly, Restarted, vars, service
<1> QED
  BY <1>1, <1>2, <1>3

LEMMA CyclesStep ==
  ASSUME IInv, [Next]_vars
  PROVE  /\ cycles \in Nat /\ cycles' \in {cycles, cycles + 1}
         /\ outbox.epoch \in Nat /\ outbox'.epoch \in {outbox.epoch, outbox.epoch + 1}
<1>1. cycles \in Nat /\ outbox \in [epoch : Nat, low : Nat, last : Nat]
  BY DEF IInv, TypeOK
<1>2. cycles' \in {cycles, cycles + 1}
  BY DEF Next, Worker, MillWrightAdds, MillWrightPrunes, MillWrightStartsAgain, CycleEnds,
         WorkerCollects, WorkerStores, WorkerStoreRefused, WorkerStoredAll, WorkerReads,
         WorkerReadsNothing, WorkerAppends, WorkerAppendRefused, WorkerAcks, WorkerAckFails,
         WorkerPrunes, ForwarderSends, ServiceHandles, NetworkLoses, ForwarderAcks,
         ForwarderGivesUp, Killed, StoppedCleanly, Restarted, vars, sampler
<1>3. MillWrightAdds \/ MillWrightPrunes \/ MillWrightStartsAgain \/ UNCHANGED outbox
  BY DEF Next, Worker, CycleEnds, WorkerCollects, WorkerStores, WorkerStoreRefused,
         WorkerStoredAll, WorkerReads, WorkerReadsNothing, WorkerAppends,
         WorkerAppendRefused, WorkerAcks, WorkerAckFails, WorkerPrunes, ForwarderSends,
         ServiceHandles, NetworkLoses, ForwarderAcks, ForwarderGivesUp, Killed,
         StoppedCleanly, Restarted, vars, link
<1> QED
  BY <1>1, <1>2, <1>3 DEF MillWrightAdds, MillWrightPrunes, MillWrightStartsAgain

LEMMA InitWhence == Init => Whence
  BY ElementsEmpty DEF Init, Whence

LEMMA WhenceStep ==
  ASSUME IInv, Whence, [Next]_vars PROVE Whence'
<1>1. /\ cycles \in Nat /\ cycles' \in {cycles, cycles + 1} /\ outbox'.epoch >= 1
      /\ outbox.epoch \in Nat
  BY CyclesStep DEF Whence
<1>2. final' \subseteq Stored'
  BY VerdictStep, StoredStays DEF Whence
<1>3. Queued \cup dropped \subseteq {Cycle(n) : n \in 1..cycles}
  BY DEF Whence, Queued
<1>4. Ended \subseteq {Cycle(n) : n \in 1..cycles'}
  <2>1. CASE cycles' = cycles + 1
    <3>1. cycles + 1 \in 1..cycles'
      BY <1>1, <2>1
    <3> QED
      BY <3>1, <2>1 DEF Ended
  <2>2. CASE cycles' # cycles + 1
    BY <2>2 DEF Ended
  <2> QED
    BY <2>1, <2>2
<1>5. {Cycle(n) : n \in 1..cycles} \subseteq {Cycle(n) : n \in 1..cycles'}
  <2>1. 1..cycles \subseteq 1..cycles'
    BY <1>1
  <2> QED
    BY <2>1
<1>6. Queued' \cup dropped' \subseteq {Cycle(n) : n \in 1..cycles'}
  BY <1>3, <1>4, <1>5, FlowStep DEF QueueStep
<1>7. wpc' = "append" => read'.epoch >= 1
  <2>1. CASE WorkerReads
    BY <2>1, WorkerReadsType DEF Whence
  <2>2. CASE wpc' # "append"
    BY <2>2
  <2>3. CASE UNCHANGED <<wpc, read>>
    BY <2>3 DEF Whence
  <2>4. WorkerReads \/ wpc' # "append" \/ UNCHANGED <<wpc, read>>
    BY DEF Next, Worker, MillWrightAdds, MillWrightPrunes, MillWrightStartsAgain, CycleEnds,
           WorkerCollects, WorkerStores, WorkerStoreRefused, WorkerStoredAll,
           WorkerReadsNothing, WorkerAppends, WorkerAppendRefused, AfterRefused, WorkerAcks,
           WorkerAckFails, WorkerPrunes, ForwarderSends, ServiceHandles, NetworkLoses,
           ForwarderAcks, ForwarderGivesUp, Killed, StoppedCleanly, Restarted, vars, worker
  <2> QED
    BY <2>1, <2>2, <2>3, <2>4
<1> QED
  BY <1>1, <1>2, <1>6, <1>7 DEF Whence, Queued

\* Events of a database that was replaced.
Older(e) == e.epoch \in 1..(outbox.epoch - 1)

\* What the worker has read is still in the outbox, or is in the spool, or its
\* database was replaced.
LEMMA ReadingIsCovered ==
  ASSUME IInv, Whence, NEW e \in Reading
  PROVE  e \in InOutbox \cup Stored \/ Older(e)
<1>1. PICK n \in 1..ReadCount : e = ReadEvent(n)
  BY DEF Reading
<1>2. wpc = "append" /\ read.epoch >= 1
  BY DEF Reading, Whence
<1>3. /\ read.epoch \in Nat /\ read.from \in Nat /\ read.to \in Nat /\ outbox.epoch \in Nat
      /\ outbox.low \in Nat /\ outbox.last \in Nat
      /\ read.from >= 1 /\ NotAhead(read.epoch, read.to) /\ StoredUpTo(outbox.epoch, outbox.low)
  BY DEF IInv, TypeOK, Places, Durable
<1>4. e.epoch = read.epoch /\ e.seq = read.from + n - 1 /\ e = [epoch |-> e.epoch, seq |-> e.seq]
      /\ e.seq \in 1..read.to
  BY <1>1, <1>3 DEF ReadEvent, ReadCount
<1>5. CASE read.epoch < outbox.epoch
  BY <1>2, <1>3, <1>4, <1>5 DEF Older
<1>6. CASE read.epoch = outbox.epoch
  <2>1. e.seq <= outbox.last
    BY <1>3, <1>4, <1>6 DEF NotAhead
  <2>2. CASE e.seq <= outbox.low
    BY <1>3, <1>4, <1>6, <2>2 DEF StoredUpTo
  <2>3. CASE e.seq > outbox.low
    <3>1. e.seq \in (outbox.low + 1)..outbox.last
      BY <1>3, <1>4, <2>1, <2>3
    <3> QED
      BY <1>4, <1>6, <3>1 DEF InOutbox
  <2> QED
    BY <1>3, <1>4, <2>2, <2>3
<1> QED
  BY <1>3, <1>5, <1>6 DEF NotAhead

\* A row leaves the outbox when it is in the spool, or with its database; a row
\* gets into the database there is.
LEMMA OutboxStep ==
  ASSUME IInv, Whence, [Next]_vars
  PROVE  /\ \A e \in InOutbox : e \in InOutbox' \cup Stored \/ Older(e)'
         /\ \A e \in InOutbox' : e.epoch = outbox.epoch
<1>0. /\ outbox \in [epoch : Nat, low : Nat, last : Nat] /\ outbox.epoch >= 1
      /\ ack \in [epoch : Nat, seq : Nat] /\ StoredUpTo(ack.epoch, ack.seq)
  BY DEF IInv, TypeOK, Durable, Whence
<1>1. CASE MillWrightAdds
  <2>1. outbox' = [epoch |-> outbox.epoch, low |-> outbox.low, last |-> outbox.last + 1]
    BY <1>0, <1>1 DEF MillWrightAdds
  <2>2. (outbox.low + 1)..outbox.last \subseteq (outbox'.low + 1)..outbox'.last
    BY <1>0, <2>1
  <2> QED
    BY <2>1, <2>2 DEF InOutbox
<1>2. CASE MillWrightPrunes
  <2>1. outbox' = [epoch |-> outbox.epoch, low |-> outbox.low + 1, last |-> outbox.last]
    BY <1>0, <1>2 DEF MillWrightPrunes
  <2>2. ASSUME NEW s \in (outbox.low + 1)..outbox.last
        PROVE  [epoch |-> outbox.epoch, seq |-> s] \in InOutbox' \cup Stored
    <3>1. CASE s = outbox.low + 1
      <4>1. s \in 1..ack.seq /\ ack.epoch = outbox.epoch
        BY <1>0, <1>2, <3>1 DEF MillWrightPrunes
      <4> QED
        BY <1>0, <4>1 DEF StoredUpTo
    <3>2. CASE s # outbox.low + 1
      <4>1. s \in (outbox'.low + 1)..outbox'.last /\ outbox'.epoch = outbox.epoch
        BY <1>0, <2>1, <3>2
      <4> QED
        BY <4>1 DEF InOutbox
    <3> QED
      BY <3>1, <3>2
  <2>3. \A e \in InOutbox : e \in InOutbox' \cup Stored
    BY <2>2 DEF InOutbox
  <2>4. \A e \in InOutbox' : e.epoch = outbox.epoch
    BY <2>1 DEF InOutbox
  <2> QED
    BY <2>3, <2>4
<1>3. CASE MillWrightStartsAgain
  <2>1. outbox' = [epoch |-> outbox.epoch + 1, low |-> 0, last |-> 0]
    BY <1>3 DEF MillWrightStartsAgain
  <2>2. InOutbox' = {}
    BY <2>1 DEF InOutbox
  <2>3. \A e \in InOutbox : e.epoch = outbox.epoch
    BY DEF InOutbox
  <2>4. outbox.epoch \in 1..(outbox'.epoch - 1)
    BY <1>0, <2>1
  <2> QED
    BY <2>2, <2>3, <2>4 DEF Older
<1>4. CASE UNCHANGED outbox
  BY <1>4 DEF InOutbox
<1>5. MillWrightAdds \/ MillWrightPrunes \/ MillWrightStartsAgain \/ UNCHANGED outbox
  BY DEF Next, Worker, CycleEnds, WorkerCollects, WorkerStores, WorkerStoreRefused,
         WorkerStoredAll, WorkerReads, WorkerReadsNothing, WorkerAppends,
         WorkerAppendRefused, WorkerAcks, WorkerAckFails, WorkerPrunes, ForwarderSends,
         ServiceHandles, NetworkLoses, ForwarderAcks, ForwarderGivesUp, Killed,
         StoppedCleanly, Restarted, vars, link
<1> QED
  BY <1>1, <1>2, <1>3, <1>4, <1>5

\* The worker reads the database there is.
LEMMA ReadingStep ==
  ASSUME IInv, [Next]_vars, NEW e \in Reading'
  PROVE  e \in Reading \/ e.epoch = outbox.epoch
<1>1. wpc' = "append"
  BY DEF Reading
<1>2. CASE WorkerReads
  <2>1. PICK n \in 1..ReadCount' : e = ReadEvent(n)'
    BY <1>1 DEF Reading
  <2> QED
    BY <1>2, <2>1, WorkerReadsType DEF ReadEvent
<1>3. CASE UNCHANGED <<wpc, read>>
  BY <1>3 DEF Reading, ReadEvent, ReadCount
<1>4. WorkerReads \/ wpc' # "append" \/ UNCHANGED <<wpc, read>>
  BY DEF Next, Worker, MillWrightAdds, MillWrightPrunes, MillWrightStartsAgain, CycleEnds,
         WorkerCollects, WorkerStores, WorkerStoreRefused, WorkerStoredAll,
         WorkerReadsNothing, WorkerAppends, WorkerAppendRefused, AfterRefused, WorkerAcks,
         WorkerAckFails, WorkerPrunes, ForwarderSends, ServiceHandles, NetworkLoses,
         ForwarderAcks, ForwarderGivesUp, Killed, StoppedCleanly, Restarted, vars, worker
<1> QED
  BY <1>1, <1>2, <1>3, <1>4

Gone(e) == e \in dropped \/ Older(e)

\* What a step may do to an event, place by place: only what is stored gets a
\* verdict, only what is on its way is stored, what leaves the way unstored is
\* given up, and what was given up does not come back.
LEMMA WayStep ==
  ASSUME IInv, Whence, [Next]_vars, NEW e
  PROVE  /\ e \in final => e \in final'
         /\ e \in final' => e \in final \cup Stored
         /\ e \in Stored => e \in Stored'
         /\ e \in Stored' => e \in Stored \cup OnItsWay
         /\ e \in OnItsWay => e \in OnItsWay' \cup Stored' \/ Gone(e)'
         /\ e \in OnItsWay' => e \in OnItsWay \/ ~Gone(e)
         /\ Gone(e) => Gone(e)'
         /\ Gone(e)' => e.epoch # outbox'.epoch
<1>0. Whence' /\ QueueStep /\ NewRowsFrom(Queued \cup Reading)
  BY WhenceStep, FlowStep
<1>1. /\ cycles \in Nat /\ cycles' \in {cycles, cycles + 1} /\ outbox.epoch \in Nat
      /\ outbox'.epoch \in {outbox.epoch, outbox.epoch + 1} /\ outbox.epoch >= 1
  BY CyclesStep DEF Whence
<1>2. e \in final => e \in final'
  BY VerdictStep
<1>3. e \in final' => e \in final \cup Stored
  BY VerdictStep
<1>4. e \in Stored => e \in Stored'
  BY StoredStays
<1>5. e \in Stored' => e \in Stored \cup OnItsWay
  BY <1>0 DEF NewRowsFrom, OnItsWay, Queued
<1>6. Older(e) => Older(e)'
  BY <1>1 DEF Older
<1>7. ASSUME e \in OnItsWay PROVE e \in OnItsWay' \cup Stored' \/ Gone(e)'
  <2>1. CASE e \in InOutbox
    BY <1>4, <2>1, OutboxStep DEF OnItsWay, Gone
  <2>2. CASE e \in Reading
    BY <1>4, <1>6, <2>1, <2>2, ReadingIsCovered DEF Gone
  <2>3. CASE e \in Queued
    BY <1>0, <2>3 DEF QueueStep, Queued, OnItsWay, Gone
  <2> QED
    BY <1>7, <2>1, <2>2, <2>3 DEF OnItsWay, Queued
<1>8. ASSUME e \in dropped \cup Ended
      PROVE  e.epoch = 0 /\ ~Older(e)
  <2>1. e.epoch = 0
    BY <1>8 DEF Whence, Ended, Cycle
  <2> QED
    BY <2>1, <1>1 DEF Older
<1>9. ASSUME e.epoch = outbox.epoch PROVE ~Gone(e)
  <2>1. e \notin dropped
    BY <1>1, <1>8, <1>9
  <2>2. ~Older(e)
    BY <1>1, <1>9 DEF Older
  <2> QED
    BY <2>1, <2>2 DEF Gone
<1>10. ASSUME e \in Ended PROVE ~Gone(e)
  <2>1. cycles' = cycles + 1 /\ e = Cycle(cycles + 1)
    BY <1>10 DEF Ended
  <2>2. ASSUME e \in dropped PROVE FALSE
    <3>1. PICK n \in 1..cycles : e = Cycle(n)
      BY <2>2 DEF Whence
    <3>2. n = cycles + 1
      BY <2>1, <3>1 DEF Cycle
    <3> QED
      BY <1>1, <3>2
  <2> QED
    BY <1>8, <1>10, <2>2 DEF Gone
<1>11. e \in OnItsWay' => e \in OnItsWay \/ ~Gone(e)
  BY <1>0, <1>9, <1>10, OutboxStep, ReadingStep DEF OnItsWay, Queued, QueueStep
<1>12. Gone(e) => Gone(e)'
  BY <1>0, <1>6 DEF Gone, QueueStep
<1>13. ASSUME Gone(e)' PROVE e.epoch # outbox'.epoch
  <2>1. CASE e \in dropped'
    <3>1. e.epoch = 0
      BY <1>0, <2>1 DEF Whence, Cycle
    <3> QED
      BY <1>1, <3>1
  <2>2. CASE Older(e)'
    BY <1>1, <2>2 DEF Older
  <2> QED
    BY <1>13, <2>1, <2>2 DEF Gone
<1> QED
  BY <1>2, <1>3, <1>4, <1>5, <1>7, <1>11, <1>12, <1>13

\* So the phase of an event moves as EventDelivery allows.
LEMMA PhaseStep ==
  ASSUME IInv, Whence, [Next]_vars, NEW e
  PROVE  \/ PhaseOf(e)' = PhaseOf(e)
         \/ PhaseOf(e) = "none" /\ PhaseOf(e)' = "made"
         \/ PhaseOf(e) = "made" /\ PhaseOf(e)' = "kept"
         \/ PhaseOf(e) = "kept" /\ PhaseOf(e)' = "final"
         \/ PhaseOf(e) \in {"none", "made"} /\ PhaseOf(e)' = "gone" /\ e.epoch # outbox'.epoch
<1>0. /\ e \in final => e \in final'
      /\ e \in final' => e \in final \cup Stored
      /\ e \in Stored => e \in Stored'
      /\ e \in Stored' => e \in Stored \cup OnItsWay
      /\ e \in OnItsWay => e \in OnItsWay' \cup Stored' \/ Gone(e)'
      /\ e \in OnItsWay' => e \in OnItsWay \/ ~Gone(e)
      /\ Gone(e) => Gone(e)'
      /\ Gone(e)' => e.epoch # outbox'.epoch
  BY WayStep
<1>1. PhaseOf(e) = IF e \in final THEN "final"
                   ELSE IF e \in Stored THEN "kept"
                   ELSE IF e \in OnItsWay THEN "made"
                   ELSE IF Gone(e) THEN "gone" ELSE "none"
  BY DEF PhaseOf, Gone, Older
<1>2. PhaseOf(e)' = IF e \in final' THEN "final"
                    ELSE IF e \in Stored' THEN "kept"
                    ELSE IF e \in OnItsWay' THEN "made"
                    ELSE IF Gone(e)' THEN "gone" ELSE "none"
  BY DEF PhaseOf, Gone, Older
<1>3. CASE e \in final
  BY <1>0, <1>1, <1>2, <1>3
<1>4. CASE e \notin final /\ e \in Stored
  BY <1>0, <1>1, <1>2, <1>4
<1>5. CASE e \notin Stored /\ e \notin final /\ e \in OnItsWay
  BY <1>0, <1>1, <1>2, <1>5
<1>6. CASE e \notin Stored /\ e \notin final /\ e \notin OnItsWay
  BY <1>0, <1>1, <1>2, <1>6
<1> QED
  BY <1>3, <1>4, <1>5, <1>6

LEMMA InitDelivery == Init => Delivery!Init
<1> SUFFICES ASSUME Init PROVE Delivery!Init
  OBVIOUS
<1>1. /\ Elements(facts) = {} /\ Elements(waiting) = {} /\ final = {} /\ dropped = {}
      /\ outbox = [epoch |-> 1, low |-> 0, last |-> 0] /\ spool = <<>> /\ wpc = "collect"
  BY ElementsEmpty DEF Init
<1>2. InOutbox = {} /\ Reading = {} /\ Stored = {}
  BY <1>1 DEF InOutbox, Reading, Stored
<1>3. 1..(outbox.epoch - 1) = {}
  BY <1>1
<1>4. \A e \in AllEvents : PhaseOf(e) = "none"
  BY <1>1, <1>2, <1>3 DEF PhaseOf, OnItsWay
<1> QED
  BY <1>1, <1>4 DEF Delivery!Init

LEMMA StepDelivery ==
  ASSUME IInv, Whence, [Next]_vars PROVE [Delivery!Next]_Delivery!vars
<1> DEFINE phase == [e \in AllEvents |-> PhaseOf(e)]
<1>1. outbox'.epoch \in {outbox.epoch, outbox.epoch + 1}
  BY CyclesStep
<1>2. AllEvents' = AllEvents /\ phase' = [e \in AllEvents |-> PhaseOf(e)']
  BY DEF AllEvents, Cycle
<1>3. DOMAIN phase' = AllEvents
  BY <1>2
<1>4. ASSUME NEW e \in AllEvents
      PROVE  \/ phase'[e] = phase[e]
             \/ Delivery!Made(e) \/ Delivery!Taken(e) \/ Delivery!Settled(e) \/ Delivery!GivenUp(e)
  <2>1. phase[e] = PhaseOf(e) /\ phase'[e] = PhaseOf(e)'
    BY <1>2
  <2> HIDE DEF phase
  <2>2. \/ phase'[e] = phase[e]
        \/ phase[e] = "none" /\ phase'[e] = "made"
        \/ phase[e] = "made" /\ phase'[e] = "kept"
        \/ phase[e] = "kept" /\ phase'[e] = "final"
        \/ phase[e] \in {"none", "made"} /\ phase'[e] = "gone" /\ e.epoch # outbox'.epoch
    BY <2>1, PhaseStep
  <2> USE DEF phase
  <2> QED
    BY <2>2 DEF Delivery!Made, Delivery!Taken, Delivery!Settled, Delivery!GivenUp, Delivery!Move
<1> QED
  BY <1>1, <1>3, <1>4 DEF Delivery!Next

\* The pipeline keeps EventDelivery's promise: an event taken over is never
\* given up, and none is settled or forgotten that was not taken over first
\* (OutboxReader, MesWorker, EventSpool and Forwarder together).
THEOREM SpecImplementsDelivery == Spec => ImplementsDelivery
<1>1. Init => IInv /\ Whence
  BY InitInv, InitWhence
<1>2. IInv /\ Whence /\ [Next]_vars => (IInv /\ Whence)'
  BY StepInv, WhenceStep
<1>3. IInv /\ Whence /\ [Next]_vars => [Delivery!Next]_Delivery!vars
  BY StepDelivery
<1> QED
  BY <1>1, <1>2, <1>3, InitDelivery, PTL DEF Spec, ImplementsDelivery, Delivery!Spec

-----------------------------------------------------------------------------
\* The order of the rows

\* Rows of an epoch up to row i.
Rank(e, i) == {j \in Copied(e) : j <= i}

\* A row has the number of rows of its epoch there are up to it.
Numbered(e) == \A i \in Copied(e) : spool[i].ev.seq = Cardinality(Rank(e, i))

\* The cursor's epoch is the latest there is, its position the rows copied of it;
\* the acknowledgement and MillWright's forgetting are not ahead of the cursor,
\* and a read starts behind it.
InOrder ==
  /\ \A e \in Nat \ {0} : Numbered(e)
  /\ \A i \in DOMAIN spool : spool[i].ev.epoch <= cursor.epoch
  /\ cursor.epoch # 0 => cursor.pos = Cardinality(Copied(cursor.epoch))
  /\ ack.epoch <= cursor.epoch /\ (ack.epoch = cursor.epoch => ack.seq <= cursor.pos)
  /\ outbox.low # 0 => cursor.epoch = outbox.epoch /\ outbox.low <= cursor.pos
  /\ wpc = "append" =>
       /\ read.epoch >= cursor.epoch
       /\ read.from = 1 + (IF read.epoch = cursor.epoch THEN cursor.pos ELSE 0)

LEMMA CopiedIsFinite ==
  ASSUME TypeOK, NEW e
  PROVE  /\ Len(spool) \in Nat /\ DOMAIN spool = 1..Len(spool)
         /\ Copied(e) \subseteq 1..Len(spool)
         /\ IsFiniteSet(Copied(e)) /\ Cardinality(Copied(e)) \in Nat
<1>1. Len(spool) \in Nat /\ DOMAIN spool = 1..Len(spool)
  BY SpoolIsSeq, LenProperties
<1>2. Copied(e) \subseteq 1..Len(spool)
  BY <1>1 DEF Copied
<1>3. IsFiniteSet(1..Len(spool))
  BY <1>1, FS_Interval
<1> QED
  BY <1>1, <1>2, <1>3, FS_Subset, FS_CardinalityType

\* n numbers more, beyond those there are.
LEMMA AddsUp ==
  ASSUME NEW m \in Nat, NEW n \in Nat, NEW S \in SUBSET (1..m)
  PROVE  /\ Cardinality(S) \in Nat
         /\ Cardinality(S \cup (m + 1)..(m + n)) = Cardinality(S) + n
<1> DEFINE T == (m + 1)..(m + n)
<1>1. IsFiniteSet(1..m) /\ IsFiniteSet(T) /\ Cardinality(T) = n
  BY FS_Interval
<1>2. IsFiniteSet(S) /\ Cardinality(S) \in Nat
  BY <1>1, FS_Subset, FS_CardinalityType
<1>3. S \cap T = {}
  OBVIOUS
<1> HIDE DEF T
<1>4. Cardinality(S \cup T) = Cardinality(S) + Cardinality(T) - Cardinality(S \cap T)
  BY <1>1, <1>2, FS_Union
<1>5. Cardinality(S \cap T) = 0
  BY <1>3, FS_EmptySet
<1> QED
  BY <1>1, <1>2, <1>4, <1>5 DEF T

LEMMA CopiedGrows ==
  ASSUME TypeOK, NEW rows \in Seq(Rows), spool' = spool \o rows, NEW f,
         \A n \in 1..Len(rows) : rows[n].ev.epoch = f, NEW e
  PROVE  Copied(e)' = IF e = f THEN Copied(e) \cup (Len(spool) + 1)..(Len(spool) + Len(rows))
                      ELSE Copied(e)
<1>1. /\ Len(spool) \in Nat /\ DOMAIN spool = 1..Len(spool) /\ Len(rows) \in Nat
      /\ DOMAIN spool' = 1..(Len(spool) + Len(rows))
  BY SpoolIsSeq, LenProperties, ConcatProperties
<1>2. \A i \in DOMAIN spool : i \in DOMAIN spool' /\ spool'[i].ev.epoch = spool[i].ev.epoch
  BY AddedRows DEF Grows
<1>3. ASSUME NEW i \in (Len(spool) + 1)..(Len(spool) + Len(rows))
      PROVE  i \in DOMAIN spool' /\ spool'[i].ev.epoch = f
  <2>1. i \in DOMAIN spool' \ DOMAIN spool
    BY <1>1
  <2> QED
    BY <2>1, AddedRows
<1>4. DOMAIN spool' = DOMAIN spool \cup (Len(spool) + 1)..(Len(spool) + Len(rows))
  BY <1>1
<1> QED
  BY <1>2, <1>3, <1>4 DEF Copied

\* An epoch that gets no row keeps its numbers.
LEMMA NumbersStay ==
  ASSUME Grows, NEW e, Copied(e)' = Copied(e), Numbered(e)
  PROVE  Numbered(e)'
<1> SUFFICES ASSUME NEW i \in Copied(e)
             PROVE  spool'[i].ev.seq = Cardinality(Rank(e, i)')
  BY DEF Numbered
<1>1. Rank(e, i)' = Rank(e, i)
  BY DEF Rank
<1>2. spool'[i].ev = spool[i].ev
  BY DEF Grows, Copied
<1> QED
  BY <1>1, <1>2 DEF Numbered

LEMMA SameRows ==
  ASSUME Grows, DOMAIN spool' = DOMAIN spool, NEW e
  PROVE  Copied(e)' = Copied(e)
  BY DEF Grows, Copied

\* A read that goes on where the rows of its epoch end numbers them on.
LEMMA AppendNumbers ==
  ASSUME IInv, InOrder, Whence, WorkerAppends, NEW f, f = read.epoch
  PROVE  /\ Numbered(f)'
         /\ Cardinality(Copied(f)') = read.to
         /\ \A e : e # f => Copied(e)' = Copied(e)
         /\ \A i \in DOMAIN spool' : spool'[i].ev.epoch <= f
<1> DEFINE rows == [n \in 1..ReadCount |-> Row(ReadEvent(n))]
<1>0. TypeOK /\ wpc = "append" /\ spool' = spool \o rows
  BY DEF IInv, WorkerAppends
<1> PICK m \in Nat : m = Len(spool)
  BY <1>0, CopiedIsFinite
<1>1. /\ rows \in Seq(Rows) /\ ReadCount \in Nat /\ Len(rows) = ReadCount
      /\ \A n \in 1..ReadCount : ReadEvent(n) \in Event /\ rows[n] = Row(ReadEvent(n))
  BY ReadRows
<1>2. \A n \in 1..Len(rows) : rows[n].ev.epoch = f /\ rows[n].ev.seq = read.from + n - 1
  BY <1>1 DEF Row, ReadEvent
<1> HIDE DEF rows
<1>3. /\ m \in Nat /\ DOMAIN spool = 1..m /\ Copied(f) \subseteq 1..m
      /\ Cardinality(Copied(f)) \in Nat
  BY <1>0, CopiedIsFinite
<1>4. /\ read.from \in Nat /\ read.to \in Nat /\ f \in Nat /\ f >= 1
      /\ cursor.epoch \in Nat /\ cursor.pos \in Nat /\ read.from = read.to + 1 - ReadCount
  <2>1. read \in [epoch : Nat, from : Nat, to : Nat] /\ cursor \in [epoch : Nat, pos : Nat]
    BY <1>0 DEF TypeOK
  <2>2. read.epoch >= 1
    BY <1>0 DEF Whence
  <2>3. read.from = read.to + 1 - ReadCount
    BY <2>1 DEF ReadCount
  <2> QED
    BY <2>1, <2>2, <2>3
<1>5. read.from = 1 + Cardinality(Copied(f))
  <2>1. CASE f = cursor.epoch
    BY <1>0, <1>4, <2>1 DEF InOrder
  <2>2. CASE f # cursor.epoch
    <3>1. f > cursor.epoch
      BY <1>0, <1>4, <2>2 DEF InOrder
    <3>2. \A i \in DOMAIN spool : spool[i].ev.epoch # f
      <4>1. \A i \in DOMAIN spool : spool[i].ev.epoch \in Nat /\ spool[i].ev.epoch <= cursor.epoch
        <5>1. \A i \in DOMAIN spool : spool[i] \in Rows
          BY <1>0, SpoolIsSeq, ElementOfSeq
        <5> QED
          BY <5>1 DEF InOrder, Rows, Event
      <4> QED
        BY <1>4, <3>1, <4>1
    <3>3. Copied(f) = {}
      BY <3>2 DEF Copied
    <3> QED
      BY <1>0, <2>2, <3>3, FS_EmptySet DEF InOrder
  <2> QED
    BY <2>1, <2>2
<1>6. /\ Copied(f)' = Copied(f) \cup (m + 1)..(m + ReadCount)
      /\ \A e : e # f => Copied(e)' = Copied(e)
  <2>1. \A n \in 1..Len(rows) : rows[n].ev.epoch = f
    BY <1>2
  <2>2. ASSUME NEW e
        PROVE  Copied(e)' = IF e = f THEN Copied(e) \cup (Len(spool) + 1)..(Len(spool) + Len(rows))
                            ELSE Copied(e)
    BY <1>0, <1>1, <2>1, CopiedGrows
  <2> QED
    BY <1>1, <2>2
<1>7. Cardinality(Copied(f)') = read.to
  <2>1. Cardinality(Copied(f) \cup (m + 1)..(m + ReadCount)) = Cardinality(Copied(f)) + ReadCount
    BY <1>1, <1>3, AddsUp
  <2>2. Cardinality(Copied(f)') = Cardinality(Copied(f)) + ReadCount
    BY <1>6, <2>1
  <2>3. /\ read.from \in Nat /\ read.to \in Nat /\ ReadCount \in Nat
        /\ read.from = read.to + 1 - ReadCount
    BY <1>1, <1>4
  <2>4. Cardinality(Copied(f)) = read.from - 1
    BY <1>3, <1>5, <2>3
  <2> QED
    BY <2>2, <2>3, <2>4
<1>8. Grows
  <2>1. TypeOK /\ rows \in Seq(Rows) /\ spool' = spool \o rows
    BY <1>0, <1>1
  <2> QED
    BY <2>1, AddedRows
<1>9. Numbered(f)'
  <2> SUFFICES ASSUME NEW i \in Copied(f)'
               PROVE  spool'[i].ev.seq = Cardinality(Rank(f, i)')
    BY <1>0 DEF Numbered, WorkerAppends
  <2>1. CASE i \in Copied(f)
    <3>1. Rank(f, i)' = Rank(f, i)
      BY <1>1, <1>3, <1>6, <2>1 DEF Rank, WorkerAppends
    <3>2. spool'[i].ev = spool[i].ev
      BY <1>8, <2>1 DEF Grows, Copied
    <3>3. Numbered(f)
      BY <1>4 DEF InOrder
    <3> QED
      BY <2>1, <3>1, <3>2, <3>3 DEF Numbered
  <2>2. CASE i \in (m + 1)..(m + ReadCount)
    <3>1. PICK n \in 1..ReadCount : i = m + n
      <4>1. i - m \in 1..ReadCount /\ i = m + (i - m)
        BY <1>1, <1>3, <2>2
      <4> QED
        BY <4>1
    <3>2. spool'[i] = rows[n]
      BY <1>0, <1>1, <3>1, AddedRows
    <3>3. Rank(f, i)' = Copied(f) \cup (m + 1)..(m + n)
      BY <1>1, <1>3, <1>6, <3>1 DEF Rank, WorkerAppends
    <3>4. Cardinality(Rank(f, i)') = Cardinality(Copied(f)) + n
      <4>1. n \in Nat /\ Copied(f) \in SUBSET (1..m)
        BY <1>3, <3>1
      <4>2. Cardinality(Copied(f) \cup (m + 1)..(m + n)) = Cardinality(Copied(f)) + n
        BY <4>1, AddsUp
      <4> QED
        BY <3>3, <4>2
    <3> QED
      BY <1>1, <1>2, <1>3, <1>5, <3>1, <3>2, <3>4
  <2> QED
    BY <1>6, <2>1, <2>2
<1>10. ASSUME NEW i \in DOMAIN spool' PROVE spool'[i].ev.epoch <= f
  <2>1. CASE i \in DOMAIN spool
    <3>1. spool'[i].ev = spool[i].ev /\ spool[i].ev.epoch \in Nat
      <4>1. spool[i] \in Rows
        BY <1>0, <2>1, SpoolIsSeq, ElementOfSeq
      <4> QED
        BY <1>8, <2>1, <4>1 DEF Grows, Rows, Event
    <3> QED
      BY <1>0, <1>4, <2>1, <3>1 DEF InOrder
  <2>2. CASE i \notin DOMAIN spool
    <3>1. PICK n \in 1..Len(rows) : spool'[i] = rows[n]
      BY <1>0, <1>1, <2>2, AddedRows
    <3> QED
      BY <1>2, <1>4, <3>1
  <2> QED
    BY <2>1, <2>2
<1> QED
  BY <1>6, <1>7, <1>9, <1>10

\* The rows a step adds are cycles: every step but the append of a read.
CyclesOnly ==
  Grows /\ \A i \in DOMAIN spool' \ DOMAIN spool : spool'[i].ev.epoch = 0

LEMMA CyclesOnlyAdded ==
  ASSUME TypeOK, Whence, NEW rows \in Seq(Rows), spool' = spool \o rows,
         \A n \in 1..Len(rows) : rows[n].ev \in Queued
  PROVE  CyclesOnly
<1>1. \A n \in 1..Len(rows) : rows[n].ev.epoch = 0
  <2> SUFFICES ASSUME NEW n \in 1..Len(rows) PROVE rows[n].ev.epoch = 0
    OBVIOUS
  <2>1. rows[n].ev \in {Cycle(c) : c \in 1..cycles}
    BY DEF Whence, Queued
  <2> QED
    BY <2>1 DEF Cycle
<1> QED
  BY <1>1, AddedRows DEF CyclesOnly

LEMMA WorkerStoresRows ==
  ASSUME IInv, WorkerStores
  PROVE  \E rows \in Seq(Rows) :
           spool' = spool \o rows /\ \A n \in 1..Len(rows) : rows[n].ev \in Queued
<1>0. TypeOK
  BY DEF IInv
<1>1. /\ waiting # <<>> /\ waiting \in Seq(Event)
      /\ spool' = Append(spool, Row(Head(waiting)))
  BY <1>0 DEF TypeOK, WorkerStores
<1>2. Head(waiting) \in Event /\ Elements(waiting) = {Head(waiting)} \cup Elements(Tail(waiting))
  BY <1>1, ElementsTail
<1>3. Row(Head(waiting)) \in Rows /\ Row(Head(waiting)).ev = Head(waiting)
  BY <1>2, RowIsRow
<1> DEFINE new == <<Row(Head(waiting))>>
<1>4. /\ new \in Seq(Rows) /\ Len(new) = 1 /\ new[1] = Row(Head(waiting))
      /\ spool' = spool \o new
  BY <1>0, <1>1, <1>3, SpoolIsSeq, AppendIsConcat
<1>5. \A n \in 1..Len(new) : new[n].ev \in Queued
  BY <1>2, <1>3, <1>4 DEF Queued
<1> QED
  BY <1>4, <1>5

LEMMA StoppedCleanlyRows ==
  ASSUME IInv, StoppedCleanly
  PROVE  \E rows \in Seq(Rows) :
           spool' = spool \o rows /\ \A n \in 1..Len(rows) : rows[n].ev \in Queued
<1>0. TypeOK
  BY DEF IInv
<1> DEFINE left == waiting \o facts
<1>1. PICK k \in 0..Len(left) : spool' = spool \o [n \in 1..k |-> Row(left[n])]
  BY DEF StoppedCleanly
<1>2. /\ left \in Seq(Event) /\ Elements(left) = Elements(waiting) \cup Elements(facts)
      /\ DOMAIN left = 1..Len(left) /\ Len(left) \in Nat
  <2>1. left \in Seq(Event)
    BY <1>0, ConcatProperties DEF TypeOK
  <2> QED
    BY <1>0, <2>1, ElementsConcat, LenProperties DEF TypeOK
<1> HIDE DEF left
<1> DEFINE rows == [n \in 1..k |-> Row(left[n])]
<1>3. rows \in Seq(Rows) /\ Len(rows) = k /\ spool' = spool \o rows
  BY <1>1, <1>2, FirstRows
<1>4. \A n \in 1..k : n \in DOMAIN left /\ rows[n].ev = left[n]
  BY <1>2 DEF Row
<1>5. \A n \in 1..Len(rows) : rows[n].ev \in Queued
  BY <1>2, <1>3, <1>4 DEF Queued, Elements
<1> QED
  BY <1>3, <1>5

LEMMA RowsKeptOrCycles ==
  ASSUME IInv, Whence, [Next]_vars PROVE WorkerAppends \/ CyclesOnly
<1>0. TypeOK
  BY DEF IInv
<1>1. CASE WorkerStores
  BY <1>0, <1>1, WorkerStoresRows, CyclesOnlyAdded
<1>2. CASE StoppedCleanly
  BY <1>0, <1>2, StoppedCleanlyRows, CyclesOnlyAdded
<1>3. CASE WorkerPrunes \/ ForwarderAcks
  <2>1. DOMAIN spool' = DOMAIN spool
    BY <1>3 DEF WorkerPrunes, ForwarderAcks
  <2>2. Grows
    BY <1>0, <1>3, WorkerPrunesType, ForwarderAcksType DEF IInv
  <2> QED
    BY <2>1, <2>2 DEF CyclesOnly
<1>4. CASE UNCHANGED spool
  BY <1>4 DEF CyclesOnly, Grows
<1>5. WorkerAppends \/ WorkerStores \/ StoppedCleanly \/ WorkerPrunes \/ ForwarderAcks \/ UNCHANGED spool
  BY DEF Next, Worker, MillWrightAdds, MillWrightPrunes, MillWrightStartsAgain, CycleEnds,
         WorkerCollects, WorkerStoreRefused, WorkerStoredAll, WorkerReads,
         WorkerReadsNothing, WorkerAppendRefused, WorkerAcks, WorkerAckFails,
         ForwarderSends, ServiceHandles, NetworkLoses,
         ForwarderGivesUp, Killed, vars, disk
<1> QED
  BY <1>1, <1>2, <1>3, <1>4, <1>5


LEMMA CopiedStays ==
  ASSUME CyclesOnly, NEW e, e # 0
  PROVE  Copied(e)' = Copied(e) /\ (Numbered(e) => Numbered(e)')
<1>1. Copied(e)' = Copied(e)
  BY DEF CyclesOnly, Grows, Copied
<1> QED
  BY <1>1, NumbersStay DEF CyclesOnly

LEMMA InitInOrder == Init => InOrder
<1> SUFFICES ASSUME Init PROVE InOrder
  OBVIOUS
<1>1. DOMAIN spool = {}
  BY EmptySeq, LenProperties DEF Init
<1> QED
  BY <1>1 DEF Init, InOrder, Numbered, Copied, NoAck

\* What the places say of each other once the rows are as they were.
LEMMA PlacesInOrder ==
  ASSUME IInv, InOrder, Whence, [Next]_vars, ~WorkerAppends
  PROVE  /\ cursor' = cursor
         /\ ack'.epoch <= cursor.epoch /\ (ack'.epoch = cursor.epoch => ack'.seq <= cursor.pos)
         /\ outbox'.low # 0 => cursor.epoch = outbox'.epoch /\ outbox'.low <= cursor.pos
         /\ wpc' = "append" =>
              /\ read'.epoch >= cursor.epoch
              /\ read'.from = 1 + (IF read'.epoch = cursor.epoch THEN cursor.pos ELSE 0)
<1>0. /\ outbox \in [epoch : Nat, low : Nat, last : Nat] /\ ack \in [epoch : Nat, seq : Nat]
      /\ cursor \in [epoch : Nat, pos : Nat] /\ read \in [epoch : Nat, from : Nat, to : Nat]
      /\ cursor.epoch <= outbox.epoch /\ ack.epoch <= outbox.epoch
      /\ (wpc = "ack" => cursor.epoch = read.epoch /\ cursor.pos = read.to)
  BY DEF IInv, TypeOK, Places, NotAhead, Durable
<1>1. UNCHANGED cursor
  BY DEF Next, Worker, MillWrightAdds, MillWrightPrunes, MillWrightStartsAgain, CycleEnds,
         WorkerCollects, WorkerStores, WorkerStoreRefused, WorkerStoredAll, WorkerReads,
         WorkerReadsNothing, WorkerAppendRefused, WorkerAcks, WorkerAckFails,
         WorkerPrunes, ForwarderSends, ServiceHandles, NetworkLoses, ForwarderAcks,
         ForwarderGivesUp, Killed, StoppedCleanly, Restarted, vars, disk
<1>2. ack'.epoch <= cursor.epoch /\ (ack'.epoch = cursor.epoch => ack'.seq <= cursor.pos)
  <2>1. CASE WorkerReadsNothing
    BY <1>0, <2>1 DEF WorkerReadsNothing, AckAgain, InOrder
  <2>2. CASE WorkerAcks
    BY <1>0, <2>2 DEF WorkerAcks, InOrder
  <2>3. CASE UNCHANGED ack
    BY <2>3 DEF InOrder
  <2>4. WorkerReadsNothing \/ WorkerAcks \/ UNCHANGED ack
    BY DEF Next, Worker, MillWrightAdds, MillWrightPrunes, MillWrightStartsAgain, CycleEnds,
           WorkerCollects, WorkerStores, WorkerStoreRefused, WorkerStoredAll, WorkerReads,
           WorkerAppendRefused, WorkerAckFails, WorkerPrunes, ForwarderSends,
           ServiceHandles, NetworkLoses, ForwarderAcks, ForwarderGivesUp, Killed,
           StoppedCleanly, Restarted, vars, link
  <2> QED
    BY <2>1, <2>2, <2>3, <2>4
<1>3. outbox'.low # 0 => cursor.epoch = outbox'.epoch /\ outbox'.low <= cursor.pos
  <2>1. CASE MillWrightAdds
    BY <1>0, <2>1 DEF MillWrightAdds, InOrder
  <2>2. CASE MillWrightPrunes
    BY <1>0, <2>2 DEF MillWrightPrunes, InOrder
  <2>3. CASE MillWrightStartsAgain
    BY <2>3 DEF MillWrightStartsAgain
  <2>4. CASE UNCHANGED outbox
    BY <2>4 DEF InOrder
  <2>5. MillWrightAdds \/ MillWrightPrunes \/ MillWrightStartsAgain \/ UNCHANGED outbox
    BY DEF Next, Worker, CycleEnds, WorkerCollects, WorkerStores, WorkerStoreRefused,
           WorkerStoredAll, WorkerReads, WorkerReadsNothing, WorkerAppends,
           WorkerAppendRefused, WorkerAcks, WorkerAckFails, WorkerPrunes, ForwarderSends,
           ServiceHandles, NetworkLoses, ForwarderAcks, ForwarderGivesUp, Killed,
           StoppedCleanly, Restarted, vars, link
  <2> QED
    BY <2>1, <2>2, <2>3, <2>4, <2>5
<1>4. wpc' = "append" =>
        /\ read'.epoch >= cursor.epoch
        /\ read'.from = 1 + (IF read'.epoch = cursor.epoch THEN cursor.pos ELSE 0)
  <2>1. CASE WorkerReads
    <3>1. read'.epoch = outbox.epoch /\ read'.from = Larger(ReadPos, outbox.low) + 1
      BY <2>1, WorkerReadsType
    <3>2. outbox.low # 0 => cursor.epoch = outbox.epoch /\ outbox.low <= cursor.pos
      BY DEF InOrder
    <3> QED
      BY <1>0, <3>1, <3>2 DEF Larger, ReadPos
  <2>2. CASE wpc' # "append"
    BY <2>2
  <2>3. CASE UNCHANGED <<wpc, read>>
    BY <2>3 DEF InOrder
  <2>4. WorkerReads \/ wpc' # "append" \/ UNCHANGED <<wpc, read>>
    BY DEF Next, Worker, MillWrightAdds, MillWrightPrunes, MillWrightStartsAgain, CycleEnds,
           WorkerCollects, WorkerStores, WorkerStoreRefused, WorkerStoredAll,
           WorkerReadsNothing, WorkerAppends, WorkerAppendRefused, AfterRefused, WorkerAcks,
           WorkerAckFails, WorkerPrunes, ForwarderSends, ServiceHandles, NetworkLoses,
           ForwarderAcks, ForwarderGivesUp, Killed, StoppedCleanly, Restarted, vars, worker
  <2> QED
    BY <2>1, <2>2, <2>3, <2>4
<1> QED
  BY <1>1, <1>2, <1>3, <1>4

LEMMA InOrderStep ==
  ASSUME IInv, InOrder, Whence, [Next]_vars PROVE InOrder'
<1>0. /\ outbox \in [epoch : Nat, low : Nat, last : Nat] /\ ack \in [epoch : Nat, seq : Nat]
      /\ cursor \in [epoch : Nat, pos : Nat] /\ read \in [epoch : Nat, from : Nat, to : Nat]
      /\ cursor.epoch <= outbox.epoch /\ NotAhead(read.epoch, read.to)
      /\ read.from >= 1 /\ read.from <= read.to + 1
  BY DEF IInv, TypeOK, Places, NotAhead
<1>1. CASE WorkerAppends
  <2> PICK f \in Nat : f = read.epoch
    BY <1>0
  <2>1. /\ Numbered(f)' /\ Cardinality(Copied(f)') = read.to
        /\ \A e : e # f => Copied(e)' = Copied(e)
        /\ \A i \in DOMAIN spool' : spool'[i].ev.epoch <= f
    BY <1>1, AppendNumbers
  <2>2. /\ wpc = "append" /\ wpc' = "ack" /\ UNCHANGED <<outbox, ack, read>>
        /\ cursor' = [epoch |-> f, pos |-> read.to]
    BY <1>1 DEF WorkerAppends, NewPos, link
  <2>3. /\ f >= cursor.epoch
        /\ read.from = 1 + (IF f = cursor.epoch THEN cursor.pos ELSE 0)
    BY <2>2 DEF InOrder
  <2>4. ASSUME NEW e \in Nat \ {0} PROVE Numbered(e)'
    <3>1. CASE e = f
      BY <2>1, <3>1 DEF Numbered
    <3>2. CASE e # f
      <4>1. Grows /\ Copied(e)' = Copied(e) /\ Numbered(e)
        BY <1>1, <2>1, <3>2, WorkerAppendsType DEF InOrder
      <4> QED
        BY <4>1, NumbersStay
    <3> QED
      BY <3>1, <3>2
  <2>5. \A i \in DOMAIN spool' : spool'[i].ev.epoch <= cursor'.epoch
    BY <2>1, <2>2
  <2>6. Cardinality(Copied(cursor.epoch))' = cursor'.pos
    <3>1. Copied(cursor.epoch)' = Copied(f)'
      BY <2>2 DEF Copied
    <3> QED
      BY <2>1, <2>2, <3>1
  <2>7. ack'.epoch <= cursor'.epoch /\ (ack'.epoch = cursor'.epoch => ack'.seq <= cursor'.pos)
    BY <1>0, <2>2, <2>3 DEF InOrder
  <2>8. outbox'.low # 0 => cursor'.epoch = outbox'.epoch /\ outbox'.low <= cursor'.pos
    BY <1>0, <2>2, <2>3 DEF InOrder, NotAhead
  <2> QED
    BY <2>2, <2>4, <2>5, <2>6, <2>7, <2>8 DEF InOrder
<1>2. CASE ~WorkerAppends
  <2>1. CyclesOnly
    BY <1>2, RowsKeptOrCycles
  <2>2. cursor' = cursor
    BY <1>2, PlacesInOrder
  <2>3. ASSUME NEW e \in Nat \ {0} PROVE Numbered(e)' /\ Copied(e)' = Copied(e)
    BY <2>1, <2>3, CopiedStays DEF InOrder
  <2>4. ASSUME NEW i \in DOMAIN spool' PROVE spool'[i].ev.epoch <= cursor'.epoch
    BY <1>0, <2>1, <2>2 DEF CyclesOnly, Grows, InOrder
  <2>5. cursor'.epoch # 0 => cursor'.pos = Cardinality(Copied(cursor.epoch))'
    <3> PICK f \in Nat : f = cursor.epoch
      BY <1>0
    <3>1. Copied(cursor.epoch)' = Copied(f)'
      BY <2>2 DEF Copied
    <3>2. f # 0 => cursor.pos = Cardinality(Copied(f)')
      <4>1. f # 0 => Copied(f)' = Copied(f)
        BY <2>3
      <4> QED
        BY <4>1 DEF InOrder
    <3> QED
      BY <2>2, <3>1, <3>2
  <2> QED
    BY <1>2, <2>2, <2>3, <2>4, <2>5, PlacesInOrder DEF InOrder
<1> QED
  BY <1>1, <1>2

\* The rows of an outbox epoch are copied in order, each once, without a hole,
\* up to the cursor (OutboxReader.step, append with its cursor).
THEOREM SpecCopiedInOrder == Spec => []CopiedInOrder
<1>1. Init => IInv /\ Whence /\ InOrder
  BY InitInv, InitWhence, InitInOrder
<1>2. IInv /\ Whence /\ InOrder /\ [Next]_vars => (IInv /\ Whence /\ InOrder)'
  BY StepInv, WhenceStep, InOrderStep
<1>3. IInv /\ Whence /\ InOrder => CopiedInOrder
  <2> SUFFICES ASSUME IInv, InOrder, NEW e \in 1..outbox.epoch
               PROVE  /\ \A i \in Copied(e) :
                           spool[i].ev.seq = Cardinality({j \in Copied(e) : j <= i})
                      /\ cursor.epoch = e => cursor.pos = Cardinality(Copied(e))
    BY DEF CopiedInOrder
  <2>1. e \in Nat \ {0}
    BY DEF IInv, TypeOK
  <2> QED
    BY <2>1 DEF InOrder, Numbered, Rank
<1> QED
  BY <1>1, <1>2, <1>3, PTL DEF Spec

\* What is acknowledged moves on: what worker and reader write is the cursor, and
\* the acknowledgement is not ahead of it.
LEMMA AckStep ==
  ASSUME IInv, InOrder, [Next]_vars
  PROVE  ack.epoch < ack'.epoch \/ (ack.epoch = ack'.epoch /\ ack.seq <= ack'.seq)
<1>1. /\ ack.epoch \in Nat /\ ack.seq \in Nat /\ cursor.epoch \in Nat /\ cursor.pos \in Nat
      /\ ack.epoch <= cursor.epoch /\ (ack.epoch = cursor.epoch => ack.seq <= cursor.pos)
  <2>1. ack \in [epoch : Nat, seq : Nat] /\ cursor \in [epoch : Nat, pos : Nat]
    BY DEF IInv, TypeOK
  <2> QED
    BY <2>1 DEF InOrder
<1>2. CASE ack' = [epoch |-> cursor.epoch, seq |-> cursor.pos]
  BY <1>1, <1>2
<1>3. CASE ack' = ack
  BY <1>1, <1>3
<1>4. ack' = ack \/ ack' = [epoch |-> cursor.epoch, seq |-> cursor.pos]
  <2>1. CASE WorkerReadsNothing
    BY <2>1 DEF WorkerReadsNothing, AckAgain
  <2>2. CASE WorkerAcks
    BY <2>2 DEF WorkerAcks, IInv, Durable
  <2>3. WorkerReadsNothing \/ WorkerAcks \/ UNCHANGED ack
    BY DEF Next, Worker, MillWrightAdds, MillWrightPrunes, MillWrightStartsAgain, CycleEnds,
           WorkerCollects, WorkerStores, WorkerStoreRefused, WorkerStoredAll, WorkerReads,
           WorkerAppends, WorkerAppendRefused, WorkerAckFails, WorkerPrunes, ForwarderSends,
           ServiceHandles, NetworkLoses, ForwarderAcks, ForwarderGivesUp, Killed,
           StoppedCleanly, Restarted, vars, link
  <2> QED
    BY <2>1, <2>2, <2>3
<1> QED
  BY <1>2, <1>3, <1>4

\* mes_ack.json never goes back, to an earlier event or an earlier outbox
\* (OutboxReader.step, write_ack).
THEOREM SpecAckMovesOn == Spec => AckMovesOn
<1>1. Init => IInv /\ Whence /\ InOrder
  BY InitInv, InitWhence, InitInOrder
<1>2. IInv /\ Whence /\ InOrder /\ [Next]_vars => (IInv /\ Whence /\ InOrder)'
  BY StepInv, WhenceStep, InOrderStep
<1>3. IInv /\ InOrder /\ [Next]_vars
      => [ack.epoch < ack'.epoch \/ (ack.epoch = ack'.epoch /\ ack.seq <= ack'.seq)]_vars
  BY AckStep
<1> QED
  BY <1>1, <1>2, <1>3, PTL DEF Spec, AckMovesOn

-----------------------------------------------------------------------------
\* Where the cycles are

\* The cycles on their way to the spool, the oldest first.
Line == waiting \o facts

Once(s) == \A i, j \in DOMAIN s : s[i] = s[j] => i = j

CycleRows == {spool[i].ev : i \in Copied(0)}

\* The cycles that ended are the ones on their way, the rows of the agent's own
\* and the ones given up; each is in one place, and there once.
Accounted ==
  /\ {Cycle(n) : n \in 1..cycles} = Elements(Line) \cup CycleRows \cup dropped
  /\ Elements(Line) \cap CycleRows = {} /\ Elements(Line) \cap dropped = {}
  /\ CycleRows \cap dropped = {}
  /\ Once(Line)
  /\ \A i, j \in Copied(0) : spool[i].ev = spool[j].ev => i = j

LEMMA LineIsSeq ==
  ASSUME TypeOK
  PROVE  /\ Line \in Seq(Event) /\ Len(Line) \in Nat /\ DOMAIN Line = 1..Len(Line)
         /\ Elements(Line) = Queued
<1>1. Line \in Seq(Event)
  BY ConcatProperties DEF TypeOK, Line
<1> QED
  BY <1>1, LenProperties, ElementsConcat DEF TypeOK, Line, Queued

\* The cycle that ends is at the end of the line, or given up.
LEMMA CycleEndsAccounted ==
  ASSUME IInv, Accounted, CycleEnds PROVE Accounted'
<1> DEFINE c == Cycle(cycles + 1)
<1> PICK L \in Seq(Event) : L = Line
  BY LineIsSeq DEF IInv
<1>0. /\ TypeOK /\ cycles \in Nat /\ c \in Event /\ cycles' = cycles + 1
      /\ waiting' = waiting /\ UNCHANGED <<spool>>
      /\ waiting \in Seq(Event) /\ facts \in Seq(Event)
  <2>1. TypeOK
    BY DEF IInv
  <2>2. cycles \in Nat /\ waiting \in Seq(Event) /\ facts \in Seq(Event)
    BY <2>1 DEF TypeOK
  <2>3. cycles + 1 \in Nat
    BY <2>2
  <2>4. c \in Event
    BY <2>3, CycleIsEvent
  <2>5. cycles' = cycles + 1 /\ waiting' = waiting /\ UNCHANGED <<spool>>
    BY DEF CycleEnds, worker, disk
  <2> QED
    BY <2>1, <2>2, <2>4, <2>5
<1>1. {Cycle(n) : n \in 1..cycles'} = {Cycle(n) : n \in 1..cycles} \cup {c}
  <2>1. 1..cycles' = 1..cycles \cup {cycles + 1}
    BY <1>0
  <2> QED
    BY <2>1
<1>2. c \notin {Cycle(n) : n \in 1..cycles}
  <2> SUFFICES ASSUME NEW n \in 1..cycles, c = Cycle(n) PROVE FALSE
    OBVIOUS
  <2>1. n = cycles + 1
    BY DEF Cycle
  <2> QED
    BY <1>0, <2>1
<1>3. Copied(0)' = Copied(0) /\ CycleRows' = CycleRows
  BY <1>0 DEF Copied, CycleRows
<1>4. CASE facts' = facts /\ dropped' = dropped \cup {c}
  <2>1. Line' = L
    BY <1>0, <1>4 DEF Line
  <2>2. Elements(Line)' = Elements(L)
    BY <2>1 DEF Elements
  <2> QED
    BY <1>0, <1>1, <1>2, <1>3, <1>4, <2>1, <2>2 DEF Accounted
<1>5. CASE facts' = Append(facts, c) /\ dropped' = dropped
  <2>1. Line' = Append(L, c)
    BY <1>0, <1>5, AppendIsConcat, ConcatAssociative DEF Line
  <2>2. Elements(Line)' = Elements(L) \cup {c}
    <3>1. Elements(Line)' = Elements(Append(L, c))
      BY <2>1 DEF Elements
    <3> QED
      BY <1>0, <3>1, ElementsAppend
  <2>3. /\ Len(L) \in Nat /\ DOMAIN L = 1..Len(L)
        /\ DOMAIN Append(L, c) = 1..(Len(L) + 1) /\ Append(L, c)[Len(L) + 1] = c
        /\ \A i \in 1..Len(L) : Append(L, c)[i] = L[i]
    BY <1>0, AppendProperties, LenProperties
  <2>4. c \notin Elements(L)
    BY <1>2 DEF Accounted
  <2>5. Once(Line)'
    <3> SUFFICES ASSUME NEW i \in 1..(Len(L) + 1), NEW j \in 1..(Len(L) + 1),
                        Append(L, c)[i] = Append(L, c)[j]
                 PROVE  i = j
      BY <2>1, <2>3 DEF Once
    <3>1. CASE i \in 1..Len(L) /\ j \in 1..Len(L)
      BY <2>3, <3>1 DEF Accounted, Once
    <3>2. CASE i = Len(L) + 1 \/ j = Len(L) + 1
      BY <2>3, <2>4, <3>2 DEF Elements
    <3> QED
      BY <2>3, <3>1, <3>2
  <2> QED
    BY <1>0, <1>1, <1>2, <1>3, <1>5, <2>2, <2>4, <2>5 DEF Accounted
<1> QED
  BY <1>4, <1>5 DEF CycleEnds

\* The first k of the line L leave it, R is left: j are stored, the others given up.
Leaves(L, R, k, j, rows) ==
  /\ j <= k /\ k <= Len(L)
  /\ Len(R) = Len(L) - k /\ \A n \in 1..Len(R) : R[n] = L[n + k]
  /\ Len(rows) = j /\ \A n \in 1..j : rows[n].ev = L[n]
  /\ spool' = spool \o rows
  /\ dropped' = dropped \cup {L[n] : n \in (j + 1)..k}

\* Such a step, of a line that nothing joins.
Shifts ==
  /\ cycles' = cycles
  /\ \E L, R \in Seq(Event), j, k \in Nat, rows \in Seq(Rows) :
       L = Line /\ R = Line' /\ Leaves(L, R, k, j, rows)

\* The rows after a step: those there were, and behind them the first j of L.
StoredBehind(L, j, m) ==
  /\ Copied(0)' = Copied(0) \cup (m + 1)..(m + j)
  /\ \A i \in Copied(0) : spool'[i].ev = spool[i].ev
  /\ \A n \in 1..j : spool'[m + n].ev = L[n]

\* What is stored of the line is behind the rows there were, in its order.
LEMMA LeavesRows ==
  ASSUME TypeOK, Whence, NEW L \in Seq(Event), L = Line, NEW R, NEW j \in Nat, NEW k \in Nat,
         NEW rows \in Seq(Rows), Leaves(L, R, k, j, rows), NEW m, m = Len(spool)
  PROVE  StoredBehind(L, j, m)
<1>1. /\ j <= k /\ k <= Len(L) /\ Len(rows) = j /\ \A n \in 1..j : rows[n].ev = L[n]
      /\ spool' = spool \o rows
  BY DEF Leaves
<1>2. DOMAIN L = 1..Len(L) /\ Len(L) \in Nat /\ 1..j \subseteq 1..Len(L)
  BY <1>1, LenProperties
<1>3. \A n \in 1..j : rows[n].ev.epoch = 0
  <2> SUFFICES ASSUME NEW n \in 1..j PROVE L[n].epoch = 0
    BY <1>1
  <2>1. L[n] \in Queued
    BY <1>2, LineIsSeq DEF Elements
  <2> QED
    BY <2>1 DEF Whence, Queued, Cycle
<1>4. Copied(0)' = Copied(0) \cup (m + 1)..(m + j)
  BY <1>1, <1>3, CopiedGrows
<1>5. \A i \in Copied(0) : spool'[i].ev = spool[i].ev
  BY <1>1, AddedRows DEF Grows, Copied
<1>6. \A n \in 1..j : spool'[m + n].ev = L[n]
  BY <1>1, AddedRows
<1> QED
  BY <1>4, <1>5, <1>6 DEF StoredBehind

LEMMA LineMoves ==
  ASSUME IInv, Whence, Accounted, Shifts
  PROVE  Accounted'
<1> PICK L \in Seq(Event), R \in Seq(Event), j \in Nat, k \in Nat, rows \in Seq(Rows) :
       L = Line /\ R = Line' /\ Leaves(L, R, k, j, rows)
  BY DEF Shifts
<1>b. cycles' = cycles
  BY DEF Shifts
<1>a. /\ j <= k /\ k <= Len(L)
      /\ Len(R) = Len(L) - k /\ \A n \in 1..Len(R) : R[n] = L[n + k]
      /\ Len(rows) = j /\ \A n \in 1..j : rows[n].ev = L[n]
      /\ spool' = spool \o rows
      /\ dropped' = dropped \cup {L[n] : n \in (j + 1)..k}
  BY DEF Leaves
<1> USE <1>a
<1> PICK m \in Nat : m = Len(spool)
  BY CopiedIsFinite DEF IInv
<1>0. /\ TypeOK /\ Len(L) \in Nat /\ DOMAIN L = 1..Len(L) /\ Len(R) \in Nat /\ DOMAIN R = 1..Len(R)
      /\ DOMAIN spool = 1..m /\ Copied(0) \subseteq 1..m
  BY LenProperties, CopiedIsFinite DEF IInv
<1>1. Elements(L) = {L[n] : n \in 1..j} \cup {L[n] : n \in (j + 1)..k} \cup Elements(R)
  <2>1. ASSUME NEW i \in 1..Len(L)
        PROVE  L[i] \in {L[n] : n \in 1..j} \cup {L[n] : n \in (j + 1)..k} \cup Elements(R)
    <3>1. CASE i <= j
      BY <3>1
    <3>2. CASE i > j /\ i <= k
      BY <3>2
    <3>3. CASE i > k
      <4>1. i - k \in 1..Len(R) /\ R[i - k] = L[i]
        BY <1>0, <3>3
      <4> QED
        BY <1>0, <4>1 DEF Elements
    <3> QED
      BY <1>0, <3>1, <3>2, <3>3
  <2>2. 1..j \subseteq 1..Len(L) /\ (j + 1)..k \subseteq 1..Len(L)
    BY <1>0
  <2>3. \A n \in 1..Len(R) : n + k \in 1..Len(L) /\ R[n] = L[n + k]
    BY <1>0
  <2>4. Elements(L) = {L[i] : i \in 1..Len(L)} /\ Elements(R) = {R[i] : i \in 1..Len(R)}
    BY <1>0 DEF Elements
  <2>5. Elements(R) \subseteq Elements(L)
    BY <2>3, <2>4
  <2>6. {L[n] : n \in 1..j} \subseteq Elements(L) /\ {L[n] : n \in (j + 1)..k} \subseteq Elements(L)
    BY <2>2, <2>4
  <2> DEFINE A == {L[n] : n \in 1..j}
             B == {L[n] : n \in (j + 1)..k}
  <2>7. \A i \in 1..Len(L) : L[i] \in A \cup B \cup Elements(R)
    BY <2>1
  <2>8. A \subseteq Elements(L) /\ B \subseteq Elements(L)
    BY <2>6
  <2> HIDE DEF A, B
  <2>9. Elements(L) \subseteq A \cup B \cup Elements(R)
    <3> SUFFICES ASSUME NEW x \in Elements(L) PROVE x \in A \cup B \cup Elements(R)
      OBVIOUS
    <3>1. PICK i \in 1..Len(L) : x = L[i]
      BY <2>4
    <3> QED
      BY <2>7, <3>1
  <2>10. Elements(L) = A \cup B \cup Elements(R)
    BY <2>5, <2>8, <2>9
  <2> QED
    BY <2>10 DEF A, B
<1>2. \A a, b \in 1..Len(L) : L[a] = L[b] => a = b
  BY <1>0 DEF Accounted, Once
<1>3. /\ {L[n] : n \in 1..j} \cap {L[n] : n \in (j + 1)..k} = {}
      /\ {L[n] : n \in 1..j} \cap Elements(R) = {}
      /\ {L[n] : n \in (j + 1)..k} \cap Elements(R) = {}
  <2>1. ASSUME NEW a \in 1..j, NEW b \in (j + 1)..k PROVE L[a] # L[b]
    <3>1. a \in 1..Len(L) /\ b \in 1..Len(L) /\ a # b
      BY <1>0
    <3> QED
      BY <1>2, <3>1
  <2>2. ASSUME NEW a \in 1..k, NEW b \in 1..Len(R) PROVE L[a] # R[b]
    <3>1. a \in 1..Len(L) /\ b + k \in 1..Len(L) /\ a # b + k
      BY <1>0
    <3> QED
      BY <1>2, <3>1
  <2>3. 1..j \subseteq 1..k /\ (j + 1)..k \subseteq 1..k
    OBVIOUS
  <2> QED
    BY <1>0, <2>1, <2>2, <2>3 DEF Elements
<1>c. StoredBehind(L, j, m)
  BY <1>0, LeavesRows
<1>5. Copied(0)' = Copied(0) \cup (m + 1)..(m + j)
  BY <1>c DEF StoredBehind
<1>6. /\ \A i \in Copied(0) : spool'[i].ev = spool[i].ev
      /\ \A n \in 1..j : spool'[m + n].ev = L[n]
  BY <1>c DEF StoredBehind
<1>7. CycleRows' = CycleRows \cup {L[n] : n \in 1..j}
  <2>1. CycleRows' = {spool'[i].ev : i \in Copied(0)'}
    BY DEF CycleRows
  <2>2. ASSUME NEW i \in (m + 1)..(m + j) PROVE spool'[i].ev \in {L[n] : n \in 1..j}
    <3>1. i - m \in 1..j /\ i = m + (i - m)
      OBVIOUS
    <3> QED
      BY <1>6, <3>1
  <2>3. ASSUME NEW n \in 1..j PROVE m + n \in (m + 1)..(m + j)
    OBVIOUS
  <2>4. \A n \in 1..j : L[n] \in CycleRows'
    BY <1>5, <1>6, <2>1, <2>3
  <2>5. ASSUME NEW i \in Copied(0) PROVE spool[i].ev \in CycleRows'
    BY <1>5, <1>6, <2>1
  <2>6. ASSUME NEW i \in Copied(0)' PROVE spool'[i].ev \in CycleRows \cup {L[n] : n \in 1..j}
    <3>1. CASE i \in Copied(0)
      BY <1>6, <3>1 DEF CycleRows
    <3>2. CASE i \in (m + 1)..(m + j)
      BY <2>2, <3>2
    <3> QED
      BY <1>5, <3>1, <3>2
  <2>7. CycleRows \subseteq CycleRows'
    BY <2>5 DEF CycleRows
  <2> DEFINE A == {L[n] : n \in 1..j}
  <2>8. A \subseteq CycleRows'
    BY <2>4
  <2>9. \A i \in Copied(0)' : spool'[i].ev \in CycleRows \cup A
    BY <2>6
  <2> HIDE DEF A
  <2>10. CycleRows' \subseteq CycleRows \cup A
    BY <2>1, <2>9
  <2>11. CycleRows' = CycleRows \cup A
    BY <2>7, <2>8, <2>10
  <2> QED
    BY <2>11 DEF A
<1>8. ASSUME NEW a \in Copied(0)', NEW b \in Copied(0)', spool'[a].ev = spool'[b].ev
      PROVE  a = b
  <2>1. CASE a \in Copied(0) /\ b \in Copied(0)
    BY <1>6, <1>8, <2>1 DEF Accounted
  <2>2. ASSUME NEW x \in Copied(0), NEW y \in (m + 1)..(m + j) PROVE spool'[x].ev # spool'[y].ev
    <3>1. y - m \in 1..j /\ y = m + (y - m)
      OBVIOUS
    <3>2. spool'[y].ev \in Elements(L)
      <4>1. spool'[m + (y - m)].ev = L[y - m]
        BY <1>6, <3>1
      <4>2. y - m \in 1..Len(L)
        BY <1>0, <3>1
      <4> QED
        BY <3>1, <4>1, <4>2 DEF Elements
    <3>3. spool'[x].ev \in CycleRows
      BY <1>6 DEF CycleRows
    <3> QED
      BY <3>2, <3>3 DEF Accounted
  <2>3. CASE a \in (m + 1)..(m + j) /\ b \in (m + 1)..(m + j)
    <3>1. a - m \in 1..j /\ a = m + (a - m) /\ b - m \in 1..j /\ b = m + (b - m)
      BY <2>3
    <3>2. L[a - m] = L[b - m]
      <4>1. spool'[m + (a - m)].ev = L[a - m] /\ spool'[m + (b - m)].ev = L[b - m]
        BY <1>6, <3>1
      <4> QED
        BY <1>8, <3>1, <4>1
    <3>3. a - m \in 1..Len(L) /\ b - m \in 1..Len(L)
      <4>1. 1..j \subseteq 1..Len(L)
        BY <1>0
      <4> QED
        BY <3>1, <4>1
    <3>4. a - m = b - m
      BY <1>2, <3>2, <3>3
    <3> QED
      BY <2>3, <3>4
  <2> QED
    BY <1>5, <1>8, <2>1, <2>2, <2>3
<1>9. Once(Line)'
  <2>1. \A a, b \in 1..Len(R) : R[a] = R[b] => a = b
    <3> SUFFICES ASSUME NEW a \in 1..Len(R), NEW b \in 1..Len(R), R[a] = R[b] PROVE a = b
      OBVIOUS
    <3>1. a + k \in 1..Len(L) /\ b + k \in 1..Len(L)
      BY <1>0
    <3>2. L[a + k] = L[b + k]
      BY <1>0
    <3>3. a + k = b + k
      BY <1>2, <3>1, <3>2
    <3> QED
      BY <3>3
  <2> QED
    BY <1>0, <2>1 DEF Once
<1>10. Elements(Line)' = Elements(R)
  BY DEF Elements
<1>11. {Cycle(n) : n \in 1..cycles}' = Elements(L) \cup CycleRows \cup dropped
  <2>1. {Cycle(n) : n \in 1..cycles}' = {Cycle(n) : n \in 1..cycles}
    BY <1>b
  <2> QED
    BY <2>1 DEF Accounted
<1> QED
  <2> DEFINE A == {L[n] : n \in 1..j}
             B == {L[n] : n \in (j + 1)..k}
  <2>1. Elements(L) \cap CycleRows = {} /\ Elements(L) \cap dropped = {} /\ CycleRows \cap dropped = {}
    BY DEF Accounted
  <2>2. /\ Elements(L) = A \cup B \cup Elements(R)
        /\ A \cap B = {} /\ A \cap Elements(R) = {} /\ B \cap Elements(R) = {}
        /\ CycleRows' = CycleRows \cup A /\ dropped' = dropped \cup B
    BY <1>1, <1>3, <1>7
  <2> HIDE DEF A, B
  <2> QED
    BY <1>8, <1>9, <1>10, <1>11, <2>1, <2>2 DEF Accounted

LEMMA NoRows == ASSUME TypeOK, UNCHANGED spool PROVE <<>> \in Seq(Rows) /\ Len(<<>>) = 0 /\ spool' = spool \o <<>>
  BY SpoolIsSeq, EmptySeq, ConcatEmptySeq

\* The worker takes the facts over: the line is as it was.
LEMMA WorkerCollectsLine ==
  ASSUME TypeOK, WorkerCollects PROVE Line' = Line
<1>1. waiting \in Seq(Event) /\ facts \in Seq(Event) /\ waiting \o facts \in Seq(Event)
  BY ConcatProperties DEF TypeOK
<1>2. waiting' = waiting \o facts /\ facts' = <<>>
  BY DEF WorkerCollects
<1> QED
  BY <1>1, <1>2, ConcatEmptySeq DEF Line

\* The line without the first that waits.
LEMMA LineTail ==
  ASSUME TypeOK, TypeOK', waiting # <<>>, waiting' = Tail(waiting), facts' = facts,
         NEW L \in Seq(Event), L = Line, NEW R \in Seq(Event), R = Line'
  PROVE  /\ 1 <= Len(L) /\ L[1] = Head(waiting)
         /\ Len(R) = Len(L) - 1 /\ \A n \in 1..Len(R) : R[n] = L[n + 1]
<1>1. waiting \in Seq(Event) /\ facts \in Seq(Event)
  BY DEF TypeOK
<1>2. /\ Head(waiting) = waiting[1] /\ Tail(waiting) \in Seq(Event)
      /\ Len(Tail(waiting)) = Len(waiting) - 1
      /\ \A i \in 1..(Len(waiting) - 1) : Tail(waiting)[i] = waiting[i + 1]
  BY <1>1, HeadTailProperties
<1>3. Len(waiting) \in Nat /\ Len(waiting) # 0 /\ Len(facts) \in Nat
  BY <1>1, LenProperties, EmptySeq
<1>4. /\ Len(L) = Len(waiting) + Len(facts)
      /\ \A i \in 1..(Len(waiting) + Len(facts)) :
           L[i] = IF i <= Len(waiting) THEN waiting[i] ELSE facts[i - Len(waiting)]
  BY <1>1, ConcatProperties DEF Line
<1>5. R = Tail(waiting) \o facts
  BY DEF Line
<1>6. /\ Len(R) = Len(Tail(waiting)) + Len(facts)
      /\ \A i \in 1..(Len(Tail(waiting)) + Len(facts)) :
           R[i] = IF i <= Len(Tail(waiting)) THEN Tail(waiting)[i]
                  ELSE facts[i - Len(Tail(waiting))]
  BY <1>1, <1>2, <1>5, ConcatProperties
<1>7. ASSUME NEW n \in 1..Len(R) PROVE R[n] = L[n + 1]
  <2>1. n + 1 \in 1..Len(L) /\ n \in 1..(Len(waiting) - 1 + Len(facts))
    BY <1>2, <1>3, <1>4, <1>6
  <2>2. CASE n <= Len(waiting) - 1
    BY <1>2, <1>3, <1>4, <1>6, <2>1, <2>2
  <2>3. CASE n > Len(waiting) - 1
    <3>1. R[n] = facts[n - (Len(waiting) - 1)] /\ L[n + 1] = facts[n + 1 - Len(waiting)]
      BY <1>2, <1>3, <1>4, <1>6, <2>1, <2>3
    <3>2. n - (Len(waiting) - 1) = n + 1 - Len(waiting)
      BY <1>3
    <3> QED
      BY <3>1, <3>2
  <2> QED
    BY <1>3, <2>2, <2>3
<1>8. 1 <= Len(L) /\ 1 \in 1..(Len(waiting) + Len(facts)) /\ 1 <= Len(waiting)
  BY <1>3, <1>4
<1>9. L[1] = Head(waiting)
  BY <1>2, <1>4, <1>8
<1>10. Len(R) = Len(L) - 1
  BY <1>2, <1>3, <1>4, <1>6
<1> QED
  BY <1>7, <1>8, <1>9, <1>10

LEMMA WorkerStoresShifts ==
  ASSUME IInv, WorkerStores PROVE Shifts
<1>0. TypeOK /\ TypeOK'
  BY WorkerStoresType DEF IInv
<1> PICK L \in Seq(Event) : L = Line
  BY <1>0, LineIsSeq
<1> PICK R \in Seq(Event) : R = Line'
  BY <1>0, ConcatProperties DEF TypeOK, Line
<1>1. /\ waiting # <<>> /\ waiting' = Tail(waiting) /\ facts' = facts /\ dropped' = dropped
      /\ cycles' = cycles /\ spool' = Append(spool, Row(Head(waiting)))
      /\ waiting \in Seq(Event)
  BY <1>0 DEF WorkerStores, AfterStore, sampler, TypeOK
<1>2. /\ 1 <= Len(L) /\ L[1] = Head(waiting)
      /\ Len(R) = Len(L) - 1 /\ \A n \in 1..Len(R) : R[n] = L[n + 1]
  BY <1>0, <1>1, LineTail
<1>3. Row(Head(waiting)) \in Rows /\ Row(Head(waiting)).ev = L[1]
  BY <1>1, <1>2, ElementsTail, RowIsRow
<1> DEFINE new == <<Row(Head(waiting))>>
<1>4. /\ new \in Seq(Rows) /\ Len(new) = 1 /\ new[1] = Row(Head(waiting))
      /\ spool' = spool \o new
  BY <1>0, <1>1, <1>3, SpoolIsSeq, AppendIsConcat
<1>5. \A n \in 1..1 : new[n].ev = L[n]
  BY <1>3, <1>4
<1>6. dropped' = dropped \cup {L[n] : n \in (1 + 1)..1}
  BY <1>1
<1> HIDE DEF new
<1> QED
  <2>1. Leaves(L, R, 1, 1, new)
    BY <1>2, <1>4, <1>5, <1>6 DEF Leaves
  <2> QED
    BY <1>1, <1>4, <2>1 DEF Shifts

LEMMA WorkerStoreRefusedShifts ==
  ASSUME IInv, WorkerStoreRefused,
         waiting' = Tail(waiting), dropped' = dropped \cup {Head(waiting)}
  PROVE  Shifts
<1>0. TypeOK /\ TypeOK'
  BY WorkerStoreRefusedType DEF IInv
<1> PICK L \in Seq(Event) : L = Line
  BY <1>0, LineIsSeq
<1> PICK R \in Seq(Event) : R = Line'
  BY <1>0, ConcatProperties DEF TypeOK, Line
<1>1. waiting # <<>> /\ facts' = facts /\ cycles' = cycles /\ UNCHANGED spool
  BY DEF WorkerStoreRefused, disk
<1>2. /\ 1 <= Len(L) /\ L[1] = Head(waiting)
      /\ Len(R) = Len(L) - 1 /\ \A n \in 1..Len(R) : R[n] = L[n + 1]
  BY <1>0, <1>1, LineTail
<1>3. <<>> \in Seq(Rows) /\ Len(<<>>) = 0 /\ spool' = spool \o <<>>
  BY <1>0, <1>1, NoRows
<1>4. dropped' = dropped \cup {L[n] : n \in (0 + 1)..1}
  <2>1. {L[n] : n \in (0 + 1)..1} = {L[1]}
    OBVIOUS
  <2> QED
    BY <1>2, <2>1
<1>5. \A n \in 1..0 : <<>>[n].ev = L[n]
  OBVIOUS
<1>6. PICK none \in Seq(Rows) :
        Len(none) = 0 /\ spool' = spool \o none /\ \A n \in 1..0 : none[n].ev = L[n]
  BY <1>3, <1>5
<1> QED
  <2>1. Leaves(L, R, 1, 0, none)
    BY <1>2, <1>4, <1>6 DEF Leaves
  <2> QED
    BY <1>1, <2>1 DEF Shifts

\* The process ends: the first k of the line are stored, the others given up.
LEMMA RestartShifts ==
  ASSUME IInv, TypeOK', Restarted, NEW L \in Seq(Event), L = Line,
         NEW k \in 0..Len(L), spool' = spool \o [n \in 1..k |-> Row(L[n])],
         dropped' = dropped \cup {L[n] : n \in (k + 1)..Len(L)}
  PROVE  Shifts
<1>1. facts' = <<>> /\ waiting' = <<>> /\ cycles' = cycles
  BY DEF Restarted
<1> PICK R \in Seq(Event) : R = Line'
  BY ConcatProperties DEF TypeOK, Line
<1>2. Len(R) = 0
  BY <1>1, EmptySeq, ConcatEmptySeq DEF Line
<1>3. Len(L) \in Nat /\ DOMAIN L = 1..Len(L) /\ k \in Nat /\ k <= Len(L)
  BY LenProperties
<1> DEFINE rows == [n \in 1..k |-> Row(L[n])]
<1>4. rows \in Seq(Rows) /\ Len(rows) = k /\ spool' = spool \o rows
  BY FirstRows
<1>5. \A n \in 1..k : rows[n].ev = L[n]
  BY DEF Row
<1> HIDE DEF rows
<1> QED
  <2>1. /\ Len(R) = Len(L) - Len(L) /\ \A n \in 1..Len(R) : R[n] = L[n + Len(L)]
    BY <1>2, <1>3
  <2>2. k <= Len(L) /\ Len(L) <= Len(L)
    BY <1>3
  <2>3. dropped' = dropped \cup {L[n] : n \in (k + 1)..Len(L)}
    OBVIOUS
  <2>4. Leaves(L, R, Len(L), k, rows)
    BY ONLY <1>4, <1>5, <2>1, <2>2, <2>3, Zenon DEF Leaves
  <2> QED
    BY <1>1, <1>3, <1>4, <2>4 DEF Shifts

LEMMA StoppedShifts ==
  ASSUME IInv, StoppedCleanly PROVE Shifts
<1>1. TypeOK' /\ TypeOK /\ Restarted
  BY StoppedCleanlyType DEF StoppedCleanly, IInv
<1> PICK L \in Seq(Event) : L = Line
  BY <1>1, LineIsSeq
<1> DEFINE left == waiting \o facts
<1>2. PICK k \in 0..Len(left) :
        /\ spool' = spool \o [n \in 1..k |-> Row(left[n])]
        /\ dropped' = dropped \cup {left[n] : n \in (k + 1)..Len(left)}
  BY DEF StoppedCleanly
<1>3. left = L
  BY DEF Line
<1> HIDE DEF left
<1>4. /\ k \in 0..Len(L) /\ spool' = spool \o [n \in 1..k |-> Row(L[n])]
      /\ dropped' = dropped \cup {L[n] : n \in (k + 1)..Len(L)}
  BY <1>2, <1>3
<1> QED
  BY <1>1, <1>4, RestartShifts

LEMMA KilledShifts ==
  ASSUME IInv, Killed PROVE Shifts
<1>1. /\ TypeOK' /\ TypeOK /\ Restarted /\ UNCHANGED spool
      /\ dropped' = dropped \cup Elements(waiting) \cup Elements(facts)
  BY KilledType DEF Killed, IInv
<1> PICK L \in Seq(Event) : L = Line
  BY <1>1, LineIsSeq
<1>2. Len(L) \in Nat /\ DOMAIN L = 1..Len(L) /\ Elements(L) = Elements(facts) \cup Elements(waiting)
  BY <1>1, LineIsSeq DEF Queued
<1>3. dropped' = dropped \cup {L[n] : n \in (0 + 1)..Len(L)}
  <2>1. Elements(L) = {L[n] : n \in (0 + 1)..Len(L)}
    BY <1>2 DEF Elements
  <2> QED
    BY <1>1, <1>2, <2>1
<1>4. spool' = spool \o [n \in 1..0 |-> Row(L[n])]
  <2>1. [n \in 1..0 |-> Row(L[n])] \in Seq(Rows) /\ Len([n \in 1..0 |-> Row(L[n])]) = 0
    BY <1>2, FirstRows
  <2>2. [n \in 1..0 |-> Row(L[n])] = <<>>
    BY <2>1, EmptySeq
  <2> QED
    BY <1>1, <2>2, NoRows
<1>5. 0 \in 0..Len(L)
  BY <1>2
<1> QED
  BY <1>1, <1>3, <1>4, <1>5, RestartShifts

\* The line and the agent's own rows as they were.
LEMMA AccountedStays ==
  ASSUME Accounted, Grows, Copied(0)' = Copied(0), Line' = Line, UNCHANGED <<dropped, cycles>>
  PROVE  Accounted'
<1>1. \A i \in Copied(0) : spool'[i].ev = spool[i].ev
  BY DEF Grows, Copied
<1>2. CycleRows' = CycleRows
  BY <1>1 DEF CycleRows
<1>3. Elements(Line)' = Elements(Line) /\ (Once(Line) => Once(Line)')
  BY DEF Elements, Once
<1> QED
  BY <1>1, <1>2, <1>3 DEF Accounted

\* A step is one of the line, or leaves the line and the agent's own rows as
\* they were.
LEMMA LineStep ==
  ASSUME IInv, InOrder, Whence, [Next]_vars
  PROVE  \/ CycleEnds
         \/ Shifts
         \/ Copied(0)' = Copied(0) /\ Line' = Line /\ UNCHANGED <<dropped, cycles>>
<1>0. TypeOK
  BY DEF IInv
<1> DEFINE Stays == Copied(0)' = Copied(0) /\ Line' = Line /\ UNCHANGED <<dropped, cycles>>
<1>1. CASE WorkerCollects
  <2>1. Line' = Line /\ UNCHANGED <<spool, dropped, cycles>>
    BY <1>0, <1>1, WorkerCollectsLine DEF WorkerCollects, disk
  <2> QED
    BY <2>1 DEF Copied
<1>2. CASE WorkerStores
  BY <1>2, WorkerStoresShifts
<1>3. CASE WorkerStoreRefused
  <2>1. CASE waiting' = Tail(waiting) /\ dropped' = dropped \cup {Head(waiting)}
    BY <1>3, <2>1, WorkerStoreRefusedShifts
  <2>2. CASE UNCHANGED <<waiting, dropped>>
    <3>1. Line' = Line /\ UNCHANGED <<spool, dropped, cycles>>
      BY <1>3, <2>2 DEF WorkerStoreRefused, disk, Line
    <3> QED
      BY <3>1 DEF Copied
  <2> QED
    BY <1>3, <2>1, <2>2 DEF WorkerStoreRefused
<1>4. CASE WorkerAppends
  <2>1. Line' = Line /\ UNCHANGED <<dropped, cycles>>
    BY <1>4 DEF WorkerAppends, sampler, Line
  <2> PICK f \in Nat : f = read.epoch
    BY <1>0 DEF TypeOK
  <2>2. f # 0
    BY <1>4 DEF Whence, WorkerAppends
  <2>3. Copied(0)' = Copied(0)
    BY <1>4, <2>2, AppendNumbers
  <2> QED
    BY <2>1, <2>3
<1>5. CASE WorkerPrunes \/ ForwarderAcks
  <2>1. DOMAIN spool' = DOMAIN spool
    BY <1>5 DEF WorkerPrunes, ForwarderAcks
  <2>2. Line' = Line /\ UNCHANGED <<dropped, cycles>>
    BY <1>5 DEF WorkerPrunes, ForwarderAcks, sampler, worker, Line
  <2>3. Grows
    BY <1>0, TypeStep
  <2> QED
    BY <2>1, <2>2, <2>3, SameRows
<1>6. CASE Killed
  BY <1>6, KilledShifts
<1>7. CASE StoppedCleanly
  BY <1>7, StoppedShifts
<1>8. CASE UNCHANGED <<facts, waiting, dropped, spool, cycles>>
  BY <1>8 DEF Line, Copied
<1>9. \/ UNCHANGED <<facts, waiting, dropped, spool, cycles>>
      \/ CycleEnds \/ WorkerCollects \/ WorkerStores \/ WorkerStoreRefused \/ WorkerAppends
      \/ WorkerPrunes \/ ForwarderAcks \/ Killed \/ StoppedCleanly
  BY DEF Next, Worker, MillWrightAdds, MillWrightPrunes, MillWrightStartsAgain,
         WorkerStoredAll, WorkerReads, WorkerReadsNothing, WorkerAppendRefused, WorkerAcks,
         WorkerAckFails, ForwarderSends, ServiceHandles, NetworkLoses, ForwarderGivesUp, vars,
         disk, sampler, worker
<1> HIDE DEF Stays
<1> QED
  BY <1>1, <1>2, <1>3, <1>4, <1>5, <1>6, <1>7, <1>8, <1>9 DEF Stays

LEMMA AccountedStep ==
  ASSUME IInv, InOrder, Whence, Accounted, [Next]_vars PROVE Accounted'
<1>1. Grows
  BY TypeStep DEF IInv
<1> QED
  BY <1>1, LineStep, CycleEndsAccounted, LineMoves, AccountedStays

LEMMA InitAccounted == Init => Accounted
<1> SUFFICES ASSUME Init PROVE Accounted
  OBVIOUS
<1>1. DOMAIN spool = {} /\ facts = <<>> /\ waiting = <<>> /\ cycles = 0 /\ dropped = {}
  BY EmptySeq, LenProperties DEF Init
<1>2. Line = <<>>
  BY <1>1, EmptySeq, ConcatEmptySeq DEF Line
<1>3. Elements(Line) = {} /\ Copied(0) = {} /\ CycleRows = {}
  BY <1>1, <1>2, ElementsEmpty DEF Copied, CycleRows
<1>4. Once(Line)
  BY <1>2 DEF Once
<1>5. {Cycle(n) : n \in 1..cycles} = {}
  BY <1>1
<1> QED
  BY <1>1, <1>3, <1>4, <1>5 DEF Accounted

\* A set of at most one element.
LEMMA AtMostOne ==
  ASSUME NEW S, \A i, j \in S : i = j
  PROVE  Cardinality(S) = IF S = {} THEN 0 ELSE 1
<1>1. CASE S = {}
  BY <1>1, FS_EmptySet
<1>2. CASE S # {}
  <2>1. PICK i \in S : TRUE
    BY <1>2
  <2>2. S = {i}
    BY <2>1
  <2> QED
    BY <1>2, <2>2, FS_Singleton
<1> QED
  BY <1>1, <1>2

LEMMA OnceConcat ==
  ASSUME NEW s \in Seq(Event), NEW t \in Seq(Event), Once(s \o t)
  PROVE  Once(s) /\ Once(t) /\ Elements(s) \cap Elements(t) = {}
<1>1. Len(s) \in Nat /\ Len(t) \in Nat /\ DOMAIN s = 1..Len(s) /\ DOMAIN t = 1..Len(t)
  BY LenProperties
<1>2. /\ Len(s \o t) = Len(s) + Len(t) /\ DOMAIN (s \o t) = 1..(Len(s) + Len(t))
      /\ \A i \in 1..(Len(s) + Len(t)) :
           (s \o t)[i] = IF i <= Len(s) THEN s[i] ELSE t[i - Len(s)]
  BY <1>1, ConcatProperties, LenProperties
<1>3. \A i, j \in 1..(Len(s) + Len(t)) : (s \o t)[i] = (s \o t)[j] => i = j
  BY <1>2 DEF Once
<1>4. \A i \in 1..Len(s) : i \in 1..(Len(s) + Len(t)) /\ (s \o t)[i] = s[i]
  BY <1>1, <1>2
<1>5. \A i \in 1..Len(t) : Len(s) + i \in 1..(Len(s) + Len(t)) /\ (s \o t)[Len(s) + i] = t[i]
  BY <1>1, <1>2
<1>6. Once(s)
  BY <1>1, <1>3, <1>4 DEF Once
<1>7. Once(t)
  <2> SUFFICES ASSUME NEW i \in 1..Len(t), NEW j \in 1..Len(t), t[i] = t[j] PROVE i = j
    BY <1>1 DEF Once
  <2>1. Len(s) + i = Len(s) + j
    BY <1>3, <1>5
  <2> QED
    BY <1>1, <2>1
<1>8. ASSUME NEW i \in 1..Len(s), NEW j \in 1..Len(t) PROVE s[i] # t[j]
  <2>1. i # Len(s) + j
    BY <1>1
  <2> QED
    BY <1>3, <1>4, <1>5, <2>1
<1> QED
  BY <1>1, <1>6, <1>7, <1>8 DEF Elements

LEMMA AccountedCounts ==
  ASSUME IInv, Accounted PROVE CycleAccounted
<1> SUFFICES ASSUME NEW n \in 1..cycles
             PROVE  LET places == Cardinality({i \in DOMAIN facts : facts[i] = Cycle(n)})
                                + Cardinality({i \in DOMAIN waiting : waiting[i] = Cycle(n)})
                                + Cardinality({i \in DOMAIN spool : spool[i].ev = Cycle(n)})
                                + Cardinality({Cycle(n)} \cap dropped)
                    IN  places = 1
  BY DEF CycleAccounted
<1> DEFINE c == Cycle(n)
           F == {i \in DOMAIN facts : facts[i] = c}
           W == {i \in DOMAIN waiting : waiting[i] = c}
           S == {i \in DOMAIN spool : spool[i].ev = c}
           D == {c} \cap dropped
<1>1. /\ TypeOK /\ waiting \in Seq(Event) /\ facts \in Seq(Event)
      /\ Elements(Line) = Elements(facts) \cup Elements(waiting)
  BY LineIsSeq DEF IInv, TypeOK, Queued
<1>2. Once(facts) /\ Once(waiting) /\ Elements(waiting) \cap Elements(facts) = {}
  BY <1>1, OnceConcat DEF Accounted, Line
<1>3. c.epoch = 0
  BY DEF Cycle
<1>4. S = {i \in Copied(0) : spool[i].ev = c}
  BY <1>3 DEF Copied
<1>5. /\ F # {} <=> c \in Elements(facts)
      /\ W # {} <=> c \in Elements(waiting)
      /\ S # {} <=> c \in CycleRows
      /\ D # {} <=> c \in dropped
  BY <1>4 DEF Elements, CycleRows
<1>6. /\ \A i, j \in F : i = j
      /\ \A i, j \in W : i = j
      /\ \A i, j \in S : i = j
      /\ \A i, j \in D : i = j
  BY <1>2, <1>4 DEF Once, Accounted
<1>7. /\ c \in Elements(Line) \cup CycleRows \cup dropped
      /\ Elements(Line) \cap CycleRows = {} /\ Elements(Line) \cap dropped = {}
      /\ CycleRows \cap dropped = {}
  BY DEF Accounted
<1> HIDE DEF c, F, W, S, D
<1>8. /\ Cardinality(F) = IF F = {} THEN 0 ELSE 1
      /\ Cardinality(W) = IF W = {} THEN 0 ELSE 1
      /\ Cardinality(S) = IF S = {} THEN 0 ELSE 1
      /\ Cardinality(D) = IF D = {} THEN 0 ELSE 1
  BY <1>6, AtMostOne
<1>9. Cardinality(F) + Cardinality(W) + Cardinality(S) + Cardinality(D) = 1
  BY <1>1, <1>2, <1>5, <1>7, <1>8
<1> QED
  BY <1>9 DEF c, F, W, S, D

\* Every finished cycle is in exactly one place: in the queue, waiting for
\* room, in one row of the spool, or given up (CycleLink.end, _store_facts,
\* stop).
THEOREM SpecCycleAccounted == Spec => []CycleAccounted
<1>1. Init => IInv /\ Whence /\ InOrder /\ Accounted
  BY InitInv, InitWhence, InitInOrder, InitAccounted
<1>2. IInv /\ Whence /\ InOrder /\ Accounted /\ [Next]_vars
      => (IInv /\ Whence /\ InOrder /\ Accounted)'
  BY StepInv, WhenceStep, InOrderStep, AccountedStep
<1>3. IInv /\ Accounted => CycleAccounted
  BY AccountedCounts
<1> QED
  BY <1>1, <1>2, <1>3, PTL DEF Spec

\* The line is in the order in which the cycles ended, what is stored was before
\* what is still in line, and the rows are in that order too.
Ordered ==
  /\ \A a, b \in DOMAIN Line : a < b => Line[a].seq < Line[b].seq
  /\ \A i \in Copied(0), n \in DOMAIN Line : spool[i].ev.seq < Line[n].seq
  /\ CyclesInOrder

LEMMA CyclesSoFar ==
  ASSUME TypeOK, Accounted
  PROVE  /\ \A n \in DOMAIN Line : Line[n].seq \in 1..cycles
         /\ \A i \in Copied(0) : spool[i].ev.seq \in 1..cycles
<1>1. ASSUME NEW e, e \in Elements(Line) \cup CycleRows PROVE e.seq \in 1..cycles
  <2>1. PICK n \in 1..cycles : e = Cycle(n)
    BY <1>1 DEF Accounted
  <2> QED
    BY <2>1 DEF Cycle
<1>2. \A n \in DOMAIN Line : Line[n] \in Elements(Line)
  BY DEF Elements
<1>3. \A i \in Copied(0) : spool[i].ev \in CycleRows
  BY DEF CycleRows
<1> QED
  BY <1>1, <1>2, <1>3

\* The cycle that ends is later than all there were.
LEMMA CycleEndsOrdered ==
  ASSUME IInv, Accounted, Ordered, CycleEnds PROVE Ordered'
<1> DEFINE c == Cycle(cycles + 1)
<1> PICK L \in Seq(Event) : L = Line
  BY LineIsSeq DEF IInv
<1>1. /\ TypeOK /\ cycles \in Nat /\ waiting \in Seq(Event) /\ facts \in Seq(Event)
  BY DEF IInv, TypeOK
<1>2. c \in Event /\ c.seq = cycles + 1
  BY <1>1, CycleIsEvent DEF Cycle
<1>3. UNCHANGED <<spool, waiting>>
  BY DEF CycleEnds, worker, disk
<1>4. Copied(0)' = Copied(0) /\ (CyclesInOrder => CyclesInOrder')
  BY <1>3 DEF Copied, CyclesInOrder
<1>5. CASE facts' = facts
  <2>1. Line' = Line
    BY <1>3, <1>5 DEF Line
  <2> QED
    BY <1>3, <1>4, <2>1 DEF Ordered
<1>6. CASE facts' = Append(facts, c)
  <2>1. Line' = Append(L, c)
    BY <1>1, <1>2, <1>3, <1>6, AppendIsConcat, ConcatAssociative DEF Line
  <2> HIDE DEF c
  <2>2. /\ Len(L) \in Nat /\ DOMAIN L = 1..Len(L)
        /\ DOMAIN Append(L, c) = 1..(Len(L) + 1) /\ Append(L, c)[Len(L) + 1] = c
        /\ \A i \in 1..Len(L) : Append(L, c)[i] = L[i]
    BY <1>2, AppendProperties, LenProperties
  <2>3. /\ \A n \in 1..Len(L) : L[n].seq \in 1..cycles
        /\ \A i \in Copied(0) : spool[i].ev.seq \in 1..cycles
    BY <1>1, <2>2, CyclesSoFar
  <2>4. ASSUME NEW a \in 1..(Len(L) + 1), NEW b \in 1..(Len(L) + 1), a < b
        PROVE  Append(L, c)[a].seq < Append(L, c)[b].seq
    <3>1. a \in 1..Len(L) /\ (b \in 1..Len(L) \/ b = Len(L) + 1)
      BY <2>2, <2>4
    <3>2. CASE b \in 1..Len(L)
      BY <2>2, <2>4, <3>1, <3>2 DEF Ordered
    <3>3. CASE b = Len(L) + 1
      BY <1>1, <1>2, <2>2, <2>3, <3>1, <3>3
    <3> QED
      BY <3>1, <3>2, <3>3
  <2>5. ASSUME NEW i \in Copied(0), NEW n \in 1..(Len(L) + 1)
        PROVE  spool[i].ev.seq < Append(L, c)[n].seq
    <3>1. CASE n \in 1..Len(L)
      BY <2>2, <3>1 DEF Ordered
    <3>2. CASE n = Len(L) + 1
      BY <1>1, <1>2, <2>2, <2>3, <3>2
    <3> QED
      BY <2>2, <3>1, <3>2
  <2> QED
    BY <1>3, <1>4, <2>1, <2>2, <2>4, <2>5 DEF Ordered
<1> QED
  BY <1>5, <1>6 DEF CycleEnds

\* What leaves the line from the front is stored in its order.
LEMMA ShiftsOrdered ==
  ASSUME IInv, Whence, Accounted, Ordered, Shifts PROVE Ordered'
<1> PICK L \in Seq(Event), R \in Seq(Event), j \in Nat, k \in Nat, rows \in Seq(Rows) :
       L = Line /\ R = Line' /\ Leaves(L, R, k, j, rows)
  BY DEF Shifts
<1> PICK m \in Nat : m = Len(spool)
  BY CopiedIsFinite DEF IInv
<1>1. /\ Copied(0)' = Copied(0) \cup (m + 1)..(m + j) /\ Copied(0) \subseteq 1..m
      /\ \A i \in Copied(0) : spool'[i].ev = spool[i].ev
      /\ \A n \in 1..j : spool'[m + n].ev = L[n]
  <2>1. TypeOK
    BY DEF IInv
  <2>2. Copied(0) \subseteq 1..m
    BY <2>1, CopiedIsFinite
  <2>3. StoredBehind(L, j, m)
    BY <2>1, LeavesRows
  <2> QED
    BY <2>2, <2>3 DEF StoredBehind
<1>2. /\ j <= k /\ k <= Len(L) /\ Len(R) = Len(L) - k /\ \A n \in 1..Len(R) : R[n] = L[n + k]
      /\ Len(L) \in Nat /\ DOMAIN L = 1..Len(L) /\ Len(R) \in Nat /\ DOMAIN R = 1..Len(R)
  BY LenProperties DEF Leaves
<1>3. /\ \A a, b \in 1..Len(L) : a < b => L[a].seq < L[b].seq
      /\ \A i \in Copied(0), n \in 1..Len(L) : spool[i].ev.seq < L[n].seq
      /\ \A a, b \in Copied(0) : a < b => spool[a].ev.seq < spool[b].ev.seq
  BY <1>2 DEF Ordered, CyclesInOrder
<1>4. \A n \in 1..Len(R) : n + k \in (k + 1)..Len(L) /\ n + k \in 1..Len(L)
  BY <1>2
<1>5. \A i \in (m + 1)..(m + j) : i - m \in 1..k /\ i - m \in 1..Len(L) /\ spool'[i].ev = L[i - m]
  <2> SUFFICES ASSUME NEW i \in (m + 1)..(m + j)
               PROVE  i - m \in 1..k /\ i - m \in 1..Len(L) /\ spool'[i].ev = L[i - m]
    OBVIOUS
  <2>1. i - m \in 1..j /\ m + (i - m) = i
    OBVIOUS
  <2>2. 1..j \subseteq 1..k /\ 1..k \subseteq 1..Len(L)
    BY <1>2
  <2>3. spool'[m + (i - m)].ev = L[i - m]
    BY <1>1, <2>1
  <2> QED
    BY <2>1, <2>2, <2>3
<1>6. ASSUME NEW a \in 1..Len(R), NEW b \in 1..Len(R), a < b PROVE R[a].seq < R[b].seq
  <2>1. a + k < b + k
    BY <1>2, <1>6
  <2> QED
    BY <1>2, <1>3, <1>4, <2>1
<1>7. ASSUME NEW i \in Copied(0)', NEW n \in 1..Len(R) PROVE spool'[i].ev.seq < R[n].seq
  <2>1. CASE i \in Copied(0)
    BY <1>1, <1>2, <1>3, <1>4, <2>1
  <2>2. CASE i \in (m + 1)..(m + j)
    <3>1. i - m < n + k
      BY <1>2, <1>5, <2>2
    <3>2. L[i - m].seq < L[n + k].seq
      BY <1>3, <1>4, <1>5, <2>2, <3>1
    <3> QED
      BY <1>2, <1>5, <2>2, <3>2
  <2> QED
    BY <1>1, <2>1, <2>2
<1>8. ASSUME NEW a \in Copied(0)', NEW b \in Copied(0)', a < b
      PROVE  spool'[a].ev.seq < spool'[b].ev.seq
  <2>1. CASE a \in Copied(0) /\ b \in Copied(0)
    BY <1>1, <1>3, <1>8, <2>1
  <2>2. CASE a \in Copied(0) /\ b \in (m + 1)..(m + j)
    <3>1. spool[a].ev.seq < L[b - m].seq
      BY <1>3, <1>5, <2>2
    <3> QED
      BY <1>1, <1>5, <2>2, <3>1
  <2>3. CASE a \in (m + 1)..(m + j) /\ b \in (m + 1)..(m + j)
    <3>1. a - m < b - m
      BY <1>8, <2>3
    <3>2. L[a - m].seq < L[b - m].seq
      BY <1>3, <1>5, <2>3, <3>1
    <3> QED
      BY <1>5, <2>3, <3>2
  <2>4. ~(a \in (m + 1)..(m + j) /\ b \in Copied(0))
    <3> SUFFICES ASSUME a \in (m + 1)..(m + j), b \in 1..m PROVE FALSE
      BY <1>1
    <3> QED
      BY <1>8
  <2> QED
    BY <1>1, <2>1, <2>2, <2>3, <2>4
<1>9. CyclesInOrder'
  BY <1>8 DEF CyclesInOrder
<1> QED
  BY <1>2, <1>6, <1>7, <1>9 DEF Ordered

\* The line and the agent's own rows as they were.
LEMMA OrderedStays ==
  ASSUME Ordered, Grows, Copied(0)' = Copied(0), Line' = Line
  PROVE  Ordered'
<1>1. \A i \in Copied(0) : spool'[i].ev = spool[i].ev
  BY DEF Grows, Copied
<1>2. CyclesInOrder'
  BY <1>1 DEF Ordered, CyclesInOrder
<1> QED
  BY <1>1, <1>2 DEF Ordered

LEMMA OrderedStep ==
  ASSUME IInv, InOrder, Whence, Accounted, Ordered, [Next]_vars PROVE Ordered'
<1>1. Grows
  BY TypeStep DEF IInv
<1> QED
  BY <1>1, LineStep, CycleEndsOrdered, ShiftsOrdered, OrderedStays

LEMMA InitOrdered == Init => Ordered
<1> SUFFICES ASSUME Init PROVE Ordered
  OBVIOUS
<1>1. DOMAIN spool = {} /\ facts = <<>> /\ waiting = <<>>
  BY EmptySeq, LenProperties DEF Init
<1>2. Line = <<>>
  BY <1>1, EmptySeq, ConcatEmptySeq DEF Line
<1>3. DOMAIN Line = {} /\ Copied(0) = {}
  BY <1>1, <1>2, EmptySeq DEF Copied
<1> QED
  BY <1>3 DEF Ordered, CyclesInOrder

\* The cycles that are stored are in the spool in the order in which they ended,
\* whatever was refused, given up or lost with the process between them
\* (CycleLink.end, _store_facts, stop).
THEOREM SpecCyclesInOrder == Spec => []CyclesInOrder
<1>1. Init => IInv /\ Whence /\ InOrder /\ Accounted /\ Ordered
  BY InitInv, InitWhence, InitInOrder, InitAccounted, InitOrdered
<1>2. IInv /\ Whence /\ InOrder /\ Accounted /\ Ordered /\ [Next]_vars
      => (IInv /\ Whence /\ InOrder /\ Accounted /\ Ordered)'
  BY StepInv, WhenceStep, InOrderStep, AccountedStep, OrderedStep
<1>3. Ordered => CyclesInOrder
  BY DEF Ordered
<1> QED
  BY <1>1, <1>2, <1>3, PTL DEF Spec

-----------------------------------------------------------------------------
(***************************************************************************)
(* SpoolEpochs, for every set of facts and every bound.                    *)
(*                                                                         *)
(* NoSeqReuse is not inductive: a row of the backup could collide with the *)
(* next number, and nothing in NoSeqReuse says it cannot.  EpochsInv adds  *)
(* what the code relies on: the meta table of each copy of the database is *)
(* not behind its rows (Within), the sidecar is not behind what left the   *)
(* spool (Covers), the process has the identity that is in the database    *)
(* (Running) and the backup is not ahead of it (BackupBehind).             *)
(***************************************************************************)

\* Type correctness, whatever happens to the sidecar.

LEMMA InitType == EpochsInit => EpochsTypeOK
  BY DEF EpochsInit, EpochsTypeOK, Ident, OwnEvent, Db, Nobody, NoSide, NoDb

LEMMA NextType == EpochsTypeOK /\ [EpochsNext]_epochsVars => EpochsTypeOK'
<1> SUFFICES ASSUME EpochsTypeOK, [EpochsNext]_epochsVars PROVE EpochsTypeOK'
  OBVIOUS
<1> USE DEF EpochsTypeOK, Ident, OwnEvent, Db, Nobody, NoSide, NoDb, files, history
<1>1. CASE OpenNewEpoch
  BY <1>1 DEF OpenNewEpoch, OpenedProducer, FirstSeq
<1>2. CASE OpenSameEpoch
  BY <1>2 DEF OpenSameEpoch
<1>3. CASE OpenWritesSidecar
  BY <1>3 DEF OpenWritesSidecar, SidecarDoc
<1>4. ASSUME NEW f \in Fact, AddCommits(f) PROVE EpochsTypeOK'
  BY <1>4 DEF AddCommits, LockFree
<1>5. CASE AddWritesSidecar
  BY <1>5 DEF AddWritesSidecar, SidecarDoc
<1>6. CASE AddSidecarFails
  BY <1>6 DEF AddSidecarFails
<1>7. CASE Show
  BY <1>7 DEF Show
<1>8. CASE Stop \/ TakeBackup \/ RestoreBackup \/ RestoreBoth \/ DeleteDatabase
  BY <1>8 DEF Stop, TakeBackup, RestoreBackup, RestoreBoth, DeleteDatabase
<1>9. CASE UNCHANGED epochsVars
  BY <1>9 DEF epochsVars
<1> QED
  BY <1>1, <1>2, <1>3, <1>4, <1>5, <1>6, <1>7, <1>8, <1>9 DEF EpochsNext

\* Every state of the spool's files and of the process has its type.
THEOREM SpecEpochsTypeOK == EpochsSpec => []EpochsTypeOK
<1> QED
  BY InitType, NextType, PTL DEF EpochsSpec

-----------------------------------------------------------------------------
\* The files as the process finds them, while nothing happens to the sidecar.

LEMMA InitInStep == EpochsInit => InStep
  BY DEF EpochsInit, InStep, Nobody, NoSide, NoDb, Within, NotBefore, Existing, OneLine,
         Running, BackupBehind, Covers, Unique

\* A start that makes a new epoch: it is beyond every file and every event.
LEMMA OpenNewEpochInStep ==
  ASSUME EpochsTypeOK, InStep, OpenNewEpoch PROVE InStep'
<1> USE DEF InStep, EpochsTypeOK, Ident, OwnEvent, Db, OpenNewEpoch, FirstSeq
<1>1. Within(db)' /\ Within(backup)'
  BY DEF Within, NotBefore, Existing, OpenedProducer, Nobody, NoDb
<1>2. Existing'
  BY DEF Existing
<1>3. OneLine'
  BY DEF OneLine, Restored, OpenedProducer, Nobody, NoSide, NoDb
<1>4. Running'
  BY DEF Running, Existing, NotBefore, Nobody, NoDb
<1>5. BackupBehind' /\ Covers'
  BY DEF BackupBehind, Covers, Existing, NotBefore, Nobody, NoDb
<1>6. Unique'
  BY DEF Unique, SameNumber
<1> QED
  BY <1>1, <1>2, <1>3, <1>4, <1>5, <1>6

\* A start on the epoch of the database: the sidecar is not beyond it.
LEMMA OpenSameEpochInStep ==
  ASSUME EpochsTypeOK, InStep, OpenSameEpoch PROVE InStep'
<1> USE DEF InStep, EpochsTypeOK, Ident, Db, OpenSameEpoch, files, history
<1>1. Within(db)' /\ Within(backup)' /\ Existing' /\ OneLine' /\ BackupBehind'
  BY DEF Within, NotBefore, Existing, OneLine, BackupBehind
<1>2. Running'
  BY DEF Running, Restored, OneLine, NotBefore
<1>3. Covers' /\ Unique'
  BY DEF Covers, NotBefore, Unique, SameNumber
<1> QED
  BY <1>1, <1>2, <1>3

\* Writing the sidecar never takes it back behind an event that left.
LEMMA SidecarWriteInStep ==
  ASSUME EpochsTypeOK, InStep, OpenWritesSidecar \/ AddWritesSidecar PROVE InStep'
<1> USE DEF InStep, EpochsTypeOK, Ident, OwnEvent, Db, OpenWritesSidecar, AddWritesSidecar,
            SidecarDoc, history
<1>1. Within(db)' /\ Within(backup)' /\ BackupBehind' /\ Unique'
  BY DEF Within, NotBefore, BackupBehind, Unique, SameNumber
<1>2. Existing' /\ Running'
  BY DEF Existing, Running, NoDb, NoSide, Nobody
<1>3. OneLine'
  BY DEF OneLine, Existing, Running, NoDb, NoSide, Nobody
<1>4. Covers'
  BY DEF Covers, OneLine, Existing, Running, NotBefore, NoDb, NoSide, Nobody
<1> QED
  BY <1>1, <1>2, <1>3, <1>4

\* The number a new event takes is free: in the database by Within, in the
\* backup by BackupBehind, among the events that left by Covers.
LEMMA AddCommitsInStep ==
  ASSUME NEW f \in Fact, EpochsTypeOK, InStep, AddCommits(f) PROVE InStep'
<1> USE DEF InStep, EpochsTypeOK, Ident, OwnEvent, Db, AddCommits, LockFree, history
<1> DEFINE new == [producer |-> mem.producer, epoch |-> mem.epoch,
                   seq |-> mem.seq + 1, fact |-> f]
<1>1. db.id = mem /\ db # NoDb /\ side = mem
  BY DEF Running
<1>2. Within(db)' /\ Within(backup)'
  BY <1>1 DEF Within, NotBefore
<1>3. Existing' /\ OneLine' /\ Covers'
  BY <1>1 DEF Existing, OneLine, Covers, NotBefore, NoDb, NoSide, Nobody
<1>4. Running'
  <2>1. db'.id = mem' /\ new \in db'.rows
    OBVIOUS
  <2>2. db' # NoDb
    BY <2>1 DEF NoDb
  <2>3. /\ side'.producer = mem'.producer /\ side'.epoch = mem'.epoch
        /\ mem'.seq = side'.seq + 1
    BY <1>1
  <2> QED
    BY <2>1, <2>2, <2>3 DEF Running
<1>5. BackupBehind'
  BY <1>1 DEF BackupBehind, NotBefore
<1>6. Unique'
  <2>1. \A e \in db.rows : ~SameNumber(e, new) /\ ~SameNumber(new, e)
    BY <1>1 DEF Within, NotBefore, SameNumber
  <2>2. \A e \in backup.rows : ~SameNumber(e, new) /\ ~SameNumber(new, e)
    BY <1>1 DEF Within, BackupBehind, NotBefore, SameNumber
  <2>3. \A e \in shown : ~SameNumber(e, new) /\ ~SameNumber(new, e)
    BY <1>1 DEF Covers, NotBefore, SameNumber
  <2> QED
    BY <2>1, <2>2, <2>3 DEF Unique, SameNumber
<1> QED
  BY <1>2, <1>3, <1>4, <1>5, <1>6

\* What pending() hands over is in the database, so the sidecar covers it.
LEMMA ShowInStep ==
  ASSUME EpochsTypeOK, InStep, Show PROVE InStep'
<1> USE DEF InStep, EpochsTypeOK, Ident, OwnEvent, Db, Show, LockFree, files
<1>1. Within(db)' /\ Within(backup)' /\ Existing' /\ OneLine' /\ Running' /\ BackupBehind'
  BY DEF Within, NotBefore, Existing, OneLine, Running, BackupBehind
<1>2. Covers'
  BY DEF Covers, Running, Within, NotBefore, Existing, NoDb, NoSide, Nobody
<1>3. Unique'
  BY DEF Unique, SameNumber
<1> QED
  BY <1>1, <1>2, <1>3

\* The end of the process and the operator's handling of the database.
LEMMA FilesInStep ==
  ASSUME EpochsTypeOK, InStep, Stop \/ TakeBackup \/ RestoreBackup \/ DeleteDatabase
  PROVE  InStep'
<1> USE DEF InStep, EpochsTypeOK, Ident, OwnEvent, Db, Stop, TakeBackup, RestoreBackup,
            DeleteDatabase, files, history
<1>1. Within(db)' /\ Within(backup)'
  BY DEF Within, NotBefore, NoDb
<1>2. Existing' /\ OneLine'
  BY DEF Existing, OneLine, NoDb, NoSide, Nobody
<1>3. Running'
  BY DEF Running
<1>4. BackupBehind' /\ Covers'
  BY DEF BackupBehind, Covers, NotBefore
<1>5. Unique'
  BY DEF Unique, SameNumber, NoDb
<1> QED
  BY <1>1, <1>2, <1>3, <1>4, <1>5

LEMMA StutterInStep == InStep /\ UNCHANGED epochsVars => InStep'
  BY DEF epochsVars, InStep, Within, NotBefore, Existing, OneLine, Running, BackupBehind,
         Covers, Unique, SameNumber

LEMMA NextInductive == EpochsInv /\ [EpochsNext]_epochsVars => EpochsInv'
<1> SUFFICES ASSUME EpochsInv, [EpochsNext]_epochsVars PROVE EpochsInv'
  OBVIOUS
<1>1. EpochsTypeOK /\ EpochsTypeOK'
  BY NextType DEF EpochsInv
<1> SUFFICES ASSUME mishaps' = {} PROVE InStep'
  BY <1>1 DEF EpochsInv
<1>2. ~AddSidecarFails /\ ~RestoreBoth
  BY DEF AddSidecarFails, RestoreBoth
<1>3. mishaps = {}
  BY <1>2 DEF EpochsNext, epochsVars, history, OpenNewEpoch, OpenSameEpoch, OpenWritesSidecar, AddCommits,
      AddWritesSidecar, Show, Stop, TakeBackup, RestoreBackup, DeleteDatabase
<1>4. InStep
  BY <1>3 DEF EpochsInv
<1>5. CASE OpenNewEpoch \/ OpenSameEpoch \/ OpenWritesSidecar \/ AddWritesSidecar
  BY <1>1, <1>4, <1>5, OpenNewEpochInStep, OpenSameEpochInStep, SidecarWriteInStep
<1>6. ASSUME NEW f \in Fact, AddCommits(f) PROVE InStep'
  BY <1>1, <1>4, <1>6, AddCommitsInStep
<1>7. CASE Show
  BY <1>1, <1>4, <1>7, ShowInStep
<1>8. CASE Stop \/ TakeBackup \/ RestoreBackup \/ DeleteDatabase
  BY <1>1, <1>4, <1>8, FilesInStep
<1>9. CASE UNCHANGED epochsVars
  BY <1>4, <1>9, StutterInStep
<1> QED
  BY <1>2, <1>5, <1>6, <1>7, <1>8, <1>9 DEF EpochsNext

\* While nothing happens to the sidecar itself, the files and the process
\* stay in step through every crash, backup, restore and deletion.
THEOREM SpecInductive == EpochsSpec => []EpochsInv
<1>1. EpochsInit => EpochsInv
  BY InitType, InitInStep DEF EpochsInv
<1> QED
  BY <1>1, NextInductive, PTL DEF EpochsSpec

\* "A sequence number is never used twice", for any number of epochs, events,
\* crashes and restores, as long as the sidecar itself is kept.
THEOREM SpecNoSeqReuse == EpochsSpec => []NoSeqReuse
<1>1. EpochsInv => NoSeqReuse
  BY DEF EpochsInv, InStep, Unique, NoSeqReuse, NeverUsedTwice
<1> QED
  BY <1>1, SpecInductive, PTL

\* The sidecar is never behind an event that left the spool.
THEOREM SpecSidecarCovers == EpochsSpec => []SidecarCovers
<1>1. EpochsInv => SidecarCovers
  BY DEF EpochsInv, InStep, SidecarCovers
<1> QED
  BY <1>1, SpecInductive, PTL

-----------------------------------------------------------------------------
\* One producer id.  The sidecar may be behind, or put back, but it never
\* names another producer than the database.

\* Everything that carries a producer id carries the sidecar's.
SameLine ==
  /\ \A c \in {db, backup} :
       /\ c # NoDb /\ side # NoSide => c.id.producer = side.producer
       /\ \A r \in c.rows : c # NoDb /\ r.producer = c.id.producer
  /\ \A e \in shown : side # NoSide /\ e.producer = side.producer
  /\ side = NoSide => backup = NoDb /\ shown = {} /\ pc \in {"down", "opening"}
  /\ backup # NoDb => bside # NoSide /\ bside.producer = side.producer
  /\ pc # "down" => db # NoDb /\ mem.producer = db.id.producer /\ mem.epoch # 0
  /\ db # NoDb => db.id.epoch # 0
  /\ backup # NoDb => backup.id.epoch # 0

LEMMA NextSameLine == EpochsTypeOK /\ SameLine /\ [EpochsNext]_epochsVars => SameLine'
<1> SUFFICES ASSUME EpochsTypeOK, SameLine, [EpochsNext]_epochsVars PROVE SameLine'
  OBVIOUS
<1> USE DEF SameLine, EpochsTypeOK, Ident, OwnEvent, Db, Nobody, NoSide, NoDb, files, history
<1>1. CASE OpenNewEpoch
  BY <1>1 DEF OpenNewEpoch, OpenedProducer, FirstSeq
<1>2. CASE OpenSameEpoch
  BY <1>2 DEF OpenSameEpoch
<1>3. CASE OpenWritesSidecar \/ AddWritesSidecar \/ AddSidecarFails
  BY <1>3 DEF OpenWritesSidecar, AddWritesSidecar, AddSidecarFails, SidecarDoc
<1>4. ASSUME NEW f \in Fact, AddCommits(f) PROVE SameLine'
  BY <1>4 DEF AddCommits, LockFree
<1>5. CASE Show
  BY <1>5 DEF Show, LockFree
<1>6. CASE Stop \/ TakeBackup \/ RestoreBackup \/ RestoreBoth \/ DeleteDatabase
  BY <1>6 DEF Stop, TakeBackup, RestoreBackup, RestoreBoth, DeleteDatabase
<1>7. CASE UNCHANGED epochsVars
  BY <1>7 DEF epochsVars
<1> QED
  BY <1>1, <1>2, <1>3, <1>4, <1>5, <1>6, <1>7 DEF EpochsNext

\* The service never sees the machine under two producer ids, whatever
\* happens to the database and to the sidecar.
THEOREM SpecOneProducer == EpochsSpec => []OneProducer
<1>1. EpochsInit => SameLine
  BY DEF EpochsInit, SameLine, NoDb, NoSide, Nobody
<1>2. SameLine => OneProducer
  BY DEF SameLine, OneProducer
<1> QED
  BY <1>1, <1>2, NextSameLine, SpecEpochsTypeOK, PTL DEF EpochsSpec

-----------------------------------------------------------------------------
\* Numbers without holes.  This needs no sidecar at all: the rows and the
\* last number are committed in one transaction.

\* The rows of c number 1, 2, 3... up to the last number in its meta table.
Dense(c) ==
  /\ \A e \in c.rows : \A n \in 1..e.seq :
       \E g \in c.rows : g.epoch = e.epoch /\ g.seq = n
  /\ \A n \in 1..c.id.seq : \E g \in c.rows : g.epoch = c.id.epoch /\ g.seq = n

DenseInv ==
  /\ EpochsTypeOK
  /\ Dense(db)
  /\ Dense(backup)
  /\ pc # "down" => db.id = mem

LEMMA AddCommitsDense ==
  ASSUME NEW f \in Fact, DenseInv, AddCommits(f) PROVE Dense(db)'
<1> USE DEF DenseInv, EpochsTypeOK, Ident, OwnEvent, Db, AddCommits, LockFree, history
<1> DEFINE new == [producer |-> mem.producer, epoch |-> mem.epoch,
                   seq |-> mem.seq + 1, fact |-> f]
<1>1. /\ db'.rows = db.rows \cup {new}
      /\ db'.id = [mem EXCEPT !.seq = @ + 1]
      /\ db.id = mem
  OBVIOUS
<1>2. ASSUME NEW n \in 1..(mem.seq + 1)
      PROVE  \E g \in db'.rows : g.epoch = mem.epoch /\ g.seq = n
  <2>1. CASE n = mem.seq + 1
    <3>1. new \in db'.rows /\ new.epoch = mem.epoch /\ new.seq = n
      BY <1>1, <2>1
    <3> QED
      BY <3>1
  <2>2. CASE n \in 1..mem.seq
    BY <1>1, <2>2 DEF Dense
  <2> QED
    BY <2>1, <2>2
<1>3. ASSUME NEW e \in db.rows, NEW n \in 1..e.seq
      PROVE  \E g \in db'.rows : g.epoch = e.epoch /\ g.seq = n
  BY <1>1, <1>3 DEF Dense
<1>4. \A n \in 1..new.seq : \E g \in db'.rows : g.epoch = new.epoch /\ g.seq = n
  BY <1>2
<1>5. \A n \in 1..db'.id.seq : \E g \in db'.rows : g.epoch = db'.id.epoch /\ g.seq = n
  BY <1>1, <1>2
<1>6. \A e \in db'.rows : \A n \in 1..e.seq :
        \E g \in db'.rows : g.epoch = e.epoch /\ g.seq = n
  BY <1>1, <1>3, <1>4
<1> QED
  BY <1>5, <1>6 DEF Dense

LEMMA NextDense == DenseInv /\ [EpochsNext]_epochsVars => DenseInv'
<1> SUFFICES ASSUME DenseInv, [EpochsNext]_epochsVars PROVE DenseInv'
  OBVIOUS
<1>0. EpochsTypeOK'
  BY NextType DEF DenseInv
<1> USE DEF DenseInv, EpochsTypeOK, Ident, Db, files, history
<1>1. CASE OpenNewEpoch
  BY <1>0, <1>1 DEF OpenNewEpoch, FirstSeq, Dense
<1>2. CASE OpenSameEpoch
  BY <1>0, <1>2 DEF OpenSameEpoch, Dense
<1>3. CASE OpenWritesSidecar \/ AddWritesSidecar \/ AddSidecarFails
  BY <1>0, <1>3 DEF OpenWritesSidecar, AddWritesSidecar, AddSidecarFails, Dense
<1>4. ASSUME NEW f \in Fact, AddCommits(f) PROVE DenseInv'
  <2>1. Dense(db)'
    BY <1>4, AddCommitsDense
  <2> QED
    BY <1>0, <1>4, <2>1 DEF AddCommits, LockFree, Dense
<1>5. CASE Show
  BY <1>0, <1>5 DEF Show, Dense
<1>6. CASE Stop \/ TakeBackup \/ RestoreBackup \/ RestoreBoth \/ DeleteDatabase
  BY <1>0, <1>6 DEF Stop, TakeBackup, RestoreBackup, RestoreBoth, DeleteDatabase,
                    Dense, NoDb, Nobody
<1>7. CASE UNCHANGED epochsVars
  BY <1>0, <1>7 DEF epochsVars, Dense
<1> QED
  BY <1>1, <1>2, <1>3, <1>4, <1>5, <1>6, <1>7 DEF EpochsNext

\* The events of an epoch number 1, 2, 3... in every copy of the spool, also
\* when sidecar writes fail or the sidecar is put back with the database.
THEOREM SpecContiguous == EpochsSpec => []Contiguous
<1>1. EpochsInit => DenseInv
  BY InitType DEF EpochsInit, DenseInv, Dense, NoDb, Nobody
<1>2. DenseInv => Contiguous
  BY DEF DenseInv, Dense, Contiguous
<1> QED
  BY <1>1, <1>2, NextDense, PTL DEF EpochsSpec
=============================================================================
