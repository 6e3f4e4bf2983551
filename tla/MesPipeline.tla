---------------------------- MODULE MesPipeline ----------------------------
(***************************************************************************)
(* The way of an event through the agent: MillWright's outbox and the      *)
(* agent's own finished cycles -> MesWorker (agent_mes_link.py) -> the     *)
(* spool (agent_mes_spool.py) -> Forwarder (agent_mes_forward.py) -> the   *)
(* site service, with the acknowledgements that flow back and let each     *)
(* side forget.  Threads interleave freely, the agent may be killed        *)
(* between any two steps, requests and answers may be lost or late, and    *)
(* MillWright may start a new database.                                    *)
(*                                                                         *)
(* An event is [epoch, seq]: epoch 0 holds the agent's own cycles in the   *)
(* order they ended, epochs 1, 2... are MillWright's outbox epochs.        *)
(* Disk survives a kill (outbox, ack, spool, cursor); facts, waiting, the  *)
(* worker's and the forwarder's place do not.                              *)
(***************************************************************************)
EXTENDS Naturals, Sequences, FiniteSets

CONSTANTS
  QueueSize,   \* QUEUE_SIZE: facts queue, and facts kept while the spool is full
  ReadBatch,   \* BATCH: outbox rows per read
  SendBatch,   \* batch_cap: spool rows per request
  Budget,      \* mes_spool_mb, counted in rows
  Invalid,     \* outbox events the contract rejects (a set of [epoch, seq])
  MaxCycles,   \* bound: cycles the machine runs
  MaxOutbox,   \* bound: events of one outbox epoch
  MaxOutboxEpochs, \* bound: databases MillWright starts
  MaxRestarts  \* bound: ends of the agent process

ASSUME SizesAssumption ==
  /\ QueueSize \in Nat \ {0} /\ ReadBatch \in Nat \ {0} /\ SendBatch \in Nat \ {0}
  /\ Budget \in Nat
  /\ MaxCycles \in Nat /\ MaxOutbox \in Nat /\ MaxOutboxEpochs \in Nat /\ MaxRestarts \in Nat

VARIABLES
  outbox,   \* mw_outbox: epoch, and the rows low+1..last (older ones pruned)
  ack,      \* mes_ack.json
  spool,    \* spool rows by row number; a deleted row stays as "pruned"
  cursor,   \* cursors table, source "millwright"
  high,     \* most rows the file ever held at once: it never shrinks
  cycles,   \* cycles ended so far
  facts,    \* queue.Queue between the sampling loop and the worker
  waiting,  \* MesWorker._waiting
  dropped,  \* history: cycles given up, each with a log line, or at a kill
  wpc,      \* the worker's place: collect, store, read, append, ack
  read,     \* the outbox rows of this read: epoch, from..to
  fpc,      \* the forwarder's place: idle, waiting, answered
  batch,    \* spool rows of the request it waits for
  receipts, \* rows with a receipt in the answer
  wire,     \* requests the service may still handle
  final,    \* service: events with a verdict that is stored
  restarts

vars == <<outbox, ack, spool, cursor, high, cycles, facts, waiting, dropped,
          wpc, read, fpc, batch, receipts, wire, final, restarts>>
link      == <<outbox, ack>>
disk      == <<spool, cursor, high>>
sampler   == <<cycles, facts, dropped>>
worker    == <<waiting, wpc, read>>
forwarder == <<fpc, batch, receipts>>
service   == <<wire, final>>

Event == [epoch : Nat, seq : Nat]
Cycle(n) == [epoch |-> 0, seq |-> n]
Row(e) == [ev |-> e, st |-> "pending"]
NoAck == [epoch |-> 0, seq |-> 0]

TypeOK ==
  /\ outbox \in [epoch : Nat, low : Nat, last : Nat]
  /\ ack \in [epoch : Nat, seq : Nat]
  /\ spool \in Seq([ev : Event, st : {"pending", "acked", "pruned"}])
  /\ cursor \in [epoch : Nat, pos : Nat]
  /\ high \in Nat /\ cycles \in Nat /\ restarts \in Nat
  /\ facts \in Seq(Event) /\ waiting \in Seq(Event)
  /\ dropped \subseteq Event
  /\ wpc \in {"collect", "store", "read", "append", "ack"}
  /\ read \in [epoch : Nat, from : Nat, to : Nat]
  /\ fpc \in {"idle", "waiting", "answered"}
  /\ batch \subseteq DOMAIN spool
  /\ receipts \subseteq batch
  /\ wire \subseteq SUBSET DOMAIN spool
  /\ final \subseteq Event

Nothing == [epoch |-> 0, from |-> 1, to |-> 0]

Init ==
  /\ outbox = [epoch |-> 1, low |-> 0, last |-> 0]
  /\ ack = NoAck /\ cursor = [epoch |-> 0, pos |-> 0]
  /\ spool = <<>> /\ high = 0 /\ cycles = 0 /\ restarts = 0
  /\ facts = <<>> /\ waiting = <<>> /\ dropped = {}
  /\ wpc = "collect" /\ read = Nothing
  /\ fpc = "idle" /\ batch = {} /\ receipts = {}
  /\ wire = {} /\ final = {}

-----------------------------------------------------------------------------
\* The spool

RowsIn(st) == {i \in DOMAIN spool : spool[i].st = st}
Held == DOMAIN spool \ RowsIn("pruned")

\* _refresh: the size of the files, not of the rows in them; DELETE frees
\* pages for later rows and leaves the file as long as it is.
Full == high >= Budget

Higher(n) == IF Cardinality(Held) + n > high THEN Cardinality(Held) + n ELSE high

-----------------------------------------------------------------------------
\* MillWright (external: modelled from what the agent reads and writes)

MillWrightAdds ==
  /\ outbox.last < MaxOutbox
  /\ outbox' = [outbox EXCEPT !.last = @ + 1]
  /\ UNCHANGED <<ack, disk, sampler, worker, forwarder, service, restarts>>

\* It forgets rows at or below mes_ack.json, of the epoch named there.
MillWrightPrunes ==
  /\ ack.epoch = outbox.epoch
  /\ outbox.low < ack.seq
  /\ outbox' = [outbox EXCEPT !.low = @ + 1]
  /\ UNCHANGED <<ack, disk, sampler, worker, forwarder, service, restarts>>

\* A database that is created again has a new outbox_epoch.
MillWrightStartsAgain ==
  /\ outbox.epoch < MaxOutboxEpochs
  /\ outbox' = [epoch |-> outbox.epoch + 1, low |-> 0, last |-> 0]
  /\ UNCHANGED <<ack, disk, sampler, worker, forwarder, service, restarts>>

-----------------------------------------------------------------------------
\* Sampling loop: CycleLink.end

CycleEnds ==
  /\ cycles < MaxCycles
  /\ cycles' = cycles + 1
  /\ IF Len(facts) < QueueSize                     \* put_nowait, else queue.Full
       THEN facts' = Append(facts, Cycle(cycles')) /\ UNCHANGED dropped
       ELSE dropped' = dropped \cup {Cycle(cycles')} /\ UNCHANGED facts
  /\ UNCHANGED <<link, disk, worker, forwarder, service, restarts>>

-----------------------------------------------------------------------------
\* MesWorker.run_once: _store_facts, then OutboxReader.step until a short read

WorkerCollects ==
  /\ wpc = "collect"
  /\ waiting' = waiting \o facts
  /\ facts' = <<>>
  /\ wpc' = "store"
  /\ UNCHANGED <<link, disk, cycles, dropped, read, forwarder, service, restarts>>

\* The oldest fact leaves _waiting only once it is stored.
AfterStore_KeepsFact == waiting
AfterStore == Tail(waiting)

WorkerStores ==
  /\ wpc = "store"
  /\ waiting # <<>> /\ ~Full
  /\ spool' = Append(spool, Row(Head(waiting)))
  /\ high' = Higher(1)
  /\ waiting' = AfterStore
  /\ UNCHANGED <<link, cursor, sampler, wpc, read, forwarder, service, restarts>>

\* SpoolFull: the facts wait, the oldest is given up when they are too many.
WorkerStoreRefused ==
  /\ wpc = "store"
  /\ waiting # <<>> /\ Full
  /\ IF Len(waiting) > QueueSize
       THEN waiting' = Tail(waiting) /\ dropped' = dropped \cup {Head(waiting)}
       ELSE UNCHANGED <<waiting, dropped>>
  /\ wpc' = "read"
  /\ UNCHANGED <<link, disk, cycles, facts, read, forwarder, service, restarts>>

WorkerStoredAll ==
  /\ wpc = "store"
  /\ waiting = <<>>
  /\ wpc' = "read"
  /\ UNCHANGED <<link, disk, sampler, waiting, read, forwarder, service, restarts>>

\* Where the reader stands in the outbox it has before it.
ReadPos_AnyEpoch == cursor.pos
ReadPos == IF cursor.epoch = outbox.epoch THEN cursor.pos ELSE 0

Larger(a, b) == IF a > b THEN a ELSE b
Smaller(a, b) == IF a < b THEN a ELSE b

\* The rows are stored before they are acknowledged.
AfterRead_AckFirst == "ack"
AfterRead == "append"

WorkerReads ==
  /\ wpc = "read"
  /\ ReadPos < outbox.last
  /\ LET first == Larger(ReadPos, outbox.low) + 1
     IN  read' = [epoch |-> outbox.epoch, from |-> first,
                  to |-> Smaller(first + ReadBatch - 1, outbox.last)]
  /\ wpc' = AfterRead
  /\ UNCHANGED <<link, disk, sampler, waiting, forwarder, service, restarts>>

\* Nothing new: the acknowledgement is written again ("after a restart").
AckAgain_AnyEpoch == [epoch |-> cursor.epoch, seq |-> ReadPos]
AckAgain ==
  IF cursor.epoch = outbox.epoch THEN [epoch |-> cursor.epoch, seq |-> cursor.pos] ELSE ack

WorkerReadsNothing ==
  /\ wpc = "read"
  /\ ReadPos >= outbox.last
  /\ ack' = AckAgain
  /\ wpc' = "collect"
  /\ UNCHANGED <<outbox, disk, sampler, waiting, read, forwarder, service, restarts>>

ReadEvent(n) == [epoch |-> read.epoch, seq |-> read.from + n - 1]
ReadCount == read.to - read.from + 1
Refused == Full \/ \E n \in 1..ReadCount : ReadEvent(n) \in Invalid

\* The position stored with the rows of a read.
NewPos_Short == read.to - 1
NewPos == read.to

\* append(rows, cursor): one transaction.
WorkerAppends ==
  /\ wpc = "append"
  /\ ~Refused
  /\ spool' = spool \o [n \in 1..ReadCount |-> Row(ReadEvent(n))]
  /\ cursor' = [epoch |-> read.epoch, pos |-> NewPos]
  /\ high' = Higher(ReadCount)
  /\ wpc' = "ack"
  /\ UNCHANGED <<link, sampler, waiting, read, forwarder, service, restarts>>

\* SpoolFull or SpoolError: nothing is stored, the next step reads it again.
AfterRefused_Acks == "ack"
AfterRefused == "collect"

WorkerAppendRefused ==
  /\ wpc = "append"
  /\ Refused
  /\ wpc' = AfterRefused
  /\ UNCHANGED <<link, disk, sampler, waiting, read, forwarder, service, restarts>>

WorkerAcks ==
  /\ wpc = "ack"
  /\ ack' = [epoch |-> read.epoch, seq |-> read.to]
  /\ wpc' = IF ReadCount = ReadBatch THEN "read" ELSE "collect"
  /\ UNCHANGED <<outbox, disk, sampler, waiting, read, forwarder, service, restarts>>

\* write_ack raised OSError: run() logs it and starts the next round.
WorkerAckFails ==
  /\ wpc = "ack"
  /\ wpc' = "collect"
  /\ UNCHANGED <<link, disk, sampler, waiting, read, forwarder, service, restarts>>

\* prune(): acknowledged rows older than 7 days.
Prunable_Any == RowsIn("acked") \cup RowsIn("pending")
Prunable == RowsIn("acked")

WorkerPrunes ==
  /\ wpc = "collect"
  /\ \E i \in Prunable : spool' = [spool EXCEPT ![i].st = "pruned"]
  /\ UNCHANGED <<link, cursor, high, sampler, worker, forwarder, service, restarts>>

-----------------------------------------------------------------------------
\* Forwarder: send_once / _receipts, and the network

\* pending(limit): the oldest pending rows.
OldestPending ==
  {i \in RowsIn("pending") : Cardinality({j \in RowsIn("pending") : j < i}) < SendBatch}

ForwarderSends ==
  /\ fpc = "idle"
  /\ OldestPending # {}
  /\ batch' = OldestPending
  /\ wire' = wire \cup {OldestPending}
  /\ fpc' = "waiting"
  /\ UNCHANGED <<link, disk, sampler, worker, receipts, final, restarts>>

\* The rows of b in order, up to the n-th.
First(b, n) == {i \in b : Cardinality({j \in b : j < i}) < n}

\* The service (external) stores its verdicts on the first n events, then
\* answers; n falls short when it stops part of the way.  Nobody may wait
\* for that answer any more.
ServiceHandles(b) ==
  /\ \E n \in 0..Cardinality(b) :
       /\ final' = final \cup {spool[i].ev : i \in First(b, n)}
       /\ IF fpc = "waiting" /\ batch = b
            THEN fpc' = "answered" /\ receipts' = First(b, n)
            ELSE UNCHANGED <<fpc, receipts>>
  /\ wire' = wire \ {b}
  /\ UNCHANGED <<link, disk, sampler, worker, batch, restarts>>

NetworkLoses(b) ==
  /\ wire' = wire \ {b}
  /\ UNCHANGED <<link, disk, sampler, worker, forwarder, final, restarts>>

\* _receipts: zip(batch, receipts); rows without a receipt stay pending.
Acknowledged_WholeBatch == batch
Acknowledged == receipts

ForwarderAcks ==
  /\ fpc = "answered"
  /\ spool' = [i \in DOMAIN spool |->
                 IF i \in Acknowledged /\ spool[i].st = "pending"
                   THEN [spool[i] EXCEPT !.st = "acked"] ELSE spool[i]]
  /\ fpc' = "idle" /\ batch' = {} /\ receipts' = {}
  /\ UNCHANGED <<link, cursor, high, sampler, worker, service, restarts>>

\* Timeout, broken connection, 5xx: nothing is marked; the rows go again.
ForwarderGivesUp ==
  /\ fpc \in {"waiting", "answered"}
  /\ fpc' = "idle" /\ batch' = {} /\ receipts' = {}
  /\ UNCHANGED <<link, disk, sampler, worker, service, restarts>>

-----------------------------------------------------------------------------
\* The agent process ends and is started again.

Elements(s) == {s[i] : i \in DOMAIN s}

Restarted ==
  /\ restarts < MaxRestarts
  /\ restarts' = restarts + 1
  /\ facts' = <<>> /\ waiting' = <<>>
  /\ wpc' = "collect" /\ read' = Nothing
  /\ fpc' = "idle" /\ batch' = {} /\ receipts' = {}
  /\ UNCHANGED <<link, cursor, cycles, service>>

Killed ==
  /\ Restarted
  /\ dropped' = dropped \cup Elements(waiting) \cup Elements(facts)
  /\ UNCHANGED <<spool, high>>

\* stop(): the worker ends its round and stores what is left one by one,
\* until the spool is full.
StoppedCleanly ==
  /\ wpc = "collect"
  /\ Restarted
  /\ LET left == waiting \o facts
     IN  \E k \in 0..Len(left) :
           /\ k > 0 => Higher(k - 1) < Budget
           /\ k < Len(left) => Higher(k) >= Budget
           /\ spool' = spool \o [n \in 1..k |-> Row(left[n])]
           /\ high' = Higher(k)
           /\ dropped' = dropped \cup {left[n] : n \in (k + 1)..Len(left)}

-----------------------------------------------------------------------------
Worker ==
  \/ WorkerCollects
  \/ WorkerStores
  \/ WorkerStoreRefused
  \/ WorkerStoredAll
  \/ WorkerReads
  \/ WorkerReadsNothing
  \/ WorkerAppends
  \/ WorkerAppendRefused
  \/ WorkerAcks

Next ==
  \/ MillWrightAdds
  \/ MillWrightPrunes
  \/ MillWrightStartsAgain
  \/ CycleEnds
  \/ Worker
  \/ WorkerAckFails
  \/ WorkerPrunes
  \/ ForwarderSends
  \/ \E b \in wire : ServiceHandles(b)
  \/ \E b \in wire : NetworkLoses(b)
  \/ ForwarderAcks
  \/ ForwarderGivesUp
  \/ Killed
  \/ StoppedCleanly

Spec == Init /\ [][Next]_vars

\* The worker's loop and the forwarder's loop never end while the agent runs
\* (exceptions are caught, requests time out, backoff is capped), and a
\* service that is tried
\* again and again is reached again and again with a whole answer.  prune()
\* runs every hour, and 7 days pass.
WholeAnswer ==
  /\ fpc = "waiting" /\ batch \in wire
  /\ ServiceHandles(batch)
  /\ receipts' = batch

FairSpec ==
  /\ Spec
  /\ WF_vars(Worker)
  /\ WF_vars(ForwarderSends)
  /\ WF_vars(ForwarderGivesUp)
  /\ SF_vars(WholeAnswer)
  /\ SF_vars(ForwarderAcks /\ receipts = batch)
  /\ SF_vars(WorkerPrunes)

-----------------------------------------------------------------------------
\* Properties

Stored == {spool[i].ev : i \in DOMAIN spool}
InOutbox == {[epoch |-> outbox.epoch, seq |-> s] : s \in (outbox.low + 1)..outbox.last}

\* "Durable before acknowledged": what mes_ack.json covers, and so what
\* MillWright may forget, is in the spool, whatever crashed in between.
DurableBeforeAck ==
  \A s \in 1..ack.seq : [epoch |-> ack.epoch, seq |-> s] \in Stored

\* Nothing MillWright still had a use for is gone: of its present epoch every
\* event is in the outbox or in the spool.
NothingSkipped ==
  \A s \in 1..outbox.last :
    [epoch |-> outbox.epoch, seq |-> s] \in InOutbox \cup Stored

\* The rows of an outbox epoch.
Copied(e) == {i \in DOMAIN spool : spool[i].ev.epoch = e}

\* The rows of an outbox epoch are in the spool in order, each once, without
\* a hole, up to the cursor (a second row would break UNIQUE event_id and
\* stop the copying for good).
CopiedInOrder ==
  \A e \in 1..outbox.epoch :
    /\ \A i \in Copied(e) : spool[i].ev.seq = Cardinality({j \in Copied(e) : j <= i})
    /\ cursor.epoch = e => cursor.pos = Cardinality(Copied(e))

\* mes_ack.json never goes back, to an earlier event or an earlier outbox: not
\* by a read done twice, a restart, or a database made again in between.
AckMovesOn ==
  [][ack.epoch < ack'.epoch \/ (ack.epoch = ack'.epoch /\ ack.seq <= ack'.seq)]_vars

\* The cycles that are stored are in the spool in the order in which they
\* ended, whatever was refused, given up or lost in a restart between them.
CyclesInOrder ==
  \A i, j \in Copied(0) : i < j => spool[i].ev.seq < spool[j].ev.seq

\* A row is marked acknowledged, and may be deleted, only when the service
\* has a verdict on its event: late, lost and short answers included.
FinalBeforeForgotten ==
  \A i \in RowsIn("acked") \cup RowsIn("pruned") : spool[i].ev \in final

\* Every finished cycle is in exactly one place: on its way to the worker,
\* waiting for room, stored as one row, or given up.
CycleAccounted ==
  \A n \in 1..cycles :
    LET places == Cardinality({i \in DOMAIN facts : facts[i] = Cycle(n)})
                + Cardinality({i \in DOMAIN waiting : waiting[i] = Cycle(n)})
                + Cardinality({i \in DOMAIN spool : spool[i].ev = Cycle(n)})
                + Cardinality({Cycle(n)} \cap dropped)
    IN  places = 1

\* The pipeline keeps the promise of EventDelivery.  A row the worker has
\* read is still "made": it is in the agent's memory only.
Reading == IF wpc = "append" THEN {ReadEvent(n) : n \in 1..ReadCount} ELSE {}

OnItsWay == InOutbox \cup Reading \cup Elements(facts) \cup Elements(waiting)

PhaseOf(e) ==
  IF e \in final THEN "final"
  ELSE IF e \in Stored THEN "kept"
  ELSE IF e \in OnItsWay THEN "made"
  ELSE IF e \in dropped \/ e.epoch \in 1..(outbox.epoch - 1) THEN "gone"
  ELSE "none"

AllEvents ==
  {Cycle(n) : n \in 1..MaxCycles} \cup [epoch : 1..MaxOutboxEpochs, seq : 1..MaxOutbox]

Delivery ==
  INSTANCE EventDelivery WITH Event <- AllEvents, store <- outbox.epoch,
                              phase <- [e \in AllEvents |-> PhaseOf(e)]

\* An event taken over is never given up, and none is settled or forgotten
\* that was not taken over first: every step is a step of EventDelivery.
ImplementsDelivery == Delivery!Spec

\* What is in the spool reaches the service: again and again nothing waits.
Delivered == Delivery!KeptAreSettled

\* What is in the outbox reaches the spool: again and again nothing is left
\* there that is not in the spool, unless the spool is full or an event breaks
\* the contract.
Collected == []<>(InOutbox \subseteq Stored \/ Full \/ InOutbox \cap Invalid # {})

\* "Facts the spool refused (full)" wait, and are stored when there is room:
\* a fact that waits is stored or given up (or the process ends).
RefusedIsStoredLater ==
  \A n \in 1..MaxCycles :
    (\E i \in DOMAIN waiting : waiting[i] = Cycle(n))
      ~> (Cycle(n) \in Stored \cup dropped)
=============================================================================
