--------------------------- MODULE ForwarderBatch ---------------------------
(***************************************************************************)
(* What the forwarder sends at a time: agent_mes_forward.py, Forwarder     *)
(* _capabilities, _batch, send_once and _receipts.  The service announces  *)
(* the event types it takes and three limits, and may announce others      *)
(* later; the agent learns of it at the next hourly question, or earlier   *)
(* from an answer 413.  batch_cap follows the answers: halved when a batch *)
(* is refused, doubled when one is taken.                                  *)
(*                                                                         *)
(* Here a request is one step with its answer; lost and late answers, and  *)
(* the rows they leave pending, are in MesPipeline.  Backoff is left out:  *)
(* it delays a round and changes no batch.                                 *)
(***************************************************************************)
EXTENDS Naturals, FiniteSets, FiniteSetsExt

CONSTANTS
  Type,          \* event types
  Size,          \* sizes of an encoded event
  Envelope,      \* len(b'{"events":[]}')
  DefaultLimits, \* DEFAULT_LIMITS
  Offer,         \* what the service may announce: types and limits; a limit
                 \* of 0 stands for one that is missing or not a positive int
  MaxRow,        \* bound: rows of the spool
  MaxOffers      \* bound: times the service changes what it announces

Limits == [events : Nat \ {0}, bytes : Nat \ {0}, event : Nat \ {0}]

ASSUME LimitsAssumption ==
  /\ DefaultLimits \in Limits
  /\ Offer \subseteq [types : SUBSET Type, events : Nat, bytes : Nat, event : Nat]
ASSUME NumbersAssumption ==
  /\ Size \subseteq Nat /\ Envelope \in Nat
  /\ MaxRow \in Nat /\ MaxOffers \in Nat

VARIABLES
  row,      \* the rows of the spool: type and size, oldest first
  pending,  \* rows in state pending
  offer,    \* what the service announces, and enforces, now
  offers,   \* how often that has changed
  due,      \* capabilities not asked yet, or an hour ago
  types,    \* self.types
  limits,   \* self.limits
  cap       \* self.batch_cap

batchVars == <<row, pending, offer, offers, due, types, limits, cap>>
spool     == <<row, pending>>
announced == <<offer, offers>>
knowledge == <<due, types, limits>>

Row == [type : Type, size : Size]

BatchTypeOK ==
  /\ \E n \in 0..MaxRow : row \in [1..n -> Row]
  /\ pending \subseteq DOMAIN row
  /\ offer \in Offer
  /\ offers \in 0..MaxOffers
  /\ due \in BOOLEAN
  /\ types \subseteq Type
  /\ limits \in Limits
  /\ cap \in Nat

BatchInit ==
  /\ row = <<>> /\ pending = {}
  /\ offer \in Offer /\ offers = 0
  /\ due = TRUE /\ types = {}
  /\ limits = DefaultLimits /\ cap = DefaultLimits.events

-----------------------------------------------------------------------------
\* _batch

Lesser(a, b) == IF a < b THEN a ELSE b

\* len of the request body: the events, with a comma between two.
Bytes_NoCommas(S) == Envelope + MapThenSumSet(LAMBDA r : row[r].size, S)
Bytes(S) ==
  Envelope + MapThenSumSet(LAMBDA r : row[r].size, S)
           + (IF S = {} THEN 0 ELSE Cardinality(S) - 1)

Accepted(r) == row[r].type \in types

\* The rows pending(limit, types) returns.
Window ==
  LET k == Lesser(cap, limits.events)
  IN  {r \in pending :
         Accepted(r) /\ Cardinality({s \in pending : Accepted(s) /\ s < r}) < k}

\* "over the service's limit: kept, not sent"
Oversize(r) ==
  row[r].size > limits.event \/ row[r].size + Envelope > limits.bytes

Fitting == {r \in Window : ~Oversize(r)}

UpTo(S, r) == {s \in S : s <= r}

\* The rows before the first that would go over max_batch_bytes (break).
Batch_NoCommas ==
  LET F == Fitting
  IN  {r \in F : \A s \in UpTo(F, r) : Bytes_NoCommas(UpTo(F, s)) <= limits.bytes}
Batch ==
  LET F == Fitting
  IN  {r \in F : \A s \in UpTo(F, r) : Bytes(UpTo(F, s)) <= limits.bytes}

-----------------------------------------------------------------------------
\* The spool's other side, the service and the clock

Arrives(r) ==
  /\ Cardinality(DOMAIN row) < MaxRow
  /\ LET n == Cardinality(DOMAIN row) + 1
     IN  /\ row' = [i \in 1..n |-> IF i = n THEN r ELSE row[i]]
         /\ pending' = pending \cup {n}
  /\ UNCHANGED <<announced, knowledge, cap>>

ServiceChanges(o) ==
  /\ offers < MaxOffers
  /\ o # offer
  /\ offer' = o
  /\ offers' = offers + 1
  /\ UNCHANGED <<spool, knowledge, cap>>

\* CAPS_EVERY_S
HourPasses ==
  /\ ~due
  /\ due' = TRUE
  /\ UNCHANGED <<spool, announced, types, limits, cap>>

-----------------------------------------------------------------------------
\* step(): _capabilities when due, else send_once

\* A limit that is not announced stays what it was.
Learned_AsIs(old, new) == new
Learned(old, new) == IF new > 0 THEN new ELSE old

NewCap(l) == Lesser(cap, l.events)

AsksCapabilities ==
  /\ due
  /\ limits' = [events |-> Learned(limits.events, offer.events),
                bytes  |-> Learned(limits.bytes, offer.bytes),
                event  |-> Learned(limits.event, offer.event)]
  /\ cap' = NewCap(limits')
  /\ types' = offer.types
  /\ due' = FALSE
  /\ UNCHANGED <<spool, announced>>

\* What the service enforces; a limit it does not announce it does not have.
Takes(S) ==
  /\ offer.events > 0 => Cardinality(S) <= offer.events
  /\ offer.bytes > 0 => Bytes(S) <= offer.bytes

\* 200: receipts for the first n rows; a receipt that is missing or does not
\* match leaves its row pending.
GrownCap == IF cap < limits.events THEN Lesser(limits.events, cap * 2) ELSE cap

SendTaken ==
  /\ ~due
  /\ Batch # {} /\ Takes(Batch)
  /\ \E n \in 0..Cardinality(Batch) :
       pending' = pending \ {r \in Batch : Cardinality({s \in Batch : s < r}) < n}
  /\ cap' = GrownCap
  /\ UNCHANGED <<row, announced, knowledge>>

\* Answers 413 and 400: "send smaller batches".
HalvedCap_ToZero == Cardinality(Batch) \div 2
HalvedCap == IF Cardinality(Batch) < 2 THEN 1 ELSE Cardinality(Batch) \div 2

SendTooLarge ==
  /\ ~due
  /\ Batch # {} /\ ~Takes(Batch)
  /\ cap' = HalvedCap
  /\ UNCHANGED <<spool, announced, knowledge>>

\* A 400 says nothing of the size.
SendMalformed ==
  /\ ~due
  /\ Batch # {}
  /\ cap' = HalvedCap
  /\ UNCHANGED <<spool, announced, knowledge>>

BatchNext ==
  \/ \E r \in Row : Arrives(r)
  \/ \E o \in Offer : ServiceChanges(o)
  \/ HourPasses
  \/ AsksCapabilities
  \/ SendTaken
  \/ SendTooLarge
  \/ SendMalformed

BatchSpec == BatchInit /\ [][BatchNext]_batchVars

\* The forwarder's rounds go on, an hour passes again and again, and a
\* service that takes batches answers with a receipt for every row again and
\* again.
WholeBatchTaken == SendTaken /\ pending' = pending \ Batch

BatchFairSpec ==
  /\ BatchSpec
  /\ WF_batchVars(HourPasses)
  /\ WF_batchVars(AsksCapabilities)
  /\ SF_batchVars(WholeBatchTaken)
  /\ SF_batchVars(SendTooLarge)

-----------------------------------------------------------------------------
\* Properties

\* "batches never exceed the limits capabilities returns": number, bytes of
\* the body with its commas, size of each event, types; a cap that was
\* lowered or doubled meanwhile included.
BatchWithinLimits ==
  /\ Cardinality(Batch) <= limits.events
  /\ Batch # {} => Bytes(Batch) <= limits.bytes
  /\ \A r \in Batch : row[r].size <= limits.event /\ row[r].type \in types

\* What a row of its own size and type would need to be sent.
Sendable(r) == Accepted(r) /\ ~Oversize(r)

\* As many rows over the limit as the cap stand before all others.
Blocked == Window # {} /\ Fitting = {}

\* "kept, not sent": a row the service would take is sent, also behind rows
\* over the limit that are kept, unless those fill the window.
Drains ==
  \A r \in 1..MaxRow :
    (r \in pending) ~> (r \notin pending \/ ~Sendable(r) \/ Blocked)
=============================================================================
