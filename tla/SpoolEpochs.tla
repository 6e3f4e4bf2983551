---------------------------- MODULE SpoolEpochs ----------------------------
(***************************************************************************)
(* The identity of the events the agent makes itself: agent_mes_spool.py,  *)
(* class Spool.  Every own event carries (producer, epoch, seq); the       *)
(* service orders and de-duplicates by them, so the three together must    *)
(* never name two events.  The database keeps the epoch and the last seq,  *)
(* and a sidecar file beside it keeps a second copy of both, so that a     *)
(* database that was put back from a backup is recognised.                 *)
(*                                                                         *)
(* The process may stop between any two writes; the operator may back the  *)
(* database up, put the copy back or delete the database while the agent   *)
(* is down.  What may happen to the sidecar itself is named in Mishaps, so *)
(* that each run says what it allows, and recorded in mishaps when it      *)
(* happens, so that each property says what it can still promise then.     *)
(***************************************************************************)
EXTENDS Naturals

CONSTANTS
  Fact,       \* what an own event reports (a finished cycle)
  Mishaps,    \* what may happen to the sidecar, see MishapKinds
  MaxEpochs,  \* bound: epochs ever created
  MaxSeq,     \* bound: own events per epoch
  MishapEpochs\* bound: mishaps happen while there are at most so many epochs

MishapKinds == {"sidecar_write_fails",   \* OSError, only logged by add()
                "sidecar_restored_too"}  \* the backup holds both files

ASSUME MishapsAssumption == Mishaps \subseteq MishapKinds
ASSUME BoundsAssumption == MaxEpochs \in Nat /\ MaxSeq \in Nat /\ MishapEpochs \in Nat

VARIABLES
  db,       \* the database file: NoDb, or its meta and spool tables
  side,     \* mes_spool.producer.json: NoSide, or its document
  backup,   \* the operator's copy of the database (one is kept)
  bside,    \* the sidecar as it was when the copy was taken
  pc,       \* where the agent is: down, opening, idle, added
  mem,      \* Spool.producer_id / epoch / producer_seq of the process
  epochs,   \* history: epochs created so far (uuid4: each is new)
  producers,\* history: producer ids created so far
  shown,    \* history: the events pending() has handed to the forwarder
  mishaps   \* history: what has happened to the sidecar

epochsVars == <<db, side, backup, bside, pc, mem, epochs, producers, shown, mishaps>>
files   == <<db, side, backup, bside>>
history == <<epochs, producers, shown, mishaps>>

Ident == [producer : Nat, epoch : Nat, seq : Nat]
OwnEvent == [producer : Nat, epoch : Nat, seq : Nat, fact : Fact]
Db    == [id : Ident, rows : SUBSET OwnEvent]

\* Producer ids and epochs count from 1; a file that is not there names none.
Nobody == [producer |-> 0, epoch |-> 0, seq |-> 0]
NoSide == Nobody
NoDb   == [id |-> Nobody, rows |-> {}]

EpochsTypeOK ==
  /\ db \in Db
  /\ side \in Ident
  /\ backup \in Db
  /\ bside \in Ident
  /\ pc \in {"down", "opening", "idle", "added"}
  /\ mem \in Ident
  /\ epochs \in Nat
  /\ producers \in Nat
  /\ shown \in SUBSET OwnEvent
  /\ mishaps \subseteq Mishaps

EpochsInit ==
  /\ db = NoDb /\ side = NoSide
  /\ backup = NoDb /\ bside = NoSide
  /\ pc = "down" /\ mem = Nobody
  /\ epochs = 0 /\ producers = 0
  /\ shown = {} /\ mishaps = {}

-----------------------------------------------------------------------------
\* The agent starts: _open_epoch up to and including its COMMIT.

\* The mutated forms a check substitutes (here and below) stand before the
\* definition they mutate.
OpenedProducer_SidecarIgnored ==
  IF db # NoDb THEN db.id.producer ELSE producers + 1

\* The producer id of the database, else of the sidecar, else a new one.
OpenedProducer ==
  IF db # NoDb THEN db.id.producer
  ELSE IF side # NoSide THEN side.producer
  ELSE producers + 1

\* "spool database restored from an older copy".
Restored ==
  /\ side # NoSide
  /\ side.producer = db.id.producer
  /\ side.epoch # db.id.epoch \/ side.seq > db.id.seq

\* producer_seq of a new epoch.
FirstSeq == 0

OpenNewEpoch ==
  /\ pc = "down"
  /\ db = NoDb \/ Restored
  /\ epochs < MaxEpochs
  /\ mem' = [producer |-> OpenedProducer, epoch |-> epochs + 1, seq |-> FirstSeq]
  /\ db' = [id |-> mem', rows |-> db.rows]
  /\ epochs' = epochs + 1
  /\ producers' = IF OpenedProducer > producers THEN OpenedProducer ELSE producers
  /\ pc' = "opening"
  /\ UNCHANGED <<side, backup, bside, shown, mishaps>>

OpenSameEpoch ==
  /\ pc = "down"
  /\ db # NoDb /\ ~Restored
  /\ mem' = db.id
  /\ pc' = "opening"
  /\ UNCHANGED <<files, history>>

\* The document _write_sidecar writes.
SidecarDoc == mem

\* _write_sidecar at the end of _open_epoch.  An OSError here makes the
\* constructor fail: the process has no spool, which is a Stop.
OpenWritesSidecar ==
  /\ pc = "opening"
  /\ side' = SidecarDoc
  /\ pc' = "idle"
  /\ UNCHANGED <<db, backup, bside, mem, history>>

-----------------------------------------------------------------------------
\* add(): _append_locked holds the lock from BEGIN until the sidecar is
\* written (or could not be), so pending() runs in neither of its two steps.
LockFree_AfterCommit == pc \in {"idle", "added"}
LockFree == pc = "idle"

AddCommits(f) ==
  /\ LockFree
  /\ mem.seq < MaxSeq
  /\ mem' = [mem EXCEPT !.seq = @ + 1]
  /\ db' = [id |-> mem',
            rows |-> db.rows \cup {[producer |-> mem.producer, epoch |-> mem.epoch,
                                    seq |-> mem.seq + 1, fact |-> f]}]
  /\ pc' = "added"
  /\ UNCHANGED <<side, backup, bside, history>>

AddWritesSidecar ==
  /\ pc = "added"
  /\ side' = SidecarDoc
  /\ pc' = "idle"
  /\ UNCHANGED <<db, backup, bside, mem, history>>

\* except OSError: a warning, and the event stays stored.
AddSidecarFails ==
  /\ "sidecar_write_fails" \in Mishaps /\ epochs <= MishapEpochs
  /\ pc = "added"
  /\ pc' = "idle"
  /\ mishaps' = mishaps \cup {"sidecar_write_fails"}
  /\ UNCHANGED <<files, mem, epochs, producers, shown>>

\* pending(): rows leave the spool for the forwarder.  All of them: nothing
\* reads shown, so whatever holds when all left holds when some did.
Show ==
  /\ LockFree
  /\ shown' = shown \cup db.rows
  /\ UNCHANGED <<files, pc, mem, epochs, producers, mishaps>>

\* The process ends: close(), kill, power loss.
Stop ==
  /\ pc # "down"
  /\ pc' = "down"
  /\ mem' = Nobody
  /\ UNCHANGED <<files, history>>

-----------------------------------------------------------------------------
\* The operator and the files (not the agent's code).

\* A copy of the committed database, taken of an agent that has started at
\* least once.  A new copy replaces the one before.
TakeBackup ==
  /\ db # NoDb /\ side # NoSide
  /\ backup' = db
  /\ bside' = side
  /\ UNCHANGED <<db, side, pc, mem, history>>

RestoreBackup ==
  /\ pc = "down"
  /\ backup # NoDb
  /\ db' = backup
  /\ UNCHANGED <<side, backup, bside, pc, mem, history>>

\* The whole directory is put back.
RestoreBoth ==
  /\ "sidecar_restored_too" \in Mishaps /\ epochs <= MishapEpochs
  /\ pc = "down"
  /\ backup # NoDb
  /\ db' = backup /\ side' = bside
  /\ mishaps' = mishaps \cup {"sidecar_restored_too"}
  /\ UNCHANGED <<backup, bside, pc, mem, epochs, producers, shown>>

DeleteDatabase ==
  /\ pc = "down"
  /\ db # NoDb
  /\ db' = NoDb
  /\ UNCHANGED <<side, backup, bside, pc, mem, history>>

EpochsNext ==
  \/ OpenNewEpoch
  \/ OpenSameEpoch
  \/ OpenWritesSidecar
  \/ \E f \in Fact : AddCommits(f)
  \/ AddWritesSidecar
  \/ AddSidecarFails
  \/ Show
  \/ Stop
  \/ TakeBackup
  \/ RestoreBackup
  \/ RestoreBoth
  \/ DeleteDatabase

EpochsSpec == EpochsInit /\ [][EpochsNext]_epochsVars

-----------------------------------------------------------------------------
\* Properties

SameNumber(e, f) ==
  e.producer = f.producer /\ e.epoch = f.epoch /\ e.seq = f.seq

\* "so a sequence number is never used twice": two events that were handed to
\* the forwarder under one (producer, epoch, seq) are one event, whatever
\* crashes, restores and deletions of the database came between them.
NeverUsedTwice == \A e, f \in shown : SameNumber(e, f) => e = f

\* What the code gives: it is so as long as the sidecar itself is kept.
NoSeqReuse == mishaps = {} => NeverUsedTwice

\* "The producer id survives a re-created database": the service never sees
\* this machine under two producer ids.
OneProducer == \A e, f \in shown : e.producer = f.producer

\* A later event of an epoch never leaves while an earlier one was skipped:
\* the events the spool holds number 1, 2, 3... in each of its epochs, so a
\* hole the service sees is a lost event and never a number not used.
Contiguous ==
  \A e \in db.rows : \A n \in 1..e.seq :
    \E f \in db.rows : f.epoch = e.epoch /\ f.seq = n

\* Identity i is at or after (epoch, seq) of j.
NotBefore(i, j) == j.epoch < i.epoch \/ (j.epoch = i.epoch /\ j.seq <= i.seq)

Covers ==
  \A e \in shown : side # NoSide /\ e.producer = side.producer /\ NotBefore(side, e)

\* The sidecar is at least as far as everything that left the spool; this is
\* what lets the next start tell an older copy of the database.
SidecarCovers == mishaps = {} => Covers

-----------------------------------------------------------------------------
\* The inductive invariant behind NoSeqReuse and SidecarCovers (proved in
\* MesPipelineProofs).

\* No row of a copy of the database is beyond the copy's own meta table.
Within(c) ==
  \A r \in c.rows : r.producer = c.id.producer /\ NotBefore(c.id, r)

\* A file that is there names an epoch that was created.
Existing ==
  /\ \A c \in {db, backup} : c = NoDb \/ c.id.epoch \in 1..epochs
  /\ side = NoSide \/ side.epoch \in 1..epochs

\* All files are of one producer; before the first sidecar nothing left.
OneLine ==
  /\ side # NoSide => \A c \in {db, backup} : c = NoDb \/ c.id.producer = side.producer
  /\ side = NoSide => backup = NoDb /\ shown = {} /\ pc \in {"down", "opening"}

\* What the running process relies on.
Running ==
  /\ pc # "down" => db.id = mem /\ db # NoDb
  /\ pc = "opening" => side = NoSide \/ NotBefore(mem, side)
  /\ pc = "idle" => side = mem
  /\ pc = "added" => /\ side.producer = mem.producer /\ side.epoch = mem.epoch
                     /\ mem.seq = side.seq + 1

BackupBehind == db = NoDb \/ NotBefore(db.id, backup.id)

Unique ==
  \A e, f \in db.rows \cup backup.rows \cup shown : SameNumber(e, f) => e = f

InStep ==
  /\ Within(db)
  /\ Within(backup)
  /\ Existing
  /\ OneLine
  /\ Running
  /\ BackupBehind
  /\ Covers
  /\ Unique

\* While nothing happens to the sidecar, the files, the process and what has
\* left the spool stay in step through every crash, restore and deletion.
EpochsInv == EpochsTypeOK /\ (mishaps = {} => InStep)
=============================================================================
