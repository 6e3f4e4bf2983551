------------------------------ MODULE History ------------------------------
(***************************************************************************)
(* The status packets and the history of them on the machine PC: the       *)
(* packet part of the sampling loop (status.py), PacketGate                *)
(* (agent_packets.py), Journal and JournalServer (agent_journal.py), and a *)
(* dashboard that fetches what it missed as PROTOCOL.md 5a says.           *)
(*                                                                         *)
(* The loop and the server thread share the database file and the server's *)
(* agent_id.  The file may be deleted while it is open: who holds it then  *)
(* goes on with the old file, and who opens the path makes a new one.      *)
(*                                                                         *)
(* Clocks are left out: whether an interval has passed is a choice, named  *)
(* after the interval.  A packet is what its edges depend on: the cycle    *)
(* state and the fault picture.                                            *)
(***************************************************************************)
EXTENDS Naturals, Sequences, FiniteSets

CONSTANTS
  Fault,      \* fault_signature: the fault pictures
  NoFault,    \* None: no sample yet
  Page,       \* entries of one reply
  Mishaps,    \* a subset of MishapKinds
  MaxSeq,     \* bound: entries of one file
  MaxFiles,   \* bound: journal files
  MaxStarts,  \* bound: starts of the agent
  MaxFails    \* bound: operations on the journal that fail

MishapKinds == {"file_deleted", "power_loss"}

ASSUME MishapsAssumption == Mishaps \subseteq MishapKinds
ASSUME FaultAssumption == NoFault \notin Fault
ASSUME SizesAssumption ==
  /\ Page \in Nat \ {0}
  /\ MaxFiles \in Nat \ {0}
  /\ MaxSeq \in Nat /\ MaxStarts \in Nat /\ MaxFails \in Nat

VARIABLES
  file,    \* journal files ever made: agent_id there, entries low+1..last,
           \* what the last one shows
  path,    \* the file journal.db names, 0: none
  jnl,     \* Journal: _conn, agent_id, last_seq, _last_key, state
  gate,    \* PacketGate
  lpc,     \* the loop: sample, server, joining, packet
  sig,     \* what this sample shows
  packet,  \* the last status packet of this session: what it shows, and its
           \* journal fields
  srv,     \* JournalServer: thread, its database, agent_id, socket, _stop
  ans,     \* the request the thread is answering, and what it has read so far
  mark,    \* dashboard: committed watermark of each agent_id
  lost,    \* history: power was lost
  starts, fails

vars == <<file, path, jnl, gate, lpc, sig, packet, srv, ans, mark, lost, starts, fails>>
disk   == <<file, path>>
loop   == <<gate, lpc, sig, packet>>
server == <<srv, ans>>

State == {"IDLE", "RUNNING"}       \* PAUSED is treated as RUNNING is
Signal == [state : State, fault : Fault]
NoSignal == [state |-> "", fault |-> NoFault]
Ids == 1..MaxFiles                 \* a file's agent_id is its number; 0: none

NewFile == [named |-> FALSE, last |-> 0, low |-> 0, shows |-> NoSignal]
Closed == [conn |-> 0, id |-> 0, seq |-> 0, key |-> NoSignal, state |-> "ok"]
NewGate == [sampled |-> "", prev |-> "", idle |-> FALSE, fault |-> NoFault, pending |-> FALSE]
NoServer == [thread |-> "off", conn |-> 0, label |-> 0, sock |-> FALSE, stop |-> FALSE]
NoAnswer == [id |-> 0, file |-> 0, from |-> 0, upper |-> 0, first |-> 0]
NoPacket == [shows |-> NoSignal, id |-> 0, seq |-> 0, state |-> ""]

TypeOK ==
  /\ file \in Seq([named : BOOLEAN, last : Nat, low : Nat,
                   shows : Signal \cup {NoSignal}])
  /\ path \in 0..Len(file)
  /\ jnl \in [conn : 0..Len(file), id : 0..Len(file), seq : Nat,
              key : Signal \cup {NoSignal}, state : {"ok", "failing", "disk_low"}]
  /\ gate \in [sampled : State \cup {""}, prev : State \cup {""}, idle : BOOLEAN,
               fault : Fault \cup {NoFault}, pending : BOOLEAN]
  /\ lpc \in {"down", "sample", "server", "joining", "packet"}
  /\ sig \in Signal \cup {NoSignal}
  /\ packet \in [shows : Signal \cup {NoSignal}, id : 0..Len(file), seq : Nat,
                 state : {"", "ok", "failing", "disk_low"}]
  /\ srv \in [thread : {"off", "starting", "serving", "answering"}, conn : 0..Len(file),
              label : 0..Len(file), sock : BOOLEAN, stop : BOOLEAN]
  /\ ans \in [id : 0..Len(file), file : 0..Len(file), from : Nat, upper : Nat, first : Nat]
  /\ mark \in [Ids -> Nat]
  /\ lost \in BOOLEAN /\ starts \in Nat /\ fails \in Nat

Init ==
  /\ file = <<>> /\ path = 0
  /\ jnl = Closed /\ gate = NewGate /\ lpc = "down" /\ sig = NoSignal /\ packet = NoPacket
  /\ srv = NoServer /\ ans = NoAnswer
  /\ mark = [i \in Ids |-> 0] /\ lost = FALSE /\ starts = 0 /\ fails = 0

-----------------------------------------------------------------------------
\* The journal's file (SQLite; each name with a suffix is a mutated form)

\* Opening the path makes a file when there is none.
Files == IF path = 0 THEN Append(file, NewFile) ELSE file
Opened == IF path = 0 THEN Len(file) + 1 ELSE path

\* first_seq and last_seq of build_reply: of the entries that are there.
FirstSeq(f) == IF f.last = 0 THEN 0 ELSE f.low + 1

-----------------------------------------------------------------------------
\* Journal

\* An operation may fail, MaxFails times.
Fails == fails < MaxFails /\ fails' = fails + 1
Works == UNCHANGED fails

\* _open_db makes agent_id once, and reads last_seq.  A database: the open
\* connection, with the files and the path as they are then.
Connected_SeqKept(j) ==
  [jnl |-> [j EXCEPT !.conn = Opened, !.id = Opened],
   file |-> [Files EXCEPT ![Opened].named = TRUE],
   path |-> Opened]
Connected(j) ==
  [jnl |-> [j EXCEPT !.conn = Opened, !.id = Opened,
                     !.seq = IF path = 0 THEN 0 ELSE file[path].last],
   file |-> [Files EXCEPT ![Opened].named = TRUE],
   path |-> Opened]

\* _fail
Failing(j) == [j EXCEPT !.conn = 0, !.state = "failing"]

\* _disk_ok.  free: what statvfs says, if it is time to look: unchecked, low
\* (below min_free), short (without the 10 % to spare), plenty.
AfterCheck_OkAtOnce(free) ==
  IF free = "unchecked" THEN jnl.state
  ELSE IF free = "low" THEN "disk_low"
  ELSE IF jnl.state = "disk_low" THEN "ok" ELSE jnl.state
AfterCheck(free) ==
  IF free = "unchecked" THEN jnl.state
  ELSE IF jnl.state = "disk_low"
    THEN IF free # "plenty" THEN "disk_low" ELSE IF jnl.conn = 0 THEN "failing" ELSE "ok"
    ELSE IF free = "low" THEN "disk_low" ELSE jnl.state

Checked(free) == [jnl EXCEPT !.state = AfterCheck(free)]

DiskLow(free) ==
  /\ Checked(free).state = "disk_low"
  /\ jnl' = Checked(free)
  /\ UNCHANGED <<disk, fails>>

\* Before _retry_at, or opening fails.
StaysClosed(free) ==
  /\ Checked(free).state # "disk_low" /\ jnl.conn = 0
  /\ \/ jnl' = Checked(free) /\ Works
     \/ jnl' = Failing(Checked(free)) /\ Fails
  /\ UNCHANGED disk

\* The connection record() uses: the one it has, or a new one.
Ready(free) ==
  IF jnl.conn # 0 THEN [jnl |-> Checked(free), file |-> file, path |-> path]
  ELSE Connected(Checked(free))

\* The same as in the last entry, and journal_interval_s has not passed.  It
\* has when the disk was low: that is looked at every DISK_CHECK_S only.
NotDue(free) ==
  /\ Checked(free).state # "disk_low" /\ jnl.state # "disk_low"
  /\ sig = jnl.key
  /\ jnl' = Ready(free).jnl /\ file' = Ready(free).file /\ path' = Ready(free).path
  /\ Works

\* prune() comes with a write, once an hour; it keeps what is just written.
Writes(free) ==
  /\ Checked(free).state # "disk_low"
  /\ LET r == Ready(free)
         c == r.jnl.conn
         n == r.file[c].last + 1
     IN  /\ n <= MaxSeq
         /\ \E low \in r.file[c].low..(n - 1) :
              file' = [r.file EXCEPT ![c].last = n, ![c].low = low, ![c].shows = sig]
         /\ path' = r.path
         /\ jnl' = [r.jnl EXCEPT !.seq = n, !.key = sig, !.state = "ok"]
  /\ Works

WriteFails(free) ==
  /\ Checked(free).state # "disk_low"
  /\ jnl' = Failing(Ready(free).jnl)
  /\ file' = Ready(free).file /\ path' = Ready(free).path
  /\ Fails

Free == {"unchecked", "low", "short", "plenty"}

Record(free) ==
  \/ DiskLow(free)
  \/ StaysClosed(free)
  \/ NotDue(free)
  \/ Writes(free)
  \/ WriteFails(free)

-----------------------------------------------------------------------------
\* The sampling loop: PacketGate and the packet

\* tick.  poll: poll_interval_s has passed.
Tick_PendingLost(s) ==
  [gate EXCEPT !.sampled = s.state, !.fault = s.fault,
               !.pending = gate.fault \notin {s.fault, NoFault}]
Tick(s) ==
  [gate EXCEPT !.sampled = s.state, !.fault = s.fault,
               !.pending = @ \/ gate.fault \notin {s.fault, NoFault}]

Sample(s, poll) ==
  /\ lpc = "sample"
  /\ sig' = s
  /\ gate' = Tick(s)
  /\ lpc' = IF s.state # gate.sampled \/ gate'.pending \/ poll THEN "server" ELSE "sample"
  /\ UNCHANGED <<disk, jnl, packet, server, mark, lost, starts, fails>>

\* should_send.  beat: idle_heartbeat_interval_s has passed.
Decides(beat) ==
  /\ gate' = [gate EXCEPT !.prev = sig.state,
                          !.idle = @ /\ sig.state = "IDLE" /\ sig.state = gate.prev]
  /\ lpc' = IF gate'.idle /\ ~gate.pending /\ ~beat THEN "sample" ELSE "packet"

\* JournalServer.start: a thread that still runs is left alone; else a new
\* socket and thread, or none when the port cannot be bound.
Started(v) ==
  IF v.thread # "off" THEN {v}
  ELSE {[v EXCEPT !.sock = FALSE, !.stop = FALSE],
        [v EXCEPT !.sock = TRUE, !.stop = FALSE, !.thread = "starting", !.conn = 0]}

\* "Keep the history server running".
ServerKept(beat) ==
  /\ lpc = "server"
  /\ jnl.id = srv.label
  /\ srv' \in {srv} \cup IF jnl.id # 0 /\ srv.thread = "off" THEN Started(srv) ELSE {}
  /\ Decides(beat)
  /\ UNCHANGED <<disk, jnl, sig, packet, ans, mark, lost, starts, fails>>

\* "The journal was (re)created": stop() first.
ServerStopped ==
  /\ lpc = "server"
  /\ jnl.id # srv.label
  /\ srv' = [srv EXCEPT !.stop = TRUE]
  /\ lpc' = "joining"
  /\ UNCHANGED <<disk, jnl, gate, sig, packet, ans, mark, lost, starts, fails>>

\* join(timeout=2.0): the thread has ended, or it may go on for a while.
Relabelled_SocketKept == [srv EXCEPT !.label = jnl.id]
Relabelled == [srv EXCEPT !.sock = FALSE, !.label = jnl.id]

ServerRestarts(beat) ==
  /\ lpc = "joining"
  /\ srv' \in Started(Relabelled)
  /\ Decides(beat)
  /\ UNCHANGED <<disk, jnl, sig, packet, ans, mark, lost, starts, fails>>

\* record, the journal's fields, send (or not: a full buffer), gate.sent
SendsPacket(free) ==
  /\ lpc = "packet"
  /\ Record(free)
  /\ packet' = [shows |-> sig, id |-> jnl'.id, seq |-> jnl'.seq, state |-> jnl'.state]
  /\ gate' = [gate EXCEPT !.pending = FALSE, !.idle = @ \/ sig.state = "IDLE"]
  /\ lpc' = "sample"
  /\ UNCHANGED <<sig, server, mark, lost, starts>>

\* "Data collection error"
PacketFails ==
  /\ lpc = "packet"
  /\ lpc' = "sample"
  /\ UNCHANGED <<disk, jnl, gate, sig, packet, server, mark, lost, starts, fails>>

-----------------------------------------------------------------------------
\* The server's thread

ThreadOpens ==
  /\ srv.thread = "starting"
  /\ path # 0 \/ Len(file) < MaxFiles
  /\ file' = Files /\ path' = Opened
  /\ srv' = [srv EXCEPT !.thread = "serving", !.conn = Opened]
  /\ UNCHANGED <<jnl, loop, ans, mark, lost, starts, fails>>

\* "Journal server stopped": opening fails, or it was told to stop.
ThreadEnds ==
  /\ \/ srv.thread = "starting" /\ Fails
     \/ srv.thread = "serving" /\ srv.stop /\ Works
  /\ srv' = [srv EXCEPT !.thread = "off", !.sock = FALSE, !.conn = 0]
  /\ UNCHANGED <<disk, jnl, loop, ans, mark, lost, starts>>

Smaller(a, b) == IF a < b THEN a ELSE b
Larger(a, b) == IF a > b THEN a ELSE b

\* build_reply up to its first SELECT.  The dashboard asks for what it has
\* not got of the journal it was told of; it drops a reply of another one, so
\* only requests for the one the server names count here.
ThreadTakes(to) ==
  /\ srv.thread = "serving" /\ srv.sock
  /\ srv.label # 0 /\ to \in (mark[srv.label] + 1)..file[srv.label].last
  /\ LET f == file[srv.conn]
     IN  ans' = [id |-> srv.label, file |-> srv.conn, from |-> mark[srv.label],
                 upper |-> Smaller(to, f.last), first |-> FirstSeq(f)]
  /\ srv' = [srv EXCEPT !.thread = "answering"]
  /\ UNCHANGED <<disk, jnl, loop, mark, lost, starts, fails>>

\* Its second SELECT, a page of it, and sendto.
Rows(a) == {s \in (a.from + 1)..a.upper : s > file[a.file].low}
FirstPage_Newest(S) == {s \in S : Cardinality({n \in S : n > s}) < Page}
FirstPage(S) == {s \in S : Cardinality({n \in S : n < s}) < Page}

\* How far a reply brings the watermark (external: PROTOCOL.md 5a).
Committed(a, rows) ==
  IF rows # {} THEN CHOOSE s \in rows : \A n \in rows : n <= s
  ELSE Larger(a.from, a.upper)

\* The reply is stored by the dashboard, or lost on the way.
ThreadReplies ==
  /\ srv.thread = "answering"
  /\ mark' \in {mark} \cup
       IF srv.sock THEN {[mark EXCEPT ![ans.id] = Committed(ans, FirstPage(Rows(ans)))]}
                   ELSE {}
  /\ ans' = NoAnswer
  /\ srv' = [srv EXCEPT !.thread = "serving"]
  /\ UNCHANGED <<disk, jnl, loop, lost, starts, fails>>

-----------------------------------------------------------------------------
\* The agent, and what befalls the file

\* Journal.__init__, and the server once there is a journal.
AgentStarts ==
  /\ lpc = "down" /\ starts < MaxStarts
  /\ starts' = starts + 1
  /\ \/ /\ Works
        /\ jnl' = Connected(Closed).jnl
        /\ file' = Connected(Closed).file /\ path' = Connected(Closed).path
        /\ srv' \in Started([NoServer EXCEPT !.label = jnl'.id])
     \/ /\ Fails
        /\ jnl' = Failing(Closed) /\ srv' = NoServer
        /\ UNCHANGED disk
  /\ gate' = NewGate /\ lpc' = "sample"
  /\ UNCHANGED <<sig, packet, ans, mark, lost>>

AgentEnds ==
  /\ lpc # "down"
  /\ lpc' = "down" /\ jnl' = Closed /\ srv' = NoServer /\ ans' = NoAnswer
  /\ gate' = NewGate /\ sig' = NoSignal /\ packet' = NoPacket
  /\ UNCHANGED <<disk, mark, lost, starts, fails>>

\* WAL with synchronous=NORMAL: what was committed since the last checkpoint
\* may be gone.  (A loss that reaches back before a pruning is left out.)
PowerIsLost ==
  /\ "power_loss" \in Mishaps /\ ~lost
  /\ lpc # "down" /\ path # 0
  /\ \E n \in 0..file[path].last :
       /\ file[path].low < Larger(n, 1)
       /\ file' = [file EXCEPT ![path].last = n]
  /\ lost' = TRUE
  /\ lpc' = "down" /\ jnl' = Closed /\ srv' = NoServer /\ ans' = NoAnswer
  /\ gate' = NewGate /\ sig' = NoSignal /\ packet' = NoPacket
  /\ UNCHANGED <<path, mark, starts, fails>>

\* Bound: not after a power loss.
FileDeleted ==
  /\ "file_deleted" \in Mishaps /\ ~lost
  /\ path # 0 /\ Len(file) < MaxFiles
  /\ path' = 0
  /\ UNCHANGED <<file, jnl, loop, server, mark, lost, starts, fails>>

Next ==
  \/ \E s \in Signal, poll \in BOOLEAN : Sample(s, poll)
  \/ \E beat \in BOOLEAN : ServerKept(beat)
  \/ ServerStopped
  \/ \E beat \in BOOLEAN : ServerRestarts(beat)
  \/ \E free \in Free : SendsPacket(free)
  \/ PacketFails
  \/ ThreadOpens
  \/ ThreadEnds
  \/ \E to \in 1..MaxSeq : ThreadTakes(to)
  \/ ThreadReplies
  \/ AgentStarts
  \/ AgentEnds
  \/ PowerIsLost
  \/ FileDeleted

Spec == Init /\ [][Next]_vars

-----------------------------------------------------------------------------
\* Properties

\* "A fault edge stays pending until a packet carrying it has gone out", and
\* no edge is suppressed while idle: as long as the dashboard was last told
\* something else than the last sample saw, the gate will not suppress the
\* next packet, whatever failed in between.
NothingForgotten ==
  lpc = "sample" /\ sig # NoSignal /\ packet.shows # NoSignal /\ gate.idle =>
    packet.shows = sig \/ gate.pending

\* "ok: writing normally": a packet that says so shows what the newest entry
\* of the journal shows, through failed writes, pauses and new files.
OkMeansKept ==
  packet.state = "ok" =>
    /\ packet.id # 0
    /\ packet.seq = file[packet.id].last
    /\ packet.shows = file[packet.id].shows

\* "serve the new file under its id": the server never sends entries of an
\* older file under the id of a newer one, whose numbers start again.
OldEntriesNotUnderNewId ==
  srv.thread = "answering" /\ srv.sock => ans.file >= ans.id

\* A dashboard that follows the protocol moves its watermark past no entry
\* the journal still has without getting it, through pages, pruning between
\* the two reads of a reply, and lost replies.
NoEntrySkipped ==
  [][\A i \in Ids : \A s \in (mark[i] + 1)..mark'[i] :
       s \in FirstPage(Rows(ans)) \/ s <= file[i].low]_mark

\* "seq increases forever": what a packet or a reply has shown of a journal
\* is never beyond its newest entry, until the power is lost (the journal's
\* last commits may be gone then).  If it were, the next entries would get
\* numbers that were used before, and no dashboard would ask for them.
SeqStandsWithPower ==
  ~lost =>
    /\ packet.id # 0 => packet.seq <= file[packet.id].last
    /\ \A i \in DOMAIN file : mark[i] <= file[i].last
=============================================================================
