--------------------------- MODULE HistoryProofs ---------------------------
(***************************************************************************)
(* Proofs about History, for all faults, page sizes and mishaps and any    *)
(* number of files, entries, starts and failures.                          *)
(*                                                                         *)
(* Each property is about two of: the loop, the journal, a file, the       *)
(* server's thread, a dashboard.  IInv says how they stand to one another: *)
(* the name leads to the newest file or to none (FilesInOrder); the        *)
(* journal tells the id of the file it writes and never a number beyond    *)
(* it, and while it is ok its key is what the newest entry shows           *)
(* (JournalInv); what the gate remembers is the last sample (GateInv); and *)
(* the thread answers from a file that is not older than the one it names, *)
(* where a newer one holds nothing a page could leave out (ServerInv).     *)
(***************************************************************************)
EXTENDS History, TLAPS, FiniteSetTheorems, WellFoundedInduction

FileRec == [named : BOOLEAN, last : Nat, low : Nat, shows : Signal \cup {NoSignal}]
States == {"ok", "failing", "disk_low"}

\* The path names the last file, or none, and then there is room for one more.
FilesInOrder ==
  /\ Len(file) <= MaxFiles
  /\ path = 0 => Len(file) < MaxFiles
  /\ path # 0 => path = Len(file)

\* The journal writes to the file whose id it tells, and knows of it what it
\* wrote: its newest number never runs ahead, and while the state is ok the
\* key is what the newest entry shows.
JournalInv ==
  /\ jnl.conn # 0 => jnl.id = jnl.conn
  /\ lpc = "down" => jnl = Closed
  /\ lpc # "down" /\ jnl.conn = 0 => jnl.state # "ok"
  /\ jnl.id # 0 => jnl.seq <= file[jnl.id].last
  /\ jnl.id # 0 => \A k \in (jnl.id + 1)..Len(file) : file[k].last = 0 /\ file[k].low = 0
  /\ jnl.state = "ok" /\ jnl.key # NoSignal =>
       jnl.conn # 0 /\ jnl.seq = file[jnl.conn].last /\ jnl.key = file[jnl.conn].shows

PacketInv ==
  /\ OkMeansKept
  /\ packet.id # 0 => packet.seq <= file[packet.id].last

\* What the gate remembers of the last sample and of the last packet.
GateInv ==
  /\ gate.sampled = sig.state /\ gate.fault = sig.fault
  /\ lpc = "down" => sig = NoSignal /\ packet = NoPacket
  /\ lpc \notin {"down", "sample"} => sig # NoSignal
  /\ packet.shows # NoSignal => sig # NoSignal
  /\ gate.idle => packet.shows.state = "IDLE"
  /\ lpc = "packet" /\ gate.idle => sig.state = "IDLE"
  /\ packet.shows # NoSignal /\ gate.idle =>
       \/ packet.shows = sig \/ gate.pending
       \/ lpc \in {"server", "joining"} /\ sig.state # "IDLE"

\* The thread answers from the file it opened, never older than the one the
\* server names as long as it has its socket; newer ones hold at most the one
\* entry the journal wrote before the loop comes to the server again.
ServerInv ==
  /\ srv.thread \in {"serving", "answering"} => srv.conn # 0
  /\ srv.sock => srv.thread # "off"
  /\ srv.thread \in {"serving", "answering"} /\ srv.sock => srv.conn >= srv.label
  /\ srv.thread = "answering" =>
       /\ ans.id # 0 /\ ans.file # 0 /\ (srv.sock => ans.file >= ans.id /\ ans.id = srv.label)
       /\ ans.from = mark[ans.id]
       /\ ~lost => ans.upper <= file[ans.id].last
  /\ srv.sock => \A k \in (srv.label + 1)..Len(file) :
       /\ file[k].low = 0
       /\ file[k].last # 0 => lpc # "packet" /\ jnl.id > srv.label
  /\ lpc = "down" => srv = NoServer
  /\ srv.label # 0 => jnl.id # 0
  /\ lpc = "joining" => jnl.id # srv.label

MarksInv ==
  /\ ~lost => \A i \in DOMAIN file : mark[i] <= file[i].last
  /\ \A i \in Ids : i > Len(file) => mark[i] = 0

IInv == TypeOK /\ FilesInOrder /\ JournalInv /\ PacketInv /\ GateInv /\ ServerInv /\ MarksInv

-----------------------------------------------------------------------------
\* The files as an operation on the journal leaves them

JnlRec(n) == [conn : 0..n, id : 0..n, seq : Nat, key : Signal \cup {NoSignal}, state : States]

\* A file as it was, or as it is made.
Was(k) == IF k <= Len(file) THEN file[k] ELSE NewFile
SameEntries(a, b) == a.last = b.last /\ a.low = b.low /\ a.shows = b.shows

\* A database with no entry more or less than now.
OnlyOpened(f, p) ==
  /\ f \in Seq(FileRec) /\ Len(file) <= Len(f) /\ Len(f) <= MaxFiles
  /\ p \in 0..Len(f)
  /\ p = 0 => Len(f) < MaxFiles
  /\ p # 0 => p = Len(f)
  /\ \A k \in 1..Len(f) : SameEntries(f[k], Was(k))

LEMMA NewFileTyped == NewFile \in FileRec
  BY DEF NewFile, FileRec

LEMMA FilesOpen ==
  ASSUME IInv
  PROVE  /\ OnlyOpened(Files, Opened)
         /\ Opened \in 1..Len(Files)
         /\ Opened = Len(Files)
         /\ (IF path = 0 THEN 0 ELSE file[path].last) = Files[Opened].last
<1>1. /\ file \in Seq(FileRec) /\ path \in 0..Len(file)
      /\ Len(file) \in Nat /\ Len(file) <= MaxFiles /\ MaxFiles \in Nat
      /\ path = 0 => Len(file) < MaxFiles
      /\ path # 0 => path = Len(file)
  <2>1. file \in Seq(FileRec) /\ path \in 0..Len(file)
    BY DEF IInv, TypeOK, FileRec
  <2> QED BY <2>1, SizesAssumption DEF IInv, FilesInOrder
<1>2. CASE path = 0
  <2>1. /\ Files = Append(file, NewFile) /\ Opened = Len(file) + 1
    BY <1>2 DEF Files, Opened
  <2>2. /\ Append(file, NewFile) \in Seq(FileRec)
        /\ Len(Append(file, NewFile)) = Len(file) + 1
        /\ Append(file, NewFile)[Len(file) + 1] = NewFile
        /\ \A k \in 1..Len(file) : Append(file, NewFile)[k] = file[k]
    BY <1>1, NewFileTyped
  <2>3. ASSUME NEW k \in 1..(Len(file) + 1) PROVE SameEntries(Files[k], Was(k))
    BY <1>1, <2>1, <2>2 DEF SameEntries, Was
  <2>4. NewFile.last = 0
    BY DEF NewFile
  <2> QED BY <1>1, <1>2, <2>1, <2>2, <2>3, <2>4 DEF OnlyOpened
<1>3. CASE path # 0
  <2>1. Files = file /\ Opened = path
    BY <1>3 DEF Files, Opened
  <2> QED BY <1>1, <1>3, <2>1 DEF OnlyOpened, SameEntries, Was
<1> QED BY <1>2, <1>3

LEMMA Connects ==
  ASSUME IInv, NEW j \in JnlRec(Len(file))
  PROVE  /\ OnlyOpened(Connected(j).file, Connected(j).path)
         /\ Connected(j).path # 0
         /\ Connected(j).path = Len(Connected(j).file)
         /\ Connected(j).jnl \in JnlRec(Len(Connected(j).file))
         /\ Connected(j).jnl.conn = Connected(j).path
         /\ Connected(j).jnl.id = Connected(j).path
         /\ Connected(j).jnl.seq = Connected(j).file[Connected(j).path].last
         /\ Connected(j).jnl.key = j.key
         /\ Connected(j).jnl.state = j.state
<1> DEFINE f == [Files EXCEPT ![Opened].named = TRUE]
           v == IF path = 0 THEN 0 ELSE file[path].last
           g == [j EXCEPT !.conn = Opened, !.id = Opened, !.seq = v]
<1>1. Connected(j).jnl = g /\ Connected(j).file = f /\ Connected(j).path = Opened
  BY DEF Connected
<1>2. /\ OnlyOpened(Files, Opened) /\ Opened \in 1..Len(Files) /\ Opened = Len(Files)
      /\ v = Files[Opened].last
  BY FilesOpen
<1>3. /\ Files \in Seq(FileRec) /\ Len(Files) \in Nat
  BY <1>2 DEF OnlyOpened
<1>4. Files[Opened] \in FileRec
  BY <1>2, <1>3
<1>5. [Files[Opened] EXCEPT !.named = TRUE] \in FileRec
  BY <1>4 DEF FileRec
<1>6. f \in Seq(FileRec) /\ Len(f) = Len(Files)
  BY <1>2, <1>3, <1>5
<1>7. \A k \in 1..Len(Files) : SameEntries(f[k], Files[k])
  BY <1>2, <1>3, <1>4 DEF SameEntries, FileRec
<1>8. v \in Nat /\ f[Opened].last = v
  BY <1>2, <1>4, <1>7 DEF FileRec, SameEntries
<1>9. /\ g \in JnlRec(Len(Files)) /\ g.conn = Opened /\ g.id = Opened /\ g.seq = v
      /\ g.key = j.key /\ g.state = j.state
  <2>1. Opened \in 0..Len(Files)
    BY <1>2, <1>3
  <2>2. g \in [conn : 0..Len(Files), id : 0..Len(Files), seq : Nat,
               key : Signal \cup {NoSignal}, state : States]
    BY <1>8, <2>1 DEF JnlRec
  <2> QED BY <2>2 DEF JnlRec
<1>10. OnlyOpened(f, Opened)
  BY <1>2, <1>3, <1>6, <1>7 DEF OnlyOpened, SameEntries
<1> QED BY <1>1, <1>2, <1>6, <1>8, <1>9, <1>10
\* The journal's file may have got the sample as its next entry, and may have
\* been pruned up to it.
WrittenBy(f, p, j) ==
  /\ f \in Seq(FileRec) /\ Len(file) <= Len(f) /\ Len(f) <= MaxFiles
  /\ p \in 0..Len(f)
  /\ p = 0 => Len(f) < MaxFiles
  /\ p # 0 => p = Len(f)
  /\ \A k \in 1..Len(f) :
       \/ SameEntries(f[k], Was(k))
       \/ /\ k = j.conn /\ f[k].last = Was(k).last + 1
          /\ f[k].low \in Was(k).low..Was(k).last /\ f[k].shows = sig

\* JournalInv of a running agent.
Knows(j, f) ==
  /\ j \in JnlRec(Len(f))
  /\ j.conn # 0 => j.id = j.conn
  /\ j.conn = 0 => j.state # "ok"
  /\ j.id # 0 => j.seq <= f[j.id].last
  /\ j.id # 0 => \A k \in (j.id + 1)..Len(f) : f[k].last = 0 /\ f[k].low = 0
  /\ j.state = "ok" /\ j.key # NoSignal =>
       j.conn # 0 /\ j.seq = f[j.conn].last /\ j.key = f[j.conn].shows

LEMMA KnowsNow ==
  ASSUME IInv, lpc # "down"
  PROVE  Knows(jnl, file) /\ OnlyOpened(file, path) /\ Len(file) \in Nat
<1>1. /\ file \in Seq(FileRec) /\ path \in 0..Len(file) /\ jnl \in JnlRec(Len(file))
  BY DEF IInv, TypeOK, FileRec, JnlRec, States
<1>2. /\ Len(file) <= MaxFiles /\ (path = 0 => Len(file) < MaxFiles)
      /\ (path # 0 => path = Len(file))
  BY DEF IInv, FilesInOrder
<1>3. Knows(jnl, file)
  BY <1>1 DEF IInv, JournalInv, Knows
<1>4. Len(file) \in Nat
  BY <1>1
<1> QED BY <1>1, <1>2, <1>3, <1>4 DEF OnlyOpened, SameEntries, Was

LEMMA CheckedIs ==
  ASSUME IInv, lpc # "down", NEW free \in Free
  PROVE  /\ Checked(free) \in JnlRec(Len(file))
         /\ Checked(free).conn = jnl.conn /\ Checked(free).id = jnl.id
         /\ Checked(free).seq = jnl.seq /\ Checked(free).key = jnl.key
         /\ Checked(free).state = AfterCheck(free)
         /\ jnl.conn = 0 => AfterCheck(free) # "ok"
         /\ AfterCheck(free) # "disk_low" /\ jnl.state # "disk_low" =>
              AfterCheck(free) = jnl.state
<1>1. jnl \in JnlRec(Len(file)) /\ (jnl.conn = 0 => jnl.state # "ok")
  BY KnowsNow DEF Knows
<1>2. jnl.state \in States
  BY <1>1 DEF JnlRec
<1>3. AfterCheck(free) \in States
  BY <1>2 DEF AfterCheck, States
<1>4. Checked(free) = [jnl EXCEPT !.state = AfterCheck(free)]
  BY DEF Checked
<1>5. /\ Checked(free) \in JnlRec(Len(file))
      /\ Checked(free).conn = jnl.conn /\ Checked(free).id = jnl.id
      /\ Checked(free).seq = jnl.seq /\ Checked(free).key = jnl.key
      /\ Checked(free).state = AfterCheck(free)
  BY <1>1, <1>3, <1>4 DEF JnlRec
<1>6. jnl.conn = 0 => AfterCheck(free) # "ok"
  BY <1>1, <1>2 DEF AfterCheck, States
<1>7. AfterCheck(free) # "disk_low" /\ jnl.state # "disk_low" => AfterCheck(free) = jnl.state
  BY <1>2 DEF AfterCheck, States
<1> QED BY <1>5, <1>6, <1>7

\* A failed journal keeps its id and its number, and does not call itself ok.
LEMMA FailingKnows ==
  ASSUME NEW n \in Nat, NEW f, Len(f) = n, NEW j \in JnlRec(n),
         j.id # 0 => j.seq <= f[j.id].last,
         j.id # 0 => \A k \in (j.id + 1)..Len(f) : f[k].last = 0 /\ f[k].low = 0
  PROVE  Knows(Failing(j), f) /\ Failing(j).state # "ok" /\ Failing(j).id = j.id
<1>1. Failing(j) = [j EXCEPT !.conn = 0, !.state = "failing"]
  BY DEF Failing
<1>2. /\ Failing(j) \in JnlRec(n)
      /\ Failing(j).conn = 0 /\ Failing(j).state = "failing"
      /\ Failing(j).id = j.id /\ Failing(j).seq = j.seq
  <2>1. 0 \in 0..n /\ "failing" \in States
    BY DEF States
  <2>2. j \in [conn : 0..n, id : 0..n, seq : Nat, key : Signal \cup {NoSignal}, state : States]
    BY DEF JnlRec
  <2>3. Failing(j) \in [conn : 0..n, id : 0..n, seq : Nat,
                        key : Signal \cup {NoSignal}, state : States]
    BY <1>1, <2>1, <2>2
  <2> QED BY <1>1, <2>2, <2>3 DEF JnlRec
<1> QED BY <1>2 DEF Knows

\* The connection an operation uses, old or new.
LEMMA ReadyIs ==
  ASSUME IInv, lpc # "down", NEW free \in Free
  PROVE  /\ OnlyOpened(Ready(free).file, Ready(free).path)
         /\ Ready(free).jnl \in JnlRec(Len(Ready(free).file))
         /\ Ready(free).jnl.conn # 0 /\ Ready(free).jnl.id = Ready(free).jnl.conn
         /\ Ready(free).jnl.seq <= Ready(free).file[Ready(free).jnl.id].last
         /\ \A k \in (Ready(free).jnl.id + 1)..Len(Ready(free).file) :
              Ready(free).file[k].last = 0 /\ Ready(free).file[k].low = 0
         /\ Ready(free).jnl.key = jnl.key
         /\ Ready(free).jnl.state = AfterCheck(free)
         /\ jnl.conn # 0 => Ready(free).file = file /\ Ready(free).jnl = Checked(free)
<1>1. /\ Knows(jnl, file) /\ OnlyOpened(file, path) /\ Len(file) \in Nat
  BY KnowsNow
<1>2. /\ Checked(free) \in JnlRec(Len(file))
      /\ Checked(free).conn = jnl.conn /\ Checked(free).id = jnl.id
      /\ Checked(free).seq = jnl.seq /\ Checked(free).key = jnl.key
      /\ Checked(free).state = AfterCheck(free)
  BY CheckedIs
<1>3. CASE jnl.conn # 0
  <2>1. Ready(free).jnl = Checked(free) /\ Ready(free).file = file /\ Ready(free).path = path
    BY <1>3 DEF Ready
  <2> QED BY <1>1, <1>2, <1>3, <2>1 DEF Knows
<1>4. CASE jnl.conn = 0
  <2> DEFINE c == Connected(Checked(free))
  <2>1. Ready(free) = c
    BY <1>4 DEF Ready
  <2>2. /\ OnlyOpened(c.file, c.path)
        /\ c.path # 0 /\ c.path = Len(c.file)
        /\ c.jnl \in JnlRec(Len(c.file))
        /\ c.jnl.conn = c.path /\ c.jnl.id = c.path
        /\ c.jnl.seq = c.file[c.path].last
        /\ c.jnl.key = Checked(free).key
        /\ c.jnl.state = Checked(free).state
    BY <1>2, Connects
  <2>3. c.jnl.seq \in Nat
    BY <2>2 DEF JnlRec
  <2>4. Len(c.file) \in Nat
    BY <2>2 DEF OnlyOpened
  <2> HIDE DEF c
  <2>5. (c.jnl.id + 1)..Len(c.file) = {}
    BY <2>2, <2>4
  <2> QED BY <1>2, <1>4, <2>1, <2>2, <2>3, <2>5
<1> QED BY <1>3, <1>4
LEMMA OnlyOpenedIsWritten ==
  ASSUME NEW f, NEW p, NEW j, OnlyOpened(f, p)
  PROVE  WrittenBy(f, p, j)
  BY DEF OnlyOpened, WrittenBy

\* record, whatever becomes of it: at most the journal's own file changes,
\* and a state of ok is said of the entry just written, or of one like it.
LEMMA Records ==
  ASSUME IInv, lpc = "packet", NEW free \in Free, Record(free)
  PROVE  /\ WrittenBy(file', path', jnl')
         /\ Knows(jnl', file')
         /\ jnl'.state = "ok" => jnl'.key = sig
         /\ jnl.id # 0 => jnl'.id # 0
<1> DEFINE c == Checked(free)
           r == Ready(free)
<1>1. /\ Knows(jnl, file) /\ OnlyOpened(file, path) /\ Len(file) \in Nat
  BY KnowsNow
<1>2. /\ c \in JnlRec(Len(file))
      /\ c.conn = jnl.conn /\ c.id = jnl.id /\ c.seq = jnl.seq /\ c.key = jnl.key
      /\ c.state = AfterCheck(free)
      /\ jnl.conn = 0 => AfterCheck(free) # "ok"
      /\ AfterCheck(free) # "disk_low" /\ jnl.state # "disk_low" =>
           AfterCheck(free) = jnl.state
  BY CheckedIs
<1>3. /\ OnlyOpened(r.file, r.path)
      /\ r.jnl \in JnlRec(Len(r.file))
      /\ r.jnl.conn # 0 /\ r.jnl.id = r.jnl.conn
      /\ r.jnl.seq <= r.file[r.jnl.id].last
      /\ \A k \in (r.jnl.id + 1)..Len(r.file) : r.file[k].last = 0 /\ r.file[k].low = 0
      /\ r.jnl.key = jnl.key
      /\ r.jnl.state = AfterCheck(free)
      /\ jnl.conn # 0 => r.file = file /\ r.jnl = c
  BY ReadyIs
<1>4. /\ r.file \in Seq(FileRec) /\ Len(r.file) \in Nat
  BY <1>3 DEF OnlyOpened
<1> HIDE DEF c, r
<1>5. CASE DiskLow(free)
  <2>1. jnl' = c /\ file' = file /\ path' = path /\ c.state = "disk_low"
    BY <1>5 DEF DiskLow, disk, c
  <2>2. Knows(c, file)
    BY <1>1, <1>2, <2>1 DEF Knows
  <2> QED BY <1>1, <1>2, <2>1, <2>2, OnlyOpenedIsWritten
<1>6. CASE StaysClosed(free)
  <2>1. /\ jnl' = c \/ jnl' = Failing(c)
        /\ file' = file /\ path' = path /\ jnl.conn = 0
    BY <1>6 DEF StaysClosed, disk, c
  <2>2. Knows(Failing(c), file) /\ Failing(c).state # "ok" /\ Failing(c).id = c.id
    BY <1>1, <1>2, FailingKnows DEF Knows
  <2>3. Knows(c, file) /\ c.state # "ok"
    BY <1>1, <1>2, <2>1 DEF Knows
  <2> QED BY <1>1, <1>2, <2>1, <2>2, <2>3, OnlyOpenedIsWritten
<1>7. CASE NotDue(free)
  <2>1. /\ jnl' = r.jnl /\ file' = r.file /\ path' = r.path
        /\ AfterCheck(free) # "disk_low" /\ jnl.state # "disk_low"
        /\ sig = jnl.key
    BY <1>2, <1>7 DEF NotDue, r, c
  <2>2. sig # NoSignal
    BY DEF IInv, GateInv
  <2>3. ASSUME r.jnl.state = "ok"
        PROVE  /\ r.jnl.seq = r.file[r.jnl.conn].last
               /\ r.jnl.key = r.file[r.jnl.conn].shows
    <3>1. jnl.state = "ok" /\ jnl.key # NoSignal
      BY <1>2, <1>3, <2>1, <2>2, <2>3
    <3>2. jnl.conn # 0 /\ jnl.seq = file[jnl.conn].last /\ jnl.key = file[jnl.conn].shows
      BY <1>1, <3>1 DEF Knows
    <3> QED BY <1>2, <1>3, <3>2
  <2>4. Knows(r.jnl, r.file)
    BY <1>3, <2>3 DEF Knows
  <2> QED BY <1>3, <2>1, <2>4, OnlyOpenedIsWritten
<1>8. CASE Writes(free)
  <2> DEFINE k == r.jnl.conn
             n == r.file[k].last + 1
  <2>1. PICK low \in r.file[k].low..(n - 1) :
          file' = [r.file EXCEPT ![k].last = n, ![k].low = low, ![k].shows = sig]
    BY <1>8 DEF Writes, r
  <2>2. path' = r.path /\ jnl' = [r.jnl EXCEPT !.seq = n, !.key = sig, !.state = "ok"]
    BY <1>8 DEF Writes, r
  <2>3. k \in 1..Len(r.file)
    BY <1>3, <1>4 DEF JnlRec
  <2>4. r.file[k] \in FileRec
    BY <1>4, <2>3
  <2>5. n \in Nat /\ low \in Nat /\ low \in r.file[k].low..r.file[k].last
    BY <2>4 DEF FileRec
  <2>6. sig \in Signal \cup {NoSignal}
    BY DEF IInv, TypeOK
  <2> DEFINE e == [r.file[k] EXCEPT !.last = n, !.low = low, !.shows = sig]
  <2>7. /\ e \in FileRec /\ e.last = n /\ e.low = low /\ e.shows = sig
    BY <2>4, <2>5, <2>6 DEF FileRec
  <2>8. file' = [r.file EXCEPT ![k] = e]
    BY <1>4, <2>1, <2>3, <2>4 DEF FileRec
  <2> HIDE DEF e
  <2>9. /\ file' \in Seq(FileRec) /\ Len(file') = Len(r.file)
        /\ file'[k] = e
        /\ \A i \in 1..Len(r.file) : i # k => file'[i] = r.file[i]
    BY <1>4, <2>3, <2>7, <2>8
  <2>10. /\ jnl' \in JnlRec(Len(r.file))
         /\ jnl'.conn = k /\ jnl'.id = k /\ jnl'.seq = n /\ jnl'.key = sig /\ jnl'.state = "ok"
    BY <1>3, <2>2, <2>5, <2>6 DEF JnlRec, States
  <2>11. SameEntries(r.file[k], Was(k))
    BY <1>3, <2>3 DEF OnlyOpened
  <2>12. \A i \in 1..Len(r.file) : i # k => SameEntries(file'[i], Was(i))
    BY <1>3, <2>9 DEF OnlyOpened
  <2>13. /\ file'[k].last = Was(k).last + 1
         /\ file'[k].low \in Was(k).low..Was(k).last /\ file'[k].shows = sig
    BY <2>5, <2>7, <2>9, <2>11 DEF SameEntries
  <2>14. WrittenBy(file', path', jnl')
    BY <1>3, <2>2, <2>9, <2>10, <2>12, <2>13 DEF WrittenBy, OnlyOpened
  <2>15. \A i \in (k + 1)..Len(r.file) : file'[i].last = 0 /\ file'[i].low = 0
    BY <1>3, <1>4, <2>3, <2>9
  <2>16. Knows(jnl', file')
    BY <1>3, <2>5, <2>7, <2>9, <2>10, <2>15 DEF Knows
  <2> QED BY <1>3, <2>10, <2>14, <2>16
<1>9. CASE WriteFails(free)
  <2>1. jnl' = Failing(r.jnl) /\ file' = r.file /\ path' = r.path
    BY <1>9 DEF WriteFails, r
  <2>2. /\ Knows(Failing(r.jnl), r.file) /\ Failing(r.jnl).state # "ok"
        /\ Failing(r.jnl).id = r.jnl.id
    BY <1>3, <1>4, FailingKnows
  <2> QED BY <1>3, <2>1, <2>2, OnlyOpenedIsWritten
<1> QED BY <1>5, <1>6, <1>7, <1>8, <1>9 DEF Record
-----------------------------------------------------------------------------
\* The invariant, action by action

GateRec == [sampled : State \cup {""}, prev : State \cup {""}, idle : BOOLEAN,
            fault : Fault \cup {NoFault}, pending : BOOLEAN]
PacketRec(n) == [shows : Signal \cup {NoSignal}, id : 0..n, seq : Nat,
                 state : {"", "ok", "failing", "disk_low"}]
SrvRec(n) == [thread : {"off", "starting", "serving", "answering"}, conn : 0..n,
              label : 0..n, sock : BOOLEAN, stop : BOOLEAN]
AnsRec(n) == [id : 0..n, file : 0..n, from : Nat, upper : Nat, first : Nat]

\* TypeOK, a part for each group of variables.
DiskTyped == file \in Seq(FileRec) /\ path \in 0..Len(file) /\ jnl \in JnlRec(Len(file))
LoopTyped ==
  /\ gate \in GateRec /\ lpc \in {"down", "sample", "server", "joining", "packet"}
  /\ sig \in Signal \cup {NoSignal} /\ packet \in PacketRec(Len(file))
ServerTyped == srv \in SrvRec(Len(file)) /\ ans \in AnsRec(Len(file))
RestTyped ==
  /\ mark \in [Ids -> Nat] /\ lost \in BOOLEAN /\ starts \in Nat /\ fails \in Nat

LEMMA TypeParts == TypeOK <=> DiskTyped /\ LoopTyped /\ ServerTyped /\ RestTyped
  BY DEF TypeOK, DiskTyped, LoopTyped, ServerTyped, RestTyped, FileRec, JnlRec, GateRec,
         PacketRec, SrvRec, AnsRec, States

LEMMA EmptiesTyped ==
  ASSUME NEW n \in Nat
  PROVE  /\ NoPacket \in PacketRec(n) /\ NoServer \in SrvRec(n) /\ NoAnswer \in AnsRec(n)
         /\ Closed \in JnlRec(n) /\ NewGate \in GateRec
<1>1. 0 \in 0..n /\ NoSignal \in Signal \cup {NoSignal}
  OBVIOUS
<1>2. NoPacket \in PacketRec(n)
  BY <1>1 DEF NoPacket, PacketRec
<1>3. NoServer \in SrvRec(n) /\ NoAnswer \in AnsRec(n)
  BY <1>1 DEF NoServer, SrvRec, NoAnswer, AnsRec
<1>4. Closed \in JnlRec(n) /\ NewGate \in GateRec
  BY <1>1 DEF Closed, JnlRec, States, NewGate, GateRec
<1> QED BY <1>2, <1>3, <1>4

THEOREM InitInv == Init => IInv
<1> SUFFICES ASSUME Init PROVE IInv
  OBVIOUS
<1> USE DEF Init
<1>1. file \in Seq(FileRec) /\ Len(file) = 0
  OBVIOUS
<1>2. DiskTyped
  BY <1>1, EmptiesTyped DEF DiskTyped
<1>3. LoopTyped
  BY <1>1, EmptiesTyped DEF LoopTyped
<1>4. ServerTyped
  BY <1>1, EmptiesTyped DEF ServerTyped
<1>5. RestTyped
  BY DEF RestTyped
<1>6. FilesInOrder
  BY <1>1, SizesAssumption DEF FilesInOrder
<1>7. JournalInv
  BY DEF JournalInv, Closed, NoSignal
<1>8. PacketInv
  BY DEF PacketInv, OkMeansKept, NoPacket
<1>9. GateInv
  BY DEF GateInv, NewGate, NoSignal, NoPacket
<1>10. ServerInv
  BY DEF ServerInv, NoServer
<1>11. MarksInv
  BY <1>1 DEF MarksInv
<1> QED BY <1>2, <1>3, <1>4, <1>5, <1>6, <1>7, <1>8, <1>9, <1>10, <1>11, TypeParts DEF IInv

\* A sample that differs from the last packet makes the loop look: the cycle
\* state at once, the fault picture through pending.
LEMMA SampleKeeps ==
  ASSUME IInv, NEW s \in Signal, NEW poll \in BOOLEAN, Sample(s, poll)
  PROVE  IInv'
<1> USE DEF Sample, disk, server
<1>1. DiskTyped /\ LoopTyped /\ ServerTyped /\ RestTyped
  BY TypeParts DEF IInv
<1>2. DiskTyped' /\ ServerTyped' /\ RestTyped'
  BY <1>1 DEF DiskTyped, ServerTyped, RestTyped
<1>3. s.state \in State /\ s.fault \in Fault /\ s = [state |-> s.state, fault |-> s.fault]
  BY DEF Signal
<1>4. /\ gate' \in GateRec
      /\ gate'.sampled = s.state /\ gate'.fault = s.fault /\ gate'.idle = gate.idle
      /\ gate'.pending = (gate.pending \/ gate.fault \notin {s.fault, NoFault})
  BY <1>1, <1>3 DEF Tick, GateRec, LoopTyped
<1>5. LoopTyped'
  BY <1>1, <1>4 DEF LoopTyped
<1>6. s # NoSignal
  <2>1. NoSignal.fault = NoFault
    BY DEF NoSignal
  <2> QED BY <1>3, <2>1, FaultAssumption
<1>7. ASSUME packet.shows # NoSignal, gate.idle
      PROVE  \/ packet.shows = s \/ gate'.pending
             \/ lpc' \in {"server", "joining"} /\ s.state # "IDLE"
  <2>1. packet.shows = sig \/ gate.pending
    BY <1>7 DEF IInv, GateInv
  <2>2. CASE gate.pending
    BY <1>4, <2>2
  <2>3. CASE packet.shows = sig
    <3>1. sig.state = "IDLE" /\ sig \in Signal /\ gate.fault = sig.fault /\ gate.sampled = sig.state
      BY <1>1, <1>7, <2>3 DEF IInv, GateInv, LoopTyped
    <3>2. sig = [state |-> sig.state, fault |-> sig.fault] /\ sig.fault \in Fault
      BY <3>1 DEF Signal
    <3>3. CASE s.state # "IDLE"
      BY <3>1, <3>3
    <3>4. CASE s.state = "IDLE" /\ s.fault = sig.fault
      BY <1>3, <2>3, <3>1, <3>2, <3>4
    <3>5. CASE s.fault # sig.fault
      BY <1>4, <3>1, <3>2, <3>5, FaultAssumption
    <3> QED BY <3>3, <3>4, <3>5
  <2> QED BY <2>1, <2>2, <2>3
<1>8. GateInv'
  BY <1>4, <1>6, <1>7 DEF IInv, GateInv
<1>9. FilesInOrder' /\ PacketInv' /\ MarksInv'
  BY DEF IInv, FilesInOrder, PacketInv, OkMeansKept, MarksInv
<1>10. JournalInv'
  BY DEF IInv, JournalInv
<1>11. ServerInv'
  BY DEF IInv, ServerInv
<1>12. TypeOK'
  BY <1>2, <1>5 DEF TypeOK, DiskTyped, LoopTyped, ServerTyped, RestTyped, FileRec, JnlRec,
                    GateRec, PacketRec, SrvRec, AnsRec, States
<1> QED BY <1>8, <1>9, <1>10, <1>11, <1>12 DEF IInv
\* should_send: what it holds back, the dashboard has been told.
LEMMA DecidesKeeps ==
  ASSUME IInv, lpc \in {"server", "joining"}, NEW beat \in BOOLEAN, Decides(beat),
         UNCHANGED <<sig, packet>>
  PROVE  gate' \in GateRec /\ lpc' \in {"sample", "packet"} /\ GateInv'
<1>1. LoopTyped /\ sig # NoSignal
  BY TypeParts DEF IInv, GateInv
<1>2. sig.state \in State
  BY <1>1 DEF LoopTyped, Signal
<1>3. /\ gate' \in GateRec
      /\ gate'.sampled = gate.sampled /\ gate'.fault = gate.fault
      /\ gate'.pending = gate.pending
      /\ gate'.idle => gate.idle /\ sig.state = "IDLE"
  BY <1>1, <1>2 DEF Decides, GateRec, LoopTyped
<1>4. lpc' \in {"sample", "packet"}
  BY DEF Decides
<1>5. GateInv'
  BY <1>1, <1>3, <1>4 DEF IInv, GateInv
<1> QED BY <1>3, <1>4, <1>5

LEMMA StartedIs ==
  ASSUME NEW n \in Nat, NEW v \in SrvRec(n), NEW w \in Started(v)
  PROVE  /\ w \in SrvRec(n) /\ w.label = v.label
         /\ \/ w = v /\ v.thread # "off"
            \/ w.thread \in {"off", "starting"} /\ (w.sock => w.thread = "starting")
<1>1. CASE v.thread # "off"
  BY <1>1 DEF Started
<1>2. CASE v.thread = "off"
  <2>1. \/ w = [v EXCEPT !.sock = FALSE, !.stop = FALSE]
        \/ w = [v EXCEPT !.sock = TRUE, !.stop = FALSE, !.thread = "starting", !.conn = 0]
    BY <1>2 DEF Started
  <2>2. 0 \in 0..n
    OBVIOUS
  <2>3. v \in [thread : {"off", "starting", "serving", "answering"}, conn : 0..n,
               label : 0..n, sock : BOOLEAN, stop : BOOLEAN]
    BY DEF SrvRec
  <2>4. CASE w = [v EXCEPT !.sock = FALSE, !.stop = FALSE]
    BY <1>2, <2>3, <2>4 DEF SrvRec
  <2>5. CASE w = [v EXCEPT !.sock = TRUE, !.stop = FALSE, !.thread = "starting", !.conn = 0]
    BY <2>2, <2>3, <2>5 DEF SrvRec
  <2> QED BY <2>1, <2>4, <2>5
<1> QED BY <1>1, <1>2

LEMMA ServerKeptKeeps ==
  ASSUME IInv, NEW beat \in BOOLEAN, ServerKept(beat)
  PROVE  IInv'
<1> USE DEF disk
<1>1. DiskTyped /\ LoopTyped /\ ServerTyped /\ RestTyped
  BY TypeParts DEF IInv
<1>2. /\ lpc = "server" /\ jnl.id = srv.label /\ Decides(beat)
      /\ UNCHANGED <<file, path, jnl, sig, packet, ans, mark, lost, starts, fails>>
  BY DEF ServerKept
<1>3. /\ gate' \in GateRec /\ lpc' \in {"sample", "packet"} /\ GateInv'
  BY <1>2, DecidesKeeps
<1>4. Len(file) \in Nat
  BY <1>1 DEF DiskTyped
<1>5. /\ srv' \in SrvRec(Len(file)) /\ srv'.label = srv.label
      /\ \/ srv' = srv
         \/ /\ jnl.id # 0 /\ srv'.thread \in {"off", "starting"}
            /\ srv'.sock => srv'.thread = "starting"
  <2>1. CASE srv' = srv
    BY <1>1, <2>1 DEF ServerTyped
  <2>2. CASE jnl.id # 0 /\ srv.thread = "off" /\ srv' \in Started(srv)
    BY <1>1, <1>4, <2>2, StartedIs DEF ServerTyped
  <2> QED BY <2>1, <2>2 DEF ServerKept
<1>6. DiskTyped' /\ RestTyped' /\ LoopTyped' /\ ServerTyped'
  BY <1>1, <1>2, <1>3, <1>5 DEF DiskTyped, RestTyped, LoopTyped, ServerTyped
<1>7. FilesInOrder' /\ PacketInv' /\ MarksInv'
  BY <1>2 DEF IInv, FilesInOrder, PacketInv, OkMeansKept, MarksInv
<1>8. JournalInv'
  BY <1>2, <1>3 DEF IInv, JournalInv
<1>9. ASSUME srv'.sock, NEW k \in (srv.label + 1)..Len(file)
      PROVE  file[k].low = 0 /\ file[k].last = 0
  <2>1. CASE srv' = srv
    <3>1. srv.label \in Nat
      BY <1>1, <1>4 DEF ServerTyped, SrvRec
    <3> QED BY <1>2, <1>9, <2>1, <3>1 DEF IInv, ServerInv
  <2>2. CASE jnl.id # 0
    BY <1>2, <1>9, <2>2 DEF IInv, JournalInv
  <2> QED BY <1>5, <2>1, <2>2
<1>10. ServerInv'
  BY <1>2, <1>3, <1>5, <1>9 DEF IInv, ServerInv
<1>11. TypeOK'
  BY <1>6 DEF TypeOK, DiskTyped, LoopTyped, ServerTyped, RestTyped, FileRec, JnlRec,
              GateRec, PacketRec, SrvRec, AnsRec, States
<1> QED BY <1>3, <1>7, <1>8, <1>10, <1>11 DEF IInv

LEMMA ServerStoppedKeeps ==
  ASSUME IInv, ServerStopped
  PROVE  IInv'
<1> USE DEF disk
<1>1. DiskTyped /\ LoopTyped /\ ServerTyped /\ RestTyped
  BY TypeParts DEF IInv
<1>2. /\ lpc = "server" /\ jnl.id # srv.label /\ lpc' = "joining"
      /\ UNCHANGED <<file, path, jnl, gate, sig, packet, ans, mark, lost, starts, fails>>
  BY DEF ServerStopped
<1>3. /\ srv' \in SrvRec(Len(file))
      /\ srv'.thread = srv.thread /\ srv'.conn = srv.conn /\ srv'.label = srv.label
      /\ srv'.sock = srv.sock
  BY <1>1 DEF ServerStopped, ServerTyped, SrvRec
<1>4. DiskTyped' /\ RestTyped' /\ LoopTyped' /\ ServerTyped'
  BY <1>1, <1>2, <1>3 DEF DiskTyped, RestTyped, LoopTyped, ServerTyped
<1>5. FilesInOrder' /\ PacketInv' /\ MarksInv' /\ GateInv'
  BY <1>2 DEF IInv, FilesInOrder, PacketInv, OkMeansKept, MarksInv, GateInv
<1>6. JournalInv'
  BY <1>2 DEF IInv, JournalInv
<1>7. ServerInv'
  BY <1>2, <1>3 DEF IInv, ServerInv
<1>8. TypeOK'
  BY <1>4 DEF TypeOK, DiskTyped, LoopTyped, ServerTyped, RestTyped, FileRec, JnlRec,
              GateRec, PacketRec, SrvRec, AnsRec, States
<1> QED BY <1>5, <1>6, <1>7, <1>8 DEF IInv

LEMMA ServerRestartsKeeps ==
  ASSUME IInv, NEW beat \in BOOLEAN, ServerRestarts(beat)
  PROVE  IInv'
<1> USE DEF disk
<1>1. DiskTyped /\ LoopTyped /\ ServerTyped /\ RestTyped
  BY TypeParts DEF IInv
<1>2. /\ lpc = "joining" /\ Decides(beat) /\ srv' \in Started(Relabelled)
      /\ UNCHANGED <<file, path, jnl, sig, packet, ans, mark, lost, starts, fails>>
  BY DEF ServerRestarts
<1>3. /\ gate' \in GateRec /\ lpc' \in {"sample", "packet"} /\ GateInv'
  BY <1>2, DecidesKeeps
<1>4. jnl.id \in 1..Len(file) /\ Len(file) \in Nat
  BY <1>1, <1>2 DEF DiskTyped, JnlRec, IInv, ServerInv
<1>5. /\ Relabelled \in SrvRec(Len(file))
      /\ Relabelled.label = jnl.id /\ Relabelled.sock = FALSE
      /\ Relabelled.thread = srv.thread /\ Relabelled.conn = srv.conn
  <2>1. srv \in [thread : {"off", "starting", "serving", "answering"}, conn : 0..Len(file),
                 label : 0..Len(file), sock : BOOLEAN, stop : BOOLEAN]
    BY <1>1 DEF ServerTyped, SrvRec
  <2>2. jnl.id \in 0..Len(file)
    BY <1>4
  <2> QED BY <2>1, <2>2 DEF Relabelled, SrvRec
<1>6. /\ srv' \in SrvRec(Len(file)) /\ srv'.label = jnl.id
      /\ \/ srv' = Relabelled /\ Relabelled.thread # "off"
         \/ /\ srv'.thread \in {"off", "starting"}
            /\ srv'.sock => srv'.thread = "starting"
  BY <1>2, <1>4, <1>5, StartedIs
<1>7. DiskTyped' /\ RestTyped' /\ LoopTyped' /\ ServerTyped'
  BY <1>1, <1>2, <1>3, <1>6 DEF DiskTyped, RestTyped, LoopTyped, ServerTyped
<1>8. FilesInOrder' /\ PacketInv' /\ MarksInv'
  BY <1>2 DEF IInv, FilesInOrder, PacketInv, OkMeansKept, MarksInv
<1>9. JournalInv'
  BY <1>2, <1>3 DEF IInv, JournalInv
<1>10. \A k \in (jnl.id + 1)..Len(file) : file[k].low = 0 /\ file[k].last = 0
  BY <1>4 DEF IInv, JournalInv
<1>11. ServerInv'
  BY <1>2, <1>3, <1>4, <1>5, <1>6, <1>10 DEF IInv, ServerInv
<1>12. TypeOK'
  BY <1>7 DEF TypeOK, DiskTyped, LoopTyped, ServerTyped, RestTyped, FileRec, JnlRec,
              GateRec, PacketRec, SrvRec, AnsRec, States
<1> QED BY <1>3, <1>8, <1>9, <1>11, <1>12 DEF IInv

LEMMA PacketFailsKeeps ==
  ASSUME IInv, PacketFails
  PROVE  IInv'
<1> USE DEF PacketFails, disk, server
<1>1. DiskTyped /\ LoopTyped /\ ServerTyped /\ RestTyped
  BY TypeParts DEF IInv
<1>2. DiskTyped' /\ RestTyped' /\ LoopTyped' /\ ServerTyped'
  BY <1>1 DEF DiskTyped, RestTyped, LoopTyped, ServerTyped
<1>3. FilesInOrder' /\ PacketInv' /\ MarksInv' /\ GateInv'
  BY DEF IInv, FilesInOrder, PacketInv, OkMeansKept, MarksInv, GateInv
<1>4. JournalInv'
  BY DEF IInv, JournalInv
<1>5. ServerInv'
  BY DEF IInv, ServerInv
<1>6. TypeOK'
  BY <1>2 DEF TypeOK, DiskTyped, LoopTyped, ServerTyped, RestTyped, FileRec, JnlRec,
              GateRec, PacketRec, SrvRec, AnsRec, States
<1> QED BY <1>3, <1>4, <1>5, <1>6 DEF IInv
-----------------------------------------------------------------------------
\* The steps that make, write or delete a file

LEMMA Widens ==
  ASSUME NEW n \in Nat, NEW m \in Nat, n <= m
  PROVE  /\ PacketRec(n) \subseteq PacketRec(m) /\ SrvRec(n) \subseteq SrvRec(m)
         /\ AnsRec(n) \subseteq AnsRec(m) /\ JnlRec(n) \subseteq JnlRec(m)
<1>1. 0..n \subseteq 0..m
  OBVIOUS
<1>2. PacketRec(n) \subseteq PacketRec(m)
  BY <1>1 DEF PacketRec
<1>3. SrvRec(n) \subseteq SrvRec(m)
  BY <1>1 DEF SrvRec
<1>4. AnsRec(n) \subseteq AnsRec(m)
  BY <1>1 DEF AnsRec
<1>5. JnlRec(n) \subseteq JnlRec(m)
  BY <1>1 DEF JnlRec
<1> QED BY <1>2, <1>3, <1>4, <1>5

\* No entry of a file goes away at its newer end, and a new file has none
\* that is not the journal's.
LEMMA NewestStay ==
  ASSUME IInv, NEW f, NEW p, NEW j, WrittenBy(f, p, j)
  PROVE  /\ Len(file) \in Nat /\ Len(f) \in Nat /\ Len(file) <= Len(f) /\ Len(f) <= MaxFiles
         /\ \A k \in 1..Len(f) : f[k] \in FileRec
         /\ \A k \in 1..Len(file) : /\ file[k].last \in Nat /\ file[k].low \in Nat
                                    /\ file[k].last <= f[k].last
         /\ \A k \in 1..Len(f) : k # j.conn => SameEntries(f[k], Was(k))
<1>1. /\ file \in Seq(FileRec) /\ f \in Seq(FileRec) /\ Len(file) <= Len(f) /\ Len(f) <= MaxFiles
  BY TypeParts DEF IInv, DiskTyped, WrittenBy
<1>2. ASSUME NEW k \in 1..Len(file)
      PROVE  file[k].last \in Nat /\ file[k].low \in Nat /\ file[k].last <= f[k].last
  <2>1. Was(k) = file[k] /\ file[k] \in FileRec /\ k \in 1..Len(f)
    BY <1>1 DEF Was
  <2>2. file[k].last \in Nat /\ file[k].low \in Nat
    BY <2>1 DEF FileRec
  <2>3. f[k].last = file[k].last \/ f[k].last = file[k].last + 1
    BY <2>1 DEF WrittenBy, SameEntries
  <2> QED BY <2>2, <2>3
<1> QED BY <1>1, <1>2 DEF WrittenBy

\* A packet says ok of the entry it was recorded as.
LEMMA SendsPacketKeeps ==
  ASSUME IInv, NEW free \in Free, SendsPacket(free)
  PROVE  IInv'
<1>1. DiskTyped /\ LoopTyped /\ ServerTyped /\ RestTyped
  BY TypeParts DEF IInv
<1>2. /\ lpc = "packet" /\ Record(free) /\ lpc' = "sample"
      /\ packet' = [shows |-> sig, id |-> jnl'.id, seq |-> jnl'.seq, state |-> jnl'.state]
      /\ gate' = [gate EXCEPT !.pending = FALSE, !.idle = @ \/ sig.state = "IDLE"]
      /\ UNCHANGED <<sig, srv, ans, mark, lost, starts>>
  BY DEF SendsPacket, server
<1>3. /\ WrittenBy(file', path', jnl') /\ Knows(jnl', file')
      /\ jnl'.state = "ok" => jnl'.key = sig
      /\ jnl.id # 0 => jnl'.id # 0
  BY <1>2, Records
<1>4. /\ Len(file) \in Nat /\ Len(file') \in Nat /\ Len(file) <= Len(file')
      /\ \A k \in 1..Len(file') : file'[k] \in FileRec
      /\ \A k \in 1..Len(file) : file[k].last \in Nat /\ file[k].low \in Nat
                                 /\ file[k].last <= file'[k].last
      /\ \A k \in 1..Len(file') : k # jnl'.conn => SameEntries(file'[k], Was(k))
  BY <1>3, NewestStay
<1>5. sig # NoSignal /\ sig \in Signal
  BY <1>1, <1>2 DEF IInv, GateInv, LoopTyped
<1>6. jnl' \in JnlRec(Len(file'))
  BY <1>3 DEF Knows
<1>7. /\ gate' \in GateRec /\ gate'.sampled = gate.sampled /\ gate'.fault = gate.fault
      /\ gate'.idle => gate.idle \/ sig.state = "IDLE"
  BY <1>1, <1>2, <1>5 DEF LoopTyped, GateRec
<1>8. packet' \in PacketRec(Len(file'))
  BY <1>2, <1>5, <1>6 DEF PacketRec, JnlRec, States
<1>9. DiskTyped' /\ LoopTyped' /\ ServerTyped' /\ RestTyped'
  <2>1. DiskTyped'
    BY <1>3, <1>6 DEF DiskTyped, WrittenBy
  <2>2. LoopTyped'
    BY <1>1, <1>2, <1>7, <1>8 DEF LoopTyped
  <2>3. ServerTyped'
    BY <1>1, <1>2, <1>4, Widens DEF ServerTyped
  <2>4. fails' \in Nat
    <3>1. fails' = fails \/ fails' = fails + 1
      <4>1. DiskLow(free) => fails' = fails
        BY DEF DiskLow
      <4>2. StaysClosed(free) => fails' = fails \/ fails' = fails + 1
        BY DEF StaysClosed, Works, Fails
      <4>3. NotDue(free) => fails' = fails
        BY DEF NotDue, Works
      <4>4. Writes(free) => fails' = fails
        BY DEF Writes, Works
      <4>5. WriteFails(free) => fails' = fails + 1
        BY DEF WriteFails, Fails
      <4> QED BY <1>2, <4>1, <4>2, <4>3, <4>4, <4>5 DEF Record
    <3> QED BY <1>1, <3>1 DEF RestTyped
  <2>5. RestTyped'
    BY <1>1, <1>2, <2>4 DEF RestTyped
  <2> QED BY <2>1, <2>2, <2>3, <2>5
<1>10. FilesInOrder'
  BY <1>3 DEF FilesInOrder, WrittenBy
<1>11. JournalInv'
  BY <1>2, <1>3 DEF Knows, JournalInv
<1>12. PacketInv'
  <2>1. packet'.id # 0 => packet'.seq <= file'[packet'.id].last
    BY <1>2, <1>3 DEF Knows
  <2>2. OkMeansKept'
    BY <1>2, <1>3, <1>5, <1>6 DEF Knows, OkMeansKept, JnlRec
  <2> QED BY <2>1, <2>2 DEF PacketInv
<1>13. GateInv'
  <2>1. /\ packet'.shows = sig /\ sig' = sig /\ lpc' = "sample"
        /\ gate.idle => sig.state = "IDLE"
    BY <1>2 DEF IInv, GateInv
  <2> QED BY <1>5, <1>7, <2>1 DEF IInv, GateInv
<1>14. ServerInv'
  <2>1. ASSUME srv.thread = "answering", ~lost
        PROVE  ans.upper <= file'[ans.id].last
    <3>1. ans.id \in 1..Len(file) /\ ans.upper \in Nat /\ ans.upper <= file[ans.id].last
      BY <1>1, <1>4, <2>1 DEF IInv, ServerInv, ServerTyped, AnsRec
    <3>2. file'[ans.id].last \in Nat
      BY <1>4, <3>1 DEF FileRec
    <3> QED BY <1>4, <3>1, <3>2
  <2>2. ASSUME srv.sock, NEW k \in (srv.label + 1)..Len(file')
        PROVE  file'[k].low = 0 /\ (file'[k].last # 0 => jnl'.id > srv.label)
    <3>1. srv.label \in Nat /\ k \in 1..Len(file')
      BY <1>1, <1>4 DEF ServerTyped, SrvRec
    <3>2. Was(k).low = 0 /\ Was(k).last = 0
      <4>1. CASE k <= Len(file)
        BY <1>2, <2>2, <3>1, <4>1 DEF IInv, ServerInv, Was
      <4>2. CASE ~(k <= Len(file))
        BY <4>2 DEF Was, NewFile
      <4> QED BY <4>1, <4>2
    <3>3. CASE SameEntries(file'[k], Was(k))
      BY <3>2, <3>3 DEF SameEntries
    <3>4. CASE k = jnl'.conn /\ file'[k].low \in Was(k).low..Was(k).last
      <4>1. jnl'.id = k
        BY <1>3, <3>1, <3>4 DEF Knows
      <4> QED BY <3>1, <3>2, <3>4, <4>1
    <3> QED BY <1>3, <3>1, <3>3, <3>4 DEF WrittenBy
  <2> QED BY <1>2, <1>3, <2>1, <2>2 DEF IInv, ServerInv
<1>15. MarksInv'
  <2>1. ASSUME ~lost, NEW i \in 1..Len(file')
        PROVE  mark[i] <= file'[i].last
    <3>1. file'[i].last \in Nat /\ i \in Ids
      BY <1>3, <1>4, SizesAssumption DEF FileRec, Ids, WrittenBy
    <3>2. mark[i] \in Nat
      BY <1>1, <3>1 DEF RestTyped
    <3>3. CASE i <= Len(file)
      <4>1. i \in 1..Len(file) /\ i \in DOMAIN file
        BY <1>1, <1>4, <3>3 DEF DiskTyped
      <4> QED BY <1>4, <2>1, <3>1, <3>2, <4>1 DEF IInv, MarksInv
    <3>4. CASE ~(i <= Len(file))
      BY <1>4, <3>1, <3>4 DEF IInv, MarksInv
    <3> QED BY <3>3, <3>4
  <2>2. DOMAIN file' = 1..Len(file')
    BY <1>9 DEF DiskTyped
  <2>3. \A i \in Ids : i > Len(file') => mark[i] = 0
    BY <1>4, SizesAssumption DEF IInv, MarksInv, Ids
  <2> QED BY <1>2, <2>1, <2>2, <2>3 DEF MarksInv, Ids
<1>16. TypeOK'
  BY <1>9 DEF TypeOK, DiskTyped, LoopTyped, ServerTyped, RestTyped, FileRec, JnlRec,
              GateRec, PacketRec, SrvRec, AnsRec, States
<1> QED BY <1>10, <1>11, <1>12, <1>13, <1>14, <1>15, <1>16 DEF IInv
\* Opening or deleting a file changes no entry of any.
LEMMA OpeningKeeps ==
  ASSUME IInv, OnlyOpened(file', path'), UNCHANGED <<packet, mark, lost>>
  PROVE  /\ Len(file) \in Nat /\ Len(file') \in Nat /\ Len(file) <= Len(file')
         /\ file' \in Seq(FileRec) /\ path' \in 0..Len(file')
         /\ \A k \in 1..Len(file) : SameEntries(file'[k], file[k])
         /\ \A k \in (Len(file) + 1)..Len(file') : file'[k].last = 0 /\ file'[k].low = 0
         /\ packet' \in PacketRec(Len(file'))
         /\ FilesInOrder' /\ PacketInv' /\ MarksInv'
<1>1. DiskTyped /\ LoopTyped /\ ServerTyped /\ RestTyped
  BY TypeParts DEF IInv
<1>2. /\ Len(file) \in Nat /\ Len(file') \in Nat /\ Len(file) <= Len(file')
      /\ Len(file') <= MaxFiles
      /\ file' \in Seq(FileRec) /\ path' \in 0..Len(file')
  BY <1>1 DEF DiskTyped, OnlyOpened
<1>3. \A k \in 1..Len(file) : SameEntries(file'[k], file[k])
  BY <1>2 DEF OnlyOpened, Was
<1>4. ASSUME NEW k \in (Len(file) + 1)..Len(file')
      PROVE  file'[k].last = 0 /\ file'[k].low = 0
  <2>1. Was(k) = NewFile /\ SameEntries(file'[k], Was(k))
    BY <1>2 DEF OnlyOpened, Was
  <2> QED BY <2>1 DEF SameEntries, NewFile
<1>5. packet' \in PacketRec(Len(file'))
  BY <1>1, <1>2, Widens DEF LoopTyped
<1>6. FilesInOrder'
  BY DEF OnlyOpened, FilesInOrder
<1>7. PacketInv'
  <2>1. packet.id # 0 => packet.id \in 1..Len(file)
    <3>1. packet \in PacketRec(Len(file))
      BY <1>1 DEF LoopTyped
    <3>2. packet.id \in 0..Len(file)
      BY <3>1 DEF PacketRec
    <3> QED BY <1>2, <3>2
  <2> QED BY <1>3, <2>1 DEF IInv, PacketInv, OkMeansKept, SameEntries
<1>8. MarksInv'
  <2>1. DOMAIN file = 1..Len(file) /\ DOMAIN file' = 1..Len(file')
    BY <1>1, <1>2 DEF DiskTyped
  <2>2. ASSUME ~lost, NEW i \in 1..Len(file')
        PROVE  mark[i] <= file'[i].last
    <3>1. CASE i <= Len(file)
      <4>1. i \in 1..Len(file)
        BY <1>2, <3>1
      <4> QED BY <1>3, <2>1, <2>2, <4>1 DEF IInv, MarksInv, SameEntries
    <3>2. CASE ~(i <= Len(file))
      <4>1. i \in (Len(file) + 1)..Len(file') /\ i \in Ids /\ i > Len(file)
        BY <1>2, <3>2, SizesAssumption DEF Ids
      <4> QED BY <1>4, <4>1 DEF IInv, MarksInv
    <3> QED BY <3>1, <3>2
  <2>3. \A i \in Ids : i > Len(file') => mark[i] = 0
    BY <1>2, SizesAssumption DEF IInv, MarksInv, Ids
  <2> QED BY <2>1, <2>2, <2>3 DEF MarksInv, Ids
<1> QED BY <1>2, <1>3, <1>4, <1>5, <1>6, <1>7, <1>8

LEMMA ThreadOpensKeeps ==
  ASSUME IInv, ThreadOpens
  PROVE  IInv'
<1>1. DiskTyped /\ LoopTyped /\ ServerTyped /\ RestTyped
  BY TypeParts DEF IInv
<1>2. /\ srv.thread = "starting"
      /\ file' = Files /\ path' = Opened
      /\ srv' = [srv EXCEPT !.thread = "serving", !.conn = Opened]
      /\ UNCHANGED <<jnl, gate, lpc, sig, packet, ans, mark, lost, starts, fails>>
  BY DEF ThreadOpens, loop
<1>3. OnlyOpened(file', path') /\ path' \in 1..Len(file') /\ path' = Len(file')
  BY <1>2, FilesOpen
<1>4. /\ Len(file) \in Nat /\ Len(file') \in Nat /\ Len(file) <= Len(file')
      /\ file' \in Seq(FileRec) /\ path' \in 0..Len(file')
      /\ \A k \in 1..Len(file) : SameEntries(file'[k], file[k])
      /\ \A k \in (Len(file) + 1)..Len(file') : file'[k].last = 0 /\ file'[k].low = 0
      /\ packet' \in PacketRec(Len(file'))
      /\ FilesInOrder' /\ PacketInv' /\ MarksInv'
  BY <1>2, <1>3, OpeningKeeps
<1>5. srv \in SrvRec(Len(file')) /\ ans \in AnsRec(Len(file')) /\ jnl \in JnlRec(Len(file'))
  BY <1>1, <1>4, Widens DEF ServerTyped, DiskTyped
<1>6. /\ srv' \in SrvRec(Len(file'))
      /\ srv'.thread = "serving" /\ srv'.conn = path'
      /\ srv'.label = srv.label /\ srv'.sock = srv.sock
  <2>1. srv \in [thread : {"off", "starting", "serving", "answering"}, conn : 0..Len(file'),
                 label : 0..Len(file'), sock : BOOLEAN, stop : BOOLEAN]
    BY <1>5 DEF SrvRec
  <2> QED BY <1>2, <1>4, <2>1 DEF SrvRec
<1>7. DiskTyped' /\ LoopTyped' /\ ServerTyped' /\ RestTyped'
  BY <1>1, <1>2, <1>4, <1>5, <1>6 DEF DiskTyped, LoopTyped, ServerTyped, RestTyped
<1>8. lpc # "down"
  BY <1>2 DEF IInv, ServerInv, NoServer
<1>9. JournalInv'
  <2>1. jnl.id # 0 => jnl.id \in 1..Len(file)
    BY <1>1, <1>4 DEF DiskTyped, JnlRec
  <2>2. jnl.conn # 0 => jnl.conn \in 1..Len(file)
    BY <1>1, <1>4 DEF DiskTyped, JnlRec
  <2>3. jnl.id # 0 => \A k \in (jnl.id + 1)..Len(file') : file'[k].last = 0 /\ file'[k].low = 0
    <3> SUFFICES ASSUME jnl.id # 0, NEW k \in (jnl.id + 1)..Len(file')
                 PROVE  file'[k].last = 0 /\ file'[k].low = 0
      OBVIOUS
    <3>1. CASE k <= Len(file)
      <4>1. k \in 1..Len(file) /\ k \in (jnl.id + 1)..Len(file)
        BY <1>4, <2>1, <3>1
      <4> QED BY <1>4, <4>1 DEF IInv, JournalInv, SameEntries
    <3>2. CASE ~(k <= Len(file))
      <4>1. k \in (Len(file) + 1)..Len(file')
        BY <1>4, <2>1, <3>2
      <4> QED BY <1>4, <4>1
    <3> QED BY <3>1, <3>2
  <2> QED BY <1>2, <1>4, <1>8, <2>1, <2>2, <2>3 DEF IInv, JournalInv, SameEntries
<1>10. GateInv'
  BY <1>2 DEF IInv, GateInv
<1>11. ServerInv'
  <2>1. ASSUME srv.sock, NEW k \in (srv.label + 1)..Len(file')
        PROVE  /\ file'[k].low = 0
               /\ file'[k].last # 0 => lpc # "packet" /\ jnl.id > srv.label
    <3>1. srv.label \in Nat
      BY <1>1, <1>4 DEF ServerTyped, SrvRec
    <3>2. CASE k <= Len(file)
      <4>1. k \in 1..Len(file) /\ k \in (srv.label + 1)..Len(file)
        BY <1>4, <3>1, <3>2
      <4> QED BY <1>4, <2>1, <4>1 DEF IInv, ServerInv, SameEntries
    <3>3. CASE ~(k <= Len(file))
      <4>1. k \in (Len(file) + 1)..Len(file')
        BY <1>4, <3>1, <3>3
      <4> QED BY <1>4, <4>1
    <3> QED BY <3>2, <3>3
  <2>2. srv'.conn >= srv'.label /\ srv'.conn # 0
    BY <1>3, <1>4, <1>6 DEF SrvRec
  <2> QED BY <1>2, <1>6, <1>8, <2>1, <2>2 DEF IInv, ServerInv
<1>12. TypeOK'
  BY <1>7 DEF TypeOK, DiskTyped, LoopTyped, ServerTyped, RestTyped, FileRec, JnlRec,
              GateRec, PacketRec, SrvRec, AnsRec, States
<1> QED BY <1>4, <1>9, <1>10, <1>11, <1>12 DEF IInv

LEMMA ThreadEndsKeeps ==
  ASSUME IInv, ThreadEnds
  PROVE  IInv'
<1>1. DiskTyped /\ LoopTyped /\ ServerTyped /\ RestTyped
  BY TypeParts DEF IInv
<1>2. /\ srv.thread \in {"starting", "serving"}
      /\ fails' = fails \/ fails' = fails + 1
      /\ srv' = [srv EXCEPT !.thread = "off", !.sock = FALSE, !.conn = 0]
      /\ UNCHANGED <<file, path, jnl, gate, lpc, sig, packet, ans, mark, lost, starts>>
  BY DEF ThreadEnds, Fails, Works, disk, loop
<1>3. /\ srv' \in SrvRec(Len(file))
      /\ srv'.thread = "off" /\ srv'.label = srv.label /\ ~srv'.sock
  <2>1. 0 \in 0..Len(file)
    BY <1>1 DEF DiskTyped
  <2>2. srv \in [thread : {"off", "starting", "serving", "answering"}, conn : 0..Len(file),
                 label : 0..Len(file), sock : BOOLEAN, stop : BOOLEAN]
    BY <1>1 DEF ServerTyped, SrvRec
  <2> QED BY <1>2, <2>1, <2>2 DEF SrvRec
<1>4. DiskTyped' /\ RestTyped' /\ LoopTyped' /\ ServerTyped'
  BY <1>1, <1>2, <1>3 DEF DiskTyped, RestTyped, LoopTyped, ServerTyped
<1>5. FilesInOrder' /\ PacketInv' /\ MarksInv' /\ GateInv'
  BY <1>2 DEF IInv, FilesInOrder, PacketInv, OkMeansKept, MarksInv, GateInv
<1>6. JournalInv'
  BY <1>2 DEF IInv, JournalInv
<1>7. ServerInv'
  <2>1. lpc # "down"
    BY <1>2 DEF IInv, ServerInv, NoServer
  <2> QED BY <1>2, <1>3, <2>1 DEF IInv, ServerInv
<1>8. TypeOK'
  BY <1>4 DEF TypeOK, DiskTyped, LoopTyped, ServerTyped, RestTyped, FileRec, JnlRec,
              GateRec, PacketRec, SrvRec, AnsRec, States
<1> QED BY <1>5, <1>6, <1>7, <1>8 DEF IInv

LEMMA ThreadTakesKeeps ==
  ASSUME IInv, NEW to \in 1..MaxSeq, ThreadTakes(to)
  PROVE  IInv'
<1>1. DiskTyped /\ LoopTyped /\ ServerTyped /\ RestTyped
  BY TypeParts DEF IInv
<1>2. /\ srv.thread = "serving" /\ srv.sock
      /\ srv.label # 0 /\ to \in (mark[srv.label] + 1)..file[srv.label].last
      /\ ans' = [id |-> srv.label, file |-> srv.conn, from |-> mark[srv.label],
                 upper |-> Smaller(to, file[srv.conn].last), first |-> FirstSeq(file[srv.conn])]
      /\ srv' = [srv EXCEPT !.thread = "answering"]
      /\ UNCHANGED <<file, path, jnl, gate, lpc, sig, packet, mark, lost, starts, fails>>
  BY DEF ThreadTakes, disk, loop
<1>3. srv.conn # 0 /\ srv.conn >= srv.label
  BY <1>2 DEF IInv, ServerInv
<1>4. /\ srv.label \in 1..Len(file) /\ srv.conn \in 1..Len(file) /\ Len(file) \in Nat
      /\ srv.label \in Ids
  <2>1. Len(file) \in Nat /\ Len(file) <= MaxFiles
    BY <1>1 DEF DiskTyped, IInv, FilesInOrder
  <2>2. srv.label \in 0..Len(file) /\ srv.conn \in 0..Len(file)
    BY <1>1 DEF ServerTyped, SrvRec
  <2> QED BY <1>2, <1>3, <2>1, <2>2, SizesAssumption DEF Ids
<1>5. file[srv.label] \in FileRec /\ file[srv.conn] \in FileRec
  BY <1>1, <1>4 DEF DiskTyped
<1>6. /\ mark[srv.label] \in Nat /\ file[srv.label].last \in Nat
      /\ file[srv.conn].last \in Nat /\ file[srv.conn].low \in Nat
  BY <1>1, <1>4, <1>5 DEF RestTyped, FileRec
<1>7. /\ Smaller(to, file[srv.conn].last) \in Nat
      /\ Smaller(to, file[srv.conn].last) <= file[srv.label].last
      /\ FirstSeq(file[srv.conn]) \in Nat
  BY <1>2, <1>6 DEF Smaller, FirstSeq
<1>8. /\ ans' \in AnsRec(Len(file))
      /\ ans'.id = srv.label /\ ans'.file = srv.conn /\ ans'.from = mark[srv.label]
      /\ ans'.upper <= file[srv.label].last
  BY <1>2, <1>4, <1>6, <1>7 DEF AnsRec
<1>9. /\ srv' \in SrvRec(Len(file)) /\ srv'.thread = "answering"
      /\ srv'.conn = srv.conn /\ srv'.label = srv.label /\ srv'.sock = srv.sock
  BY <1>1, <1>2 DEF ServerTyped, SrvRec
<1>10. DiskTyped' /\ RestTyped' /\ LoopTyped' /\ ServerTyped'
  BY <1>1, <1>2, <1>8, <1>9 DEF DiskTyped, RestTyped, LoopTyped, ServerTyped
<1>11. FilesInOrder' /\ PacketInv' /\ MarksInv' /\ GateInv'
  BY <1>2 DEF IInv, FilesInOrder, PacketInv, OkMeansKept, MarksInv, GateInv
<1>12. JournalInv'
  BY <1>2 DEF IInv, JournalInv
<1>13. ServerInv'
  <2>1. lpc # "down"
    BY <1>2 DEF IInv, ServerInv, NoServer
  <2> QED BY <1>2, <1>3, <1>8, <1>9, <2>1 DEF IInv, ServerInv
<1>14. TypeOK'
  BY <1>10 DEF TypeOK, DiskTyped, LoopTyped, ServerTyped, RestTyped, FileRec, JnlRec,
               GateRec, PacketRec, SrvRec, AnsRec, States
<1> QED BY <1>11, <1>12, <1>13, <1>14 DEF IInv
-----------------------------------------------------------------------------
\* What a reply brings

LEMMA SomeLeast ==
  ASSUME NEW S, S \subseteq Nat, S # {}
  PROVE  \E m \in S : \A n \in S : m <= n
<1>1. \E m \in S : \A n \in S : <<n, m>> \notin OpToRel(<, Nat)
  BY WFMin, NatLessThanWellFounded, Zenon
<1>2. PICK m \in S : \A n \in S : <<n, m>> \notin OpToRel(<, Nat)
  BY <1>1
<1>3. \A n \in S : ~(n < m)
  BY <1>2, Zenon DEF OpToRel
<1> QED BY <1>3

LEMMA SomeGreatest ==
  ASSUME NEW a \in Nat, NEW S, S \subseteq 0..a, S # {}
  PROVE  \E m \in S : \A n \in S : n <= m
<1> DEFINE T == {a - s : s \in S}
<1>1. T \subseteq Nat /\ T # {}
  <2>1. ASSUME NEW s \in S PROVE a - s \in Nat
    <3>1. s \in 0..a
      OBVIOUS
    <3> QED BY <3>1
  <2> QED BY <2>1
<1>2. PICK t \in T : \A u \in T : t <= u
  BY <1>1, SomeLeast
<1>3. PICK m \in S : t = a - m
  OBVIOUS
<1>4. \A n \in S : a - m <= a - n
  BY <1>2, <1>3
<1> QED BY <1>4

\* The watermark goes no further than what the page brings, or what the file
\* has not got any more.
LEMMA CommittedIs ==
  ASSUME IInv, srv.thread = "answering"
  PROVE  LET page == FirstPage(Rows(ans))
         IN  /\ Committed(ans, page) \in Nat
             /\ Committed(ans, page) <= ans.upper \/ Committed(ans, page) = ans.from
             /\ \A s \in (ans.from + 1)..Committed(ans, page) :
                  s \in page \/ s <= file[ans.file].low
<1> DEFINE rows == Rows(ans)
           page == FirstPage(rows)
           c == Committed(ans, page)
<1>1. DiskTyped /\ ServerTyped
  BY TypeParts DEF IInv
<1>2. /\ ans.from \in Nat /\ ans.upper \in Nat /\ ans.file \in 1..Len(file)
  <2>1. ans.file # 0
    BY DEF IInv, ServerInv
  <2> QED BY <1>1, <2>1 DEF ServerTyped, AnsRec, DiskTyped
<1>3. file[ans.file].low \in Nat
  <2>1. file[ans.file] \in FileRec
    BY <1>1, <1>2 DEF DiskTyped
  <2> QED BY <2>1 DEF FileRec
<1>4. rows \subseteq 0..ans.upper /\ rows \subseteq Nat
  BY <1>2 DEF Rows
<1>5. \A s \in (ans.from + 1)..ans.upper : s \in rows \/ s <= file[ans.file].low
  BY <1>2, <1>3 DEF Rows
<1>6. page \subseteq rows /\ \A s \in rows : s \in page <=> Cardinality({n \in rows : n < s}) < Page
  BY DEF FirstPage
<1>7. IsFiniteSet(rows)
  <2>1. IsFiniteSet(0..ans.upper)
    <3>1. 0 \in Int /\ ans.upper \in Int
      BY <1>2
    <3> QED BY <3>1, FS_Interval
  <2> QED BY <1>4, <2>1, FS_Subset
<1> HIDE DEF rows, page
<1>8. CASE page = {}
  <2>1. rows = {}
    <3> SUFFICES ASSUME rows # {} PROVE FALSE
      OBVIOUS
    <3>1. PICK m \in rows : \A n \in rows : m <= n
      BY <1>4, SomeLeast
    <3>2. ASSUME NEW n \in rows PROVE ~(n < m)
      <4>1. m <= n /\ m \in Nat /\ n \in Nat
        BY <1>4, <3>1, <3>2
      <4> QED BY <4>1
    <3>3. Cardinality({n \in rows : n < m}) < Page
      <4>1. {n \in rows : n < m} = {}
        BY <3>2
      <4> QED BY <4>1, FS_EmptySet, SizesAssumption
    <3> QED BY <1>6, <1>8, <3>1, <3>3
  <2>2. c = Larger(ans.from, ans.upper)
    BY <1>8 DEF Committed
  <2>3. c \in Nat /\ (c <= ans.upper \/ c = ans.from)
    BY <1>2, <2>2 DEF Larger
  <2>4. ASSUME NEW s \in (ans.from + 1)..c PROVE s <= file[ans.file].low
    <3>1. s \in (ans.from + 1)..ans.upper
      BY <1>2, <2>3
    <3> QED BY <1>5, <2>1, <3>1
  <2> QED BY <2>3, <2>4 DEF page, rows
<1>9. CASE page # {}
  <2>1. page \subseteq 0..ans.upper
    BY <1>4, <1>6
  <2>2. \E m \in page : \A n \in page : n <= m
    BY <1>2, <1>9, <2>1, SomeGreatest
  <2>3. c = CHOOSE m \in page : \A n \in page : n <= m
    BY <1>9 DEF Committed
  <2>4. c \in page
    BY <2>2, <2>3
  <2>5. c \in Nat /\ c <= ans.upper /\ c \in rows
    <3> HIDE DEF c
    <3>1. c \in 0..ans.upper /\ c \in rows
      BY <1>6, <2>1, <2>4
    <3> QED BY <1>2, <3>1
  <2>6. ASSUME NEW s \in (ans.from + 1)..c, s \in rows
        PROVE  s \in page
    <3>1. s <= c /\ s \in Nat
      BY <1>4, <2>5, <2>6
    <3>2. {n \in rows : n < s} \subseteq {n \in rows : n < c}
      <4>1. ASSUME NEW n \in rows, n < s PROVE n < c
        <5>1. n \in Nat
          BY <1>4
        <5> QED BY <2>5, <3>1, <4>1, <5>1
      <4> QED BY <4>1
    <3>3. {n \in rows : n < c} \subseteq rows
      OBVIOUS
    <3>4. IsFiniteSet({n \in rows : n < c})
      BY <1>7, <3>3, FS_Subset
    <3>5. /\ Cardinality({n \in rows : n < s}) <= Cardinality({n \in rows : n < c})
          /\ IsFiniteSet({n \in rows : n < s})
      BY <3>2, <3>4, FS_Subset
    <3>6. Cardinality({n \in rows : n < s}) \in Nat /\ Cardinality({n \in rows : n < c}) \in Nat
      BY <3>4, <3>5, FS_CardinalityType
    <3>7. Cardinality({n \in rows : n < c}) < Page
      BY <1>6, <2>4, <2>5
    <3>8. Cardinality({n \in rows : n < s}) < Page
      BY <3>5, <3>6, <3>7, SizesAssumption
    <3> QED BY <1>6, <2>6, <3>8
  <2>7. ASSUME NEW s \in (ans.from + 1)..c PROVE s \in page \/ s <= file[ans.file].low
    <3>1. s \in (ans.from + 1)..ans.upper
      BY <1>2, <2>5
    <3> QED BY <1>5, <2>6, <3>1
  <2> QED BY <2>5, <2>7 DEF page, rows
<1> QED BY <1>8, <1>9

LEMMA ThreadRepliesKeeps ==
  ASSUME IInv, ThreadReplies
  PROVE  IInv'
<1> DEFINE c == Committed(ans, FirstPage(Rows(ans)))
<1>1. DiskTyped /\ LoopTyped /\ ServerTyped /\ RestTyped
  BY TypeParts DEF IInv
<1>2. /\ srv.thread = "answering"
      /\ mark' = mark \/ mark' = [mark EXCEPT ![ans.id] = c]
      /\ ans' = NoAnswer
      /\ srv' = [srv EXCEPT !.thread = "serving"]
      /\ UNCHANGED <<file, path, jnl, gate, lpc, sig, packet, lost, starts, fails>>
  BY DEF ThreadReplies, disk, loop
<1>3. /\ c \in Nat /\ (c <= ans.upper \/ c = ans.from)
  BY <1>2, CommittedIs
<1> HIDE DEF c
<1>4. /\ ans.id \in 1..Len(file) /\ Len(file) \in Nat /\ Len(file) <= MaxFiles
      /\ ans.from = mark[ans.id]
      /\ ~lost => ans.upper <= file[ans.id].last
  <2>1. Len(file) \in Nat /\ Len(file) <= MaxFiles
    BY <1>1 DEF DiskTyped, IInv, FilesInOrder
  <2>2. ans.id \in 0..Len(file)
    BY <1>1 DEF ServerTyped, AnsRec
  <2> QED BY <1>2, <2>1, <2>2 DEF IInv, ServerInv
<1>5. ans.id \in Ids /\ DOMAIN file = 1..Len(file) /\ ans.upper \in Nat
      /\ file[ans.id].last \in Nat
  <2>1. ans.id \in Ids
    BY <1>4, SizesAssumption DEF Ids
  <2>2. file[ans.id] \in FileRec /\ DOMAIN file = 1..Len(file)
    BY <1>1, <1>4 DEF DiskTyped
  <2>3. ans.upper \in Nat
    BY <1>1 DEF ServerTyped, AnsRec
  <2> QED BY <2>1, <2>2, <2>3 DEF FileRec
<1>6. mark' \in [Ids -> Nat] /\ \A i \in Ids : i # ans.id => mark'[i] = mark[i]
  BY <1>1, <1>2, <1>3, <1>5 DEF RestTyped
<1>7. mark'[ans.id] = mark[ans.id] \/ mark'[ans.id] = c
  BY <1>1, <1>2, <1>5 DEF RestTyped
<1>8. MarksInv'
  <2>1. ASSUME ~lost, NEW i \in 1..Len(file) PROVE mark'[i] <= file[i].last
    <3>1. mark[i] <= file[i].last /\ mark[ans.id] <= file[ans.id].last
      BY <1>4, <1>5, <2>1 DEF IInv, MarksInv
    <3>2. i \in Ids
      BY <1>4, SizesAssumption DEF Ids
    <3>3. CASE i = ans.id
      BY <1>3, <1>4, <1>5, <1>7, <2>1, <3>1, <3>3
    <3>4. CASE i # ans.id
      BY <1>6, <3>1, <3>2, <3>4
    <3> QED BY <3>3, <3>4
  <2>2. \A i \in Ids : i > Len(file) => mark'[i] = 0
    BY <1>4, <1>6 DEF IInv, MarksInv
  <2> QED BY <1>2, <1>5, <2>1, <2>2 DEF MarksInv, Ids
<1>9. /\ srv' \in SrvRec(Len(file)) /\ srv'.thread = "serving"
      /\ srv'.conn = srv.conn /\ srv'.label = srv.label /\ srv'.sock = srv.sock
  BY <1>1, <1>2 DEF ServerTyped, SrvRec
<1>10. ans' \in AnsRec(Len(file))
  BY <1>2, <1>4, EmptiesTyped
<1>11. DiskTyped' /\ RestTyped' /\ LoopTyped' /\ ServerTyped'
  BY <1>1, <1>2, <1>6, <1>9, <1>10 DEF DiskTyped, RestTyped, LoopTyped, ServerTyped
<1>12. FilesInOrder' /\ PacketInv' /\ GateInv'
  BY <1>2 DEF IInv, FilesInOrder, PacketInv, OkMeansKept, GateInv
<1>13. JournalInv'
  BY <1>2 DEF IInv, JournalInv
<1>14. ServerInv'
  <2>1. lpc # "down"
    BY <1>2 DEF IInv, ServerInv, NoServer
  <2> QED BY <1>2, <1>9, <2>1 DEF IInv, ServerInv
<1>15. TypeOK'
  BY <1>11 DEF TypeOK, DiskTyped, LoopTyped, ServerTyped, RestTyped, FileRec, JnlRec,
               GateRec, PacketRec, SrvRec, AnsRec, States
<1> QED BY <1>8, <1>12, <1>13, <1>14, <1>15 DEF IInv
-----------------------------------------------------------------------------
\* The agent comes and goes

LEMMA AgentStartsKeeps ==
  ASSUME IInv, AgentStarts
  PROVE  IInv'
<1>1. DiskTyped /\ LoopTyped /\ ServerTyped /\ RestTyped
  BY TypeParts DEF IInv
<1>2. /\ lpc = "down" /\ starts' = starts + 1
      /\ gate' = NewGate /\ lpc' = "sample"
      /\ fails' = fails \/ fails' = fails + 1
      /\ UNCHANGED <<sig, packet, ans, mark, lost>>
  BY DEF AgentStarts, Works, Fails
<1>3. sig = NoSignal /\ packet = NoPacket
  BY <1>2 DEF IInv, GateInv
<1>4. Len(file) \in Nat /\ Closed \in JnlRec(Len(file)) /\ NewGate \in GateRec
  BY <1>1, EmptiesTyped DEF DiskTyped
<1>5. /\ OnlyOpened(file', path')
      /\ jnl' \in JnlRec(Len(file'))
      /\ jnl'.state = "ok" => jnl'.key = NoSignal
      /\ jnl'.conn = 0 => jnl'.state # "ok" /\ jnl'.id = 0
      /\ jnl'.conn # 0 => jnl'.id # 0
      /\ jnl'.id # 0 => /\ jnl'.conn = jnl'.id /\ jnl'.id = Len(file')
                        /\ jnl'.seq = file'[jnl'.id].last
      /\ srv' \in SrvRec(Len(file')) /\ srv'.label = jnl'.id
      /\ srv'.thread \in {"off", "starting"} /\ (srv'.sock => srv'.thread = "starting")
  <2>1. CASE /\ jnl' = Connected(Closed).jnl
             /\ file' = Connected(Closed).file /\ path' = Connected(Closed).path
             /\ srv' \in Started([NoServer EXCEPT !.label = jnl'.id])
    <3> DEFINE c == Connected(Closed)
               v == [NoServer EXCEPT !.label = jnl'.id]
    <3>1. /\ OnlyOpened(c.file, c.path) /\ c.path # 0 /\ c.path = Len(c.file)
          /\ c.jnl \in JnlRec(Len(c.file)) /\ c.jnl.conn = c.path /\ c.jnl.id = c.path
          /\ c.jnl.seq = c.file[c.path].last /\ c.jnl.key = Closed.key
      BY <1>4, Connects
    <3> HIDE DEF c
    <3>2. jnl' = c.jnl /\ file' = c.file /\ path' = c.path
      BY <2>1 DEF c
    <3>3. Len(file') \in Nat
      BY <3>1, <3>2 DEF OnlyOpened
    <3>4. jnl'.id \in 0..Len(file')
      BY <3>1, <3>2, <3>3
    <3>5. /\ v \in SrvRec(Len(file')) /\ v.label = jnl'.id /\ v.thread = "off"
      <4>1. NoServer \in [thread : {"off", "starting", "serving", "answering"},
                          conn : 0..Len(file'), label : 0..Len(file'),
                          sock : BOOLEAN, stop : BOOLEAN]
        BY <3>3, EmptiesTyped DEF SrvRec
      <4>2. NoServer.thread = "off"
        BY DEF NoServer
      <4> QED BY <3>4, <4>1, <4>2 DEF SrvRec
    <3> HIDE DEF v
    <3>6. srv' \in Started(v)
      BY <2>1 DEF v
    <3>7. /\ srv' \in SrvRec(Len(file')) /\ srv'.label = v.label
          /\ \/ srv' = v /\ v.thread # "off"
             \/ srv'.thread \in {"off", "starting"} /\ (srv'.sock => srv'.thread = "starting")
      BY <3>3, <3>5, <3>6, StartedIs
    <3>8. Closed.key = NoSignal
      BY DEF Closed
    <3> QED BY <3>1, <3>2, <3>3, <3>5, <3>7, <3>8
  <2>2. CASE jnl' = Failing(Closed) /\ srv' = NoServer /\ file' = file /\ path' = path
    <3>1. /\ Failing(Closed) \in JnlRec(Len(file))
          /\ Failing(Closed).conn = 0 /\ Failing(Closed).id = 0
          /\ Failing(Closed).state = "failing"
      BY <1>4, EmptiesTyped DEF Failing, Closed, JnlRec, States
    <3>2. OnlyOpened(file, path)
      BY <1>1 DEF IInv, FilesInOrder, DiskTyped, OnlyOpened, SameEntries, Was
    <3>3. /\ NoServer \in SrvRec(Len(file)) /\ NoServer.label = 0
          /\ NoServer.thread = "off" /\ ~NoServer.sock
      BY <1>4, EmptiesTyped DEF NoServer
    <3> QED BY <2>2, <3>1, <3>2, <3>3
  <2> QED BY <2>1, <2>2 DEF AgentStarts, disk
<1>6. /\ Len(file') \in Nat /\ Len(file) <= Len(file')
      /\ file' \in Seq(FileRec) /\ path' \in 0..Len(file')
      /\ packet' \in PacketRec(Len(file'))
      /\ FilesInOrder' /\ PacketInv' /\ MarksInv'
  BY <1>2, <1>5, OpeningKeeps
<1>7. ans' \in AnsRec(Len(file'))
  BY <1>1, <1>2, <1>4, <1>6, Widens DEF ServerTyped
<1>8. DiskTyped' /\ LoopTyped' /\ ServerTyped' /\ RestTyped'
  BY <1>1, <1>2, <1>4, <1>5, <1>6, <1>7 DEF DiskTyped, LoopTyped, ServerTyped, RestTyped
<1>9. JournalInv'
  <2>1. jnl'.id # 0 => /\ jnl'.seq <= file'[jnl'.id].last
                       /\ (jnl'.id + 1)..Len(file') = {}
    <3>1. jnl'.seq \in Nat
      BY <1>5 DEF JnlRec
    <3> QED BY <1>5, <1>6, <3>1
  <2>2. \A k \in (jnl'.id + 1)..Len(file') : jnl'.id # 0 =>
          file'[k].last = 0 /\ file'[k].low = 0
    BY <2>1
  <2>3. /\ jnl'.conn # 0 => jnl'.id = jnl'.conn
        /\ jnl'.conn = 0 => jnl'.state # "ok"
        /\ jnl'.state = "ok" => jnl'.key = NoSignal
    BY <1>5
  <2> QED BY <1>2, <2>1, <2>2, <2>3 DEF JournalInv
<1>10. GateInv'
  <2>1. NoPacket.shows = NoSignal
    BY DEF NoPacket
  <2> QED BY <1>2, <1>3, <2>1 DEF GateInv, NewGate, NoSignal
<1>11. ServerInv'
  <2>1. srv'.sock => (srv'.label + 1)..Len(file') = {} \/ srv'.label = 0
    BY <1>5, <1>6
  <2>2. srv'.label = 0 => ~srv'.sock
    <3>1. CASE jnl'.id = 0
      <4>1. srv' = NoServer
        <5>1. Connected(Closed).path # 0 /\ Connected(Closed).jnl.id = Connected(Closed).path
          BY <1>4, Connects
        <5> QED BY <3>1, <5>1 DEF AgentStarts
      <4> QED BY <4>1 DEF NoServer
    <3> QED BY <1>5, <3>1
  <2> QED BY <1>2, <1>5, <2>1, <2>2 DEF ServerInv
<1>12. TypeOK'
  BY <1>8 DEF TypeOK, DiskTyped, LoopTyped, ServerTyped, RestTyped, FileRec, JnlRec,
              GateRec, PacketRec, SrvRec, AnsRec, States
<1> QED BY <1>6, <1>9, <1>10, <1>11, <1>12 DEF IInv

\* A process that is gone holds nothing.
LEMMA DownKeeps ==
  ASSUME lpc' = "down", jnl' = Closed, srv' = NoServer, ans' = NoAnswer,
         gate' = NewGate, sig' = NoSignal, packet' = NoPacket,
         file' \in Seq(FileRec), path' \in 0..Len(file')
  PROVE  /\ DiskTyped' /\ LoopTyped' /\ ServerTyped'
         /\ JournalInv' /\ PacketInv' /\ GateInv' /\ ServerInv'
<1>1. Len(file') \in Nat
  OBVIOUS
<1>2. /\ NoPacket \in PacketRec(Len(file')) /\ NoServer \in SrvRec(Len(file'))
      /\ NoAnswer \in AnsRec(Len(file')) /\ Closed \in JnlRec(Len(file')) /\ NewGate \in GateRec
  BY <1>1, EmptiesTyped
<1>3. DiskTyped' /\ LoopTyped' /\ ServerTyped'
  BY <1>2 DEF DiskTyped, LoopTyped, ServerTyped
<1>4. JournalInv'
  BY DEF JournalInv, Closed
<1>5. PacketInv'
  BY DEF PacketInv, OkMeansKept, NoPacket
<1>6. GateInv'
  BY DEF GateInv, NewGate, NoPacket, NoSignal
<1>7. ServerInv'
  BY DEF ServerInv, NoServer
<1> QED BY <1>3, <1>4, <1>5, <1>6, <1>7

LEMMA AgentEndsKeeps ==
  ASSUME IInv, AgentEnds
  PROVE  IInv'
<1>1. DiskTyped /\ RestTyped
  BY TypeParts DEF IInv
<1>2. /\ lpc' = "down" /\ jnl' = Closed /\ srv' = NoServer /\ ans' = NoAnswer
      /\ gate' = NewGate /\ sig' = NoSignal /\ packet' = NoPacket
      /\ UNCHANGED <<file, path, mark, lost, starts, fails>>
  BY DEF AgentEnds, disk
<1>3. /\ DiskTyped' /\ LoopTyped' /\ ServerTyped'
      /\ JournalInv' /\ PacketInv' /\ GateInv' /\ ServerInv'
  BY <1>1, <1>2, DownKeeps DEF DiskTyped
<1>4. RestTyped' /\ FilesInOrder' /\ MarksInv'
  BY <1>1, <1>2 DEF IInv, RestTyped, FilesInOrder, MarksInv
<1>5. TypeOK'
  BY <1>3, <1>4 DEF TypeOK, DiskTyped, LoopTyped, ServerTyped, RestTyped, FileRec, JnlRec,
                    GateRec, PacketRec, SrvRec, AnsRec, States
<1> QED BY <1>3, <1>4, <1>5 DEF IInv

LEMMA PowerIsLostKeeps ==
  ASSUME IInv, PowerIsLost
  PROVE  IInv'
<1>1. DiskTyped /\ RestTyped
  BY TypeParts DEF IInv
<1>2. /\ path # 0 /\ lost' = TRUE
      /\ lpc' = "down" /\ jnl' = Closed /\ srv' = NoServer /\ ans' = NoAnswer
      /\ gate' = NewGate /\ sig' = NoSignal /\ packet' = NoPacket
      /\ UNCHANGED <<path, mark, starts, fails>>
  BY DEF PowerIsLost
<1>3. PICK n \in 0..file[path].last : file' = [file EXCEPT ![path].last = n]
  BY DEF PowerIsLost
<1>4. path \in 1..Len(file) /\ file \in Seq(FileRec)
  BY <1>1, <1>2 DEF DiskTyped
<1>5. file[path] \in FileRec
  BY <1>4
<1>6. n \in Nat
  BY <1>3, <1>5 DEF FileRec
<1>7. [file[path] EXCEPT !.last = n] \in FileRec
  BY <1>5, <1>6 DEF FileRec
<1>8. file' \in Seq(FileRec) /\ Len(file') = Len(file)
  BY <1>3, <1>4, <1>7
<1>9. path' \in 0..Len(file')
  BY <1>2, <1>4, <1>8
<1>10. /\ DiskTyped' /\ LoopTyped' /\ ServerTyped'
       /\ JournalInv' /\ PacketInv' /\ GateInv' /\ ServerInv'
  BY <1>2, <1>8, <1>9, DownKeeps
<1>11. RestTyped' /\ FilesInOrder' /\ MarksInv'
  BY <1>1, <1>2, <1>8 DEF IInv, RestTyped, FilesInOrder, MarksInv
<1>12. TypeOK'
  BY <1>10, <1>11 DEF TypeOK, DiskTyped, LoopTyped, ServerTyped, RestTyped, FileRec, JnlRec,
                      GateRec, PacketRec, SrvRec, AnsRec, States
<1> QED BY <1>10, <1>11, <1>12 DEF IInv

LEMMA FileDeletedKeeps ==
  ASSUME IInv, FileDeleted
  PROVE  IInv'
<1> USE DEF FileDeleted, loop, server
<1>1. DiskTyped /\ LoopTyped /\ ServerTyped /\ RestTyped
  BY TypeParts DEF IInv
<1>2. 0 \in 0..Len(file)
  BY <1>1 DEF DiskTyped
<1>3. DiskTyped' /\ RestTyped' /\ LoopTyped' /\ ServerTyped'
  BY <1>1, <1>2 DEF DiskTyped, RestTyped, LoopTyped, ServerTyped
<1>4. FilesInOrder' /\ PacketInv' /\ MarksInv' /\ GateInv'
  BY DEF IInv, FilesInOrder, PacketInv, OkMeansKept, MarksInv, GateInv
<1>5. JournalInv'
  BY DEF IInv, JournalInv
<1>6. ServerInv'
  BY DEF IInv, ServerInv
<1>7. TypeOK'
  BY <1>3 DEF TypeOK, DiskTyped, LoopTyped, ServerTyped, RestTyped, FileRec, JnlRec,
              GateRec, PacketRec, SrvRec, AnsRec, States
<1> QED BY <1>4, <1>5, <1>6, <1>7 DEF IInv

-----------------------------------------------------------------------------
\* The theorems

THEOREM InvStep == IInv /\ [Next]_vars => IInv'
<1> SUFFICES ASSUME IInv, [Next]_vars PROVE IInv'
  OBVIOUS
<1>1. CASE UNCHANGED vars
  <2> USE <1>1 DEF vars
  <2>1. TypeOK'
    <3>1. DiskTyped /\ LoopTyped /\ ServerTyped /\ RestTyped
      BY TypeParts DEF IInv
    <3>2. DiskTyped' /\ LoopTyped' /\ ServerTyped' /\ RestTyped'
      BY <3>1 DEF DiskTyped, LoopTyped, ServerTyped, RestTyped
    <3> QED BY <3>2 DEF TypeOK, DiskTyped, LoopTyped, ServerTyped, RestTyped, FileRec, JnlRec,
                        GateRec, PacketRec, SrvRec, AnsRec, States
  <2>2. FilesInOrder' /\ MarksInv' /\ PacketInv' /\ GateInv'
    BY DEF IInv, FilesInOrder, MarksInv, PacketInv, OkMeansKept, GateInv
  <2>3. JournalInv' /\ ServerInv'
    BY DEF IInv, JournalInv, ServerInv
  <2> QED BY <2>1, <2>2, <2>3 DEF IInv
<1>2. CASE \E s \in Signal, poll \in BOOLEAN : Sample(s, poll)
  BY <1>2, SampleKeeps
<1>3. CASE \E beat \in BOOLEAN : ServerKept(beat)
  BY <1>3, ServerKeptKeeps
<1>4. CASE ServerStopped
  BY <1>4, ServerStoppedKeeps
<1>5. CASE \E beat \in BOOLEAN : ServerRestarts(beat)
  BY <1>5, ServerRestartsKeeps
<1>6. CASE \E free \in Free : SendsPacket(free)
  BY <1>6, SendsPacketKeeps
<1>7. CASE PacketFails
  BY <1>7, PacketFailsKeeps
<1>8. CASE ThreadOpens
  BY <1>8, ThreadOpensKeeps
<1>9. CASE ThreadEnds
  BY <1>9, ThreadEndsKeeps
<1>10. CASE \E to \in 1..MaxSeq : ThreadTakes(to)
  BY <1>10, ThreadTakesKeeps
<1>11. CASE ThreadReplies
  BY <1>11, ThreadRepliesKeeps
<1>12. CASE AgentStarts
  BY <1>12, AgentStartsKeeps
<1>13. CASE AgentEnds
  BY <1>13, AgentEndsKeeps
<1>14. CASE PowerIsLost
  BY <1>14, PowerIsLostKeeps
<1>15. CASE FileDeleted
  BY <1>15, FileDeletedKeeps
<1> QED BY <1>1, <1>2, <1>3, <1>4, <1>5, <1>6, <1>7, <1>8, <1>9, <1>10, <1>11, <1>12, <1>13,
           <1>14, <1>15 DEF Next

THEOREM SpecInv == Spec => []IInv
  BY InitInv, InvStep, PTL DEF Spec

\* Every variable keeps its type, whatever the number of files and entries.
THEOREM SpecTypeOK == Spec => []TypeOK
<1>1. IInv => TypeOK
  BY DEF IInv
<1> QED BY <1>1, SpecInv, PTL

\* What the dashboard was last told wrong stays pending, or moves the gate.
THEOREM SpecNothingForgotten == Spec => []NothingForgotten
<1>1. IInv => NothingForgotten
  BY DEF IInv, GateInv, NothingForgotten
<1> QED BY <1>1, SpecInv, PTL

\* A packet that says ok is about the journal's newest entry.
THEOREM SpecOkMeansKept == Spec => []OkMeansKept
<1>1. IInv => OkMeansKept
  BY DEF IInv, PacketInv
<1> QED BY <1>1, SpecInv, PTL

\* An older file is never served under a newer id.
THEOREM SpecOldEntriesNotUnderNewId == Spec => []OldEntriesNotUnderNewId
<1>1. IInv => OldEntriesNotUnderNewId
  BY DEF IInv, ServerInv, OldEntriesNotUnderNewId
<1> QED BY <1>1, SpecInv, PTL

\* No packet and no watermark is ahead of the file, until the power is lost.
THEOREM SpecSeqStandsWithPower == Spec => []SeqStandsWithPower
<1>1. IInv => SeqStandsWithPower
  BY DEF IInv, PacketInv, MarksInv, SeqStandsWithPower
<1> QED BY <1>1, SpecInv, PTL

\* The watermark passes no entry that the file still has and the reply did
\* not bring, though the thread may answer from a newer file than the one the
\* server names: that one has not been pruned.
THEOREM SpecNoEntrySkipped == Spec => NoEntrySkipped
<1> DEFINE Brought == \A i \in Ids : \A s \in (mark[i] + 1)..mark'[i] :
                        s \in FirstPage(Rows(ans)) \/ s <= file[i].low
<1>1. IInv /\ [Next]_vars => [Brought]_mark
  <2> SUFFICES ASSUME IInv, [Next]_vars, mark' # mark PROVE Brought
    OBVIOUS
  <2>1. DiskTyped /\ ServerTyped /\ RestTyped
    BY TypeParts DEF IInv
  <2>2. ThreadReplies
    BY DEF Next, vars, Sample, ServerKept, ServerStopped, ServerRestarts, SendsPacket,
           PacketFails, ThreadOpens, ThreadEnds, ThreadTakes, AgentStarts, AgentEnds,
           PowerIsLost, FileDeleted
  <2> DEFINE c == Committed(ans, FirstPage(Rows(ans)))
  <2>3. /\ srv.thread = "answering" /\ srv.sock
        /\ mark' = [mark EXCEPT ![ans.id] = c]
    BY <2>2 DEF ThreadReplies
  <2>4. \A s \in (ans.from + 1)..c : s \in FirstPage(Rows(ans)) \/ s <= file[ans.file].low
    BY <2>3, CommittedIs
  <2> HIDE DEF c
  <2>5. /\ ans.file >= ans.id /\ ans.id = srv.label /\ ans.from = mark[ans.id]
        /\ ans.id # 0 /\ ans.file # 0
    BY <2>3 DEF IInv, ServerInv
  <2>6. /\ Len(file) \in Nat /\ ans.id \in 1..Len(file) /\ ans.file \in 1..Len(file)
        /\ ans.id \in Nat /\ ans.file \in Nat
    BY <2>1, <2>5 DEF DiskTyped, ServerTyped, AnsRec
  <2>7. file[ans.file].low <= file[ans.id].low
    <3>1. file[ans.id] \in FileRec
      BY <2>1, <2>6 DEF DiskTyped
    <3>2. file[ans.id].low \in Nat
      BY <3>1 DEF FileRec
    <3>3. CASE ans.file = ans.id
      BY <3>2, <3>3
    <3>4. CASE ans.file > ans.id
      <4>1. ans.file \in (srv.label + 1)..Len(file)
        BY <2>5, <2>6, <3>4
      <4>2. file[ans.file].low = 0
        BY <2>3, <4>1 DEF IInv, ServerInv
      <4> QED BY <3>2, <4>2
    <3> QED BY <2>5, <2>6, <3>3, <3>4
  <2>8. SUFFICES ASSUME NEW i \in Ids, NEW s \in (mark[i] + 1)..mark'[i]
                 PROVE  s \in FirstPage(Rows(ans)) \/ s <= file[i].low
    OBVIOUS
  <2>9. mark[i] \in Nat
    BY <2>1 DEF RestTyped
  <2>10. i = ans.id
    <3> SUFFICES ASSUME i # ans.id PROVE FALSE
      OBVIOUS
    <3>1. mark'[i] = mark[i]
      BY <2>1, <2>3 DEF RestTyped
    <3> QED BY <2>9, <3>1
  <2>11. mark'[i] = c
    BY <2>1, <2>3, <2>10 DEF RestTyped
  <2>12. s \in (ans.from + 1)..c
    BY <2>5, <2>10, <2>11
  <2>13. CASE s <= file[ans.file].low
    <3>1. file[ans.file] \in FileRec /\ file[ans.id] \in FileRec
      BY <2>1, <2>6 DEF DiskTyped
    <3>2. file[ans.file].low \in Nat /\ file[ans.id].low \in Nat
      BY <3>1 DEF FileRec
    <3>3. s \in Int
      BY <2>12
    <3> QED BY <2>7, <2>10, <2>13, <3>2, <3>3
  <2> QED BY <2>4, <2>12, <2>13
<1> QED BY <1>1, SpecInv, PTL DEF Spec, NoEntrySkipped
=============================================================================
