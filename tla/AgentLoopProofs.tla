-------------------------- MODULE AgentLoopProofs --------------------------
(***************************************************************************)
(* Proofs about AgentLoop, for every set of files, any number of sessions, *)
(* edits and opened files, and every MaxErrors.                            *)
(*                                                                         *)
(* CycleOfOneSession is not inductive: a channel opened anew could be of   *)
(* another LinuxCNC than the cycle.  OneSession adds the process the watch *)
(* knows, which ties cycle, channel and LinuxCNC together while the loop   *)
(* is up.  JudgedByItsProgram needs what every scan under way will give    *)
(* (ScansAreLater), because a thread may end after any number of loads.    *)
(***************************************************************************)
EXTENDS AgentLoop, TLAPS

\* While the loop is up and has not missed a restart, LinuxCNC, the channel
\* and the cycle are of the process it knows; while it is down it has neither.
OneSession ==
  /\ unseen \/ pc # "look" => up
  /\ ~up => stat = 0 /\ cycle = 0
  /\ up /\ ~unseen =>
       /\ cnc.session \in {0, pid}
       /\ stat \in {0, pid}
       /\ cycle \in {0, pid}
  /\ pc \in {"load", "begin", "update"} => seen.session = stat

\* A scan of f begun now gives version v or a later one.
ReadsFrom(f, v) == f # NoFile => v <= edits /\ (disk[f] = 0 \/ v <= disk[f])

\* What a scan made is of the file and the version it was begun for, or later.
ScanOf(i, g) ==
  g.path # NoFile => i.path = g.path /\ i.scanned /\ (i.lines = 0 \/ g.version <= i.lines)

ScansAreLater ==
  /\ sig.path = NoFile => sig = NoSig /\ pc # "begin"
  /\ ReadsFrom(sig.path, sig.version)
  /\ \A t \in threads :
       /\ t.sig.path # NoFile
       /\ ReadsFrom(t.sig.path, t.sig.version)
       /\ t.info.scanned => ScanOf(t.info, t.sig)
  /\ done /\ pc # "begin" => ScanOf(info, sig)
  /\ \A f \in Program : disk[f] <= edits

IInv == TypeOK /\ OneSession /\ ScansAreLater /\ JudgedByItsProgram

LEMMA BlankTyped == ASSUME NEW f \in File PROVE Blank(f) \in Info
  BY BoundsAssumption DEF Blank, Info, File, Version

LEMMA NothingTyped ==
  /\ NoFile \in File /\ 0 \in Version /\ 0 \in Session
  /\ Gone \in Picture /\ NoSig \in Sig /\ Blank(NoFile) \in Info
  /\ NotJudged \in [info : Info, sig : Sig, late : BOOLEAN]
<1>1. NoFile \in File /\ 0 \in Version /\ 0 \in Session
  BY BoundsAssumption DEF File, Version, Session
<1>2. Gone \in Picture /\ NoSig \in Sig /\ Blank(NoFile) \in Info
  BY <1>1, BlankTyped DEF Gone, Picture, NoSig, Sig
<1> QED
  BY <1>1, <1>2 DEF NotJudged

LEMMA InitInv == Init => IInv
<1> SUFFICES ASSUME Init PROVE IInv
  OBVIOUS
<1>1. TypeOK
  <2>1. 1 \in Version /\ 0 \in 0..MaxOpens /\ 0 \in 0..(MaxErrors - 1)
    BY BoundsAssumption DEF Version
  <2>2. disk \in [Program -> Version] /\ threads \subseteq [sig : Sig, info : Info]
    BY <2>1 DEF Init
  <2>3. /\ edits \in Version /\ opens \in 0..MaxOpens /\ sessions \in Session
        /\ cnc \in Picture /\ seen \in Picture /\ program \in File
        /\ sig \in Sig /\ info \in Info
        /\ judged \in [info : Info, sig : Sig, late : BOOLEAN]
    BY <2>1, NothingTyped DEF Init
  <2> QED
    BY <2>1, <2>2, <2>3, NothingTyped DEF Init, TypeOK
<1>2. OneSession
  BY DEF Init, OneSession
<1>3. ScansAreLater
  BY BoundsAssumption DEF Init, ScansAreLater, ReadsFrom, ScanOf, NoSig
<1>4. JudgedByItsProgram
  BY DEF Init, JudgedByItsProgram, NotJudged
<1> QED
  BY <1>1, <1>2, <1>3, <1>4 DEF IInv

-----------------------------------------------------------------------------
\* Types

\* LinuxCNC, the operator and the file system keep the types.
LEMMA EnvironmentTypes == ASSUME TypeOK, Environment PROVE TypeOK'
<1> USE BoundsAssumption
        DEF TypeOK, File, Version, Session, Picture, loop, watchVars, scanVars
<1>1. CASE CncStarts
  <2>1. sessions' \in Session
    BY <1>1 DEF CncStarts
  <2>2. cnc' \in Picture
    BY <1>1, <2>1 DEF CncStarts, Gone
  <2> QED
    BY <1>1, <2>1, <2>2 DEF CncStarts
<1>2. CASE CncEnds
  <2>1. cnc' \in Picture
    BY <1>2 DEF CncEnds, Gone
  <2> QED
    BY <1>2, <2>1 DEF CncEnds
<1>3. ASSUME NEW f \in Program, OpensFile(f) PROVE TypeOK'
  <2>1. cnc' \in Picture
    BY <1>3 DEF OpensFile
  <2>2. opens' \in 0..MaxOpens
    BY <1>3 DEF OpensFile
  <2> QED
    BY <1>3, <2>1, <2>2 DEF OpensFile
<1>4. CASE RunChanges
  <2>1. cnc' \in Picture
    BY <1>4 DEF RunChanges
  <2> QED
    BY <1>4, <2>1 DEF RunChanges
<1>5. ASSUME NEW f \in Program, FileChanges(f) PROVE TypeOK'
  <2>1. disk' \in [Program -> Version] /\ edits' \in Version
    BY <1>5 DEF FileChanges
  <2> QED
    BY <1>5, <2>1 DEF FileChanges
<1> QED
  BY <1>1, <1>2, <1>3, <1>4, <1>5 DEF Environment

\* The watch and the channel keep the types.
LEMMA WatchTypes ==
  ASSUME TypeOK, LooksGone \/ LooksAlive \/ Connects \/ ConnectFails \/ Polls \/ PollFails
  PROVE  TypeOK'
<1> USE BoundsAssumption
        DEF TypeOK, File, Version, Session, Picture, world, watchVars, scanVars
<1>1. CASE LooksGone
  <2>1. /\ pid' = 0 /\ up' = FALSE /\ stat' \in {0, stat} /\ cycle' \in {0, cycle}
        /\ program' \in {NoFile, program}
    BY <1>1 DEF LooksGone, Disconnected
  <2>2. program' \in File /\ stat' \in Session /\ cycle' \in Session /\ pid' \in Session
    BY <2>1, NothingTyped DEF File, Session
  <2> QED
    BY <1>1, <2>1, <2>2 DEF LooksGone
<1>2. CASE LooksAlive
  BY <1>2 DEF LooksAlive
<1>3. CASE Connects
  BY <1>3 DEF Connects
<1>4. CASE ConnectFails
  BY <1>4 DEF ConnectFails
<1>5. CASE Polls
  <2>1. seen' \in Picture
    BY <1>5 DEF Polls, Pictures
  <2> QED
    BY <1>5, <2>1 DEF Polls
<1>6. CASE PollFails
  BY <1>6 DEF PollFails, TooMany
<1> QED
  BY <1>1, <1>2, <1>3, <1>4, <1>5, <1>6

LEMMA ScanTyped == ASSUME TypeOK, NEW f \in File PROVE f # NoFile => Scan(f) \in Info
  BY DEF TypeOK, Scan, Info, File, Version

\* The program the loop goes on with, and its signature.
LEMMA LoadTypes == ASSUME TypeOK, Loads PROVE TypeOK'
<1> USE BoundsAssumption, FilesAssumption DEF TypeOK
<1>1. program' \in File
  BY DEF Loads, Shown, Picture
<1>2. sig' \in Sig /\ info' \in Info /\ done' \in BOOLEAN /\ pc' \in {"update", "begin"}
  <2> DEFINE new == IF program' = NoFile THEN NoSig
                    ELSE [path |-> program', version |-> disk[program']]
  <2>1. new \in Sig
    BY <1>1 DEF NoSig, Sig, File, Version
  <2>2. Blank(NoFile) \in Info
    BY BlankTyped DEF File
  <2> QED
    BY <2>1, <2>2 DEF Loads, Unloaded
<1> QED
  BY <1>1, <1>2 DEF Loads, world, watchVars

\* The scans and the samples keep the types.
LEMMA ScanTypes ==
  ASSUME TypeOK, ScansAreLater,
         \/ BeginsThread \/ ScansInline \/ Samples \/ SamplesLate
         \/ \E t \in threads : Thread(t)
  PROVE  TypeOK'
<1> USE DEF TypeOK, world, watchVars, scanVars
<1>1. CASE BeginsThread
  <2>1. Blank(sig.path) \in Info
    BY BlankTyped DEF Sig
  <2>2. [sig |-> sig, info |-> Blank(sig.path)] \in [sig : Sig, info : Info]
    BY <2>1
  <2> QED
    BY <1>1, <2>1, <2>2 DEF BeginsThread
<1>2. CASE ScansInline
  <2>1. ASSUME sig.path # NoFile PROVE Scan(sig.path) \in Info
    BY <2>1, ScanTyped DEF Sig
  <2>2. ASSUME sig.path = NoFile PROVE FALSE
    BY <1>2, <2>2 DEF ScansInline, ScansAreLater
  <2> QED
    BY <1>2, <2>1, <2>2 DEF ScansInline
<1>3. CASE Samples \/ SamplesLate
  <2>1. judged' \in [info : Info, sig : Sig, late : BOOLEAN]
    <3>1. NotJudged \in [info : Info, sig : Sig, late : BOOLEAN]
      BY NothingTyped
    <3>2. [info |-> info, sig |-> sig, late |-> FALSE]
            \in [info : Info, sig : Sig, late : BOOLEAN]
      OBVIOUS
    <3>3. [info |-> info, sig |-> sig, late |-> TRUE]
            \in [info : Info, sig : Sig, late : BOOLEAN]
      OBVIOUS
    <3> QED
      BY <1>3, <3>1, <3>2, <3>3 DEF Samples, SamplesLate, Updates
  <2>2. cycle' \in Session
    BY <1>3, BoundsAssumption DEF Samples, SamplesLate, Updates, Picture, Session
  <2> QED
    BY <1>3, <2>1, <2>2 DEF Samples, SamplesLate, Updates
<1>4. ASSUME NEW t \in threads, ThreadReads(t) PROVE TypeOK'
  <2>1. t.sig \in Sig /\ t.sig.path \in File /\ t.sig.path # NoFile
    BY DEF ScansAreLater, Sig
  <2>2. Scan(t.sig.path) \in Info
    BY <2>1, ScanTyped
  <2>3. [t EXCEPT !.info = Scan(t.sig.path)] \in [sig : Sig, info : Info]
    BY <2>2
  <2> QED
    BY <1>4, <2>3 DEF ThreadReads
<1>5. ASSUME NEW t \in threads, ThreadEnds(t) PROVE TypeOK'
  BY <1>5 DEF ThreadEnds
<1> QED
  BY <1>1, <1>2, <1>3, <1>4, <1>5 DEF Thread

-----------------------------------------------------------------------------
\* One session

LEMMA SessionStep == ASSUME TypeOK, OneSession, Next PROVE OneSession'
<1> USE DEF OneSession, world, watchVars, scanVars, loop
<1>1. CASE Environment
  <2>1. CASE CncStarts
    BY <2>1 DEF CncStarts
  <2>2. CASE CncEnds
    BY <2>2 DEF CncEnds, Gone
  <2>3. ASSUME NEW f \in Program, OpensFile(f) \/ FileChanges(f) PROVE OneSession'
    BY <2>3 DEF OpensFile, FileChanges, TypeOK, Picture
  <2>4. CASE RunChanges
    BY <2>4 DEF RunChanges, TypeOK, Picture
  <2> QED
    BY <1>1, <2>1, <2>2, <2>3, <2>4 DEF Environment
<1>2. CASE LooksGone
  BY <1>2 DEF LooksGone, Disconnected
<1>3. CASE LooksAlive
  BY <1>3 DEF LooksAlive
<1>4. CASE Connects \/ ConnectFails
  BY <1>4 DEF Connects, ConnectFails
<1>5. CASE Polls
  <2>1. seen'.session = stat
    BY <1>5 DEF Polls, Pictures, TypeOK, Picture
  <2> QED
    BY <1>5, <2>1 DEF Polls
<1>6. CASE PollFails
  BY <1>6 DEF PollFails
<1>7. CASE Loads
  BY <1>7 DEF Loads
<1>8. CASE BeginsThread \/ ScansInline
  BY <1>8 DEF BeginsThread, ScansInline
<1>9. CASE Samples \/ SamplesLate
  BY <1>9 DEF Samples, SamplesLate, Updates
<1>10. ASSUME NEW t \in threads, Thread(t) PROVE OneSession'
  BY <1>10 DEF Thread, ThreadReads, ThreadEnds
<1> QED
  BY <1>1, <1>2, <1>3, <1>4, <1>5, <1>6, <1>7, <1>8, <1>9, <1>10 DEF Next, Loop

-----------------------------------------------------------------------------
\* Scans

\* A file that is written again gets a version none had.
LEMMA ReadsFromStays ==
  ASSUME TypeOK, NEW f \in File, NEW v \in Version, ReadsFrom(f, v),
         UNCHANGED <<disk, edits>> \/ \E g \in Program : FileChanges(g)
  PROVE  ReadsFrom(f, v)'
<1>1. CASE UNCHANGED <<disk, edits>>
  BY <1>1 DEF ReadsFrom
<1>2. ASSUME NEW g \in Program, FileChanges(g) PROVE ReadsFrom(f, v)'
  BY <1>2, BoundsAssumption DEF FileChanges, ReadsFrom, TypeOK, Version, File
<1> QED
  BY <1>1, <1>2

LEMMA ScanReads ==
  ASSUME TypeOK, NEW g \in Sig, ReadsFrom(g.path, g.version)
  PROVE  ScanOf(Scan(g.path), g)
  BY DEF ReadsFrom, ScanOf, Scan

\* What is not of the scanner leaves it, but for the files.
LEMMA ScansUntouched ==
  ASSUME TypeOK, ScansAreLater, UNCHANGED scanVars, pc' = "begin" <=> pc = "begin",
         UNCHANGED <<disk, edits>> \/ \E g \in Program : FileChanges(g)
  PROVE  ScansAreLater'
<1> USE DEF scanVars
<1>1. ReadsFrom(sig.path, sig.version)'
  <2>1. sig.path \in File /\ sig.version \in Version
    BY DEF TypeOK, Sig
  <2> QED
    BY <2>1, ReadsFromStays DEF ScansAreLater, ReadsFrom
<1>2. ASSUME NEW t \in threads PROVE ReadsFrom(t.sig.path, t.sig.version)'
  <2>1. t.sig.path \in File /\ t.sig.version \in Version
    BY DEF TypeOK, Sig
  <2> QED
    BY <2>1, ReadsFromStays DEF ScansAreLater, ReadsFrom
<1>3. \A f \in Program : disk'[f] <= edits'
  <2>1. CASE UNCHANGED <<disk, edits>>
    BY <2>1 DEF ScansAreLater
  <2>2. ASSUME NEW g \in Program, FileChanges(g) PROVE \A f \in Program : disk'[f] <= edits'
    BY <2>2, BoundsAssumption DEF FileChanges, ScansAreLater, TypeOK, Version
  <2> QED
    BY <2>1, <2>2
<1> QED
  BY <1>1, <1>2, <1>3 DEF ScansAreLater, ScanOf

LEMMA LoadScans == ASSUME TypeOK, ScansAreLater, Loads PROVE ScansAreLater'
<1> USE DEF Loads, world
<1>1. program' \in File
  BY FilesAssumption DEF Shown, TypeOK, Picture, File
<1>2. sig' = IF program' = NoFile THEN NoSig
             ELSE [path |-> program', version |-> disk[program']]
  BY DEF NoSig
<1>3. sig'.path = NoFile => sig' = NoSig /\ pc' # "begin"
  BY <1>2 DEF NoSig
<1>4. ReadsFrom(sig'.path, sig'.version)
  <2>1. CASE program' = NoFile
    BY <1>2, <2>1 DEF ReadsFrom, NoSig
  <2>2. CASE program' \in Program
    <3>1. sig'.path = program' /\ sig'.version = disk[program']
      BY <1>2, <2>2, FilesAssumption
    <3>2. disk[program'] \in Nat /\ disk[program'] <= edits
      BY <2>2, BoundsAssumption DEF ScansAreLater, TypeOK, Version
    <3> QED
      BY <3>1, <3>2 DEF ReadsFrom
  <2> QED
    BY <1>1, <2>1, <2>2 DEF File
<1>5. done' /\ pc' # "begin" => ScanOf(info', sig')
  BY <1>2 DEF NoSig, ScanOf, ScansAreLater
<1> QED
  BY <1>3, <1>4, <1>5 DEF ScansAreLater, ReadsFrom, ScanOf

LEMMA BeginScans ==
  ASSUME TypeOK, ScansAreLater, BeginsThread \/ ScansInline PROVE ScansAreLater'
<1> USE DEF world
<1>1. CASE BeginsThread
  BY <1>1 DEF BeginsThread, ScansAreLater, ReadsFrom, ScanOf, Blank
<1>2. CASE ScansInline
  <2>1. ScanOf(Scan(sig.path), sig)
    BY ScanReads DEF ScansAreLater, TypeOK
  <2> QED
    BY <1>2, <2>1 DEF ScansInline, ScansAreLater, ReadsFrom, ScanOf
<1> QED
  BY <1>1, <1>2

LEMMA ThreadScans ==
  ASSUME TypeOK, ScansAreLater, NEW t \in threads, Thread(t) PROVE ScansAreLater'
<1> USE DEF world
<1>1. CASE ThreadReads(t)
  <2> DEFINE u == [t EXCEPT !.info = Scan(t.sig.path)]
  <2>1. ScanOf(Scan(t.sig.path), t.sig)
    BY ScanReads DEF ScansAreLater, TypeOK
  <2>2. u.sig = t.sig /\ u.info = Scan(t.sig.path)
    BY DEF TypeOK
  <2>3. threads' = (threads \ {t}) \cup {u}
    BY <1>1 DEF ThreadReads
  <2> QED
    BY <1>1, <2>1, <2>2, <2>3 DEF ThreadReads, ScansAreLater, ReadsFrom, ScanOf
<1>2. CASE ThreadEnds(t)
  BY <1>2 DEF ThreadEnds, Meanwhile, ScansAreLater, ReadsFrom, ScanOf
<1> QED
  BY <1>1, <1>2 DEF Thread

LEMMA ScanStep == ASSUME TypeOK, ScansAreLater, Next PROVE ScansAreLater'
<1>1. CASE Environment
  BY <1>1, ScansUntouched
  DEF Environment, CncStarts, CncEnds, OpensFile, RunChanges, FileChanges, loop, scanVars
<1>2. CASE LooksGone \/ LooksAlive \/ Connects \/ ConnectFails \/ Polls \/ PollFails
  BY <1>2, ScansUntouched
  DEF LooksGone, LooksAlive, Connects, ConnectFails, Polls, PollFails, world, watchVars
<1>3. CASE Loads
  BY <1>3, LoadScans
<1>4. CASE BeginsThread \/ ScansInline
  BY <1>4, BeginScans
<1>5. CASE Samples \/ SamplesLate
  BY <1>5, ScansUntouched DEF Samples, SamplesLate, Updates, world
<1>6. ASSUME NEW t \in threads, Thread(t) PROVE ScansAreLater'
  BY <1>6, ThreadScans
<1> QED
  BY <1>1, <1>2, <1>3, <1>4, <1>5, <1>6 DEF Next, Loop

\* A sample is judged by what the scanner has, once it has it.
LEMMA JudgedStep ==
  ASSUME TypeOK, ScansAreLater, JudgedByItsProgram, Next PROVE JudgedByItsProgram'
<1> USE DEF JudgedByItsProgram
<1>1. CASE Samples
  <2>1. InCycle => done /\ pc # "begin"
    BY <1>1 DEF Samples, MayGoOn
  <2>2. InCycle => judged' = [info |-> info, sig |-> sig, late |-> FALSE]
    BY <1>1 DEF Samples, Updates
  <2>3. ~InCycle => judged' = NotJudged
    BY <1>1 DEF Samples, Updates
  <2>4. InCycle /\ sig # NoSig => ScanOf(info, sig) /\ sig.path # NoFile
    BY <2>1 DEF ScansAreLater
  <2> QED
    BY <2>2, <2>3, <2>4 DEF ScanOf, NotJudged
<1>2. CASE SamplesLate
  <2>1. InCycle
    BY <1>2 DEF SamplesLate, MayGoOn
  <2> QED
    BY <1>2, <2>1 DEF SamplesLate, Updates
<1>3. CASE UNCHANGED judged
  BY <1>3
<1>4. Next => Samples \/ SamplesLate \/ UNCHANGED judged
  BY DEF Next, Environment, Loop, Thread, CncStarts, CncEnds, OpensFile, RunChanges,
         FileChanges, LooksGone, LooksAlive, Connects, ConnectFails, Polls, PollFails,
         Loads, BeginsThread, ScansInline, ThreadReads, ThreadEnds, loop
<1> QED
  BY <1>1, <1>2, <1>3, <1>4

-----------------------------------------------------------------------------
\* Every step keeps all of it.
LEMMA InvStep == IInv /\ [Next]_vars => IInv'
<1> SUFFICES ASSUME IInv, [Next]_vars PROVE IInv'
  OBVIOUS
<1>1. CASE Next
  <2>1. TypeOK'
    BY <1>1, EnvironmentTypes, WatchTypes, LoadTypes, ScanTypes DEF IInv, Next, Loop
  <2> QED
    BY <1>1, <2>1, SessionStep, ScanStep, JudgedStep DEF IInv
<1>2. CASE UNCHANGED vars
  BY <1>2
  DEF IInv, TypeOK, OneSession, ScansAreLater, ReadsFrom, JudgedByItsProgram, vars, world,
      watchVars, scanVars
<1> QED
  BY <1>1, <1>2

\* The loop, the channel and the scans keep their types.
THEOREM SpecTypeOK == Spec => []TypeOK
<1>1. IInv => TypeOK
  BY DEF IInv
<1> QED
  BY <1>1, InitInv, InvStep, PTL DEF Spec

\* The inductive invariant holds in every state.
THEOREM SpecInv == Spec => []IInv
  BY InitInv, InvStep, PTL DEF Spec

\* A cycle is of the LinuxCNC the loop talks to, however often polls fail and
\* channels are opened anew, unless LinuxCNC was started again unseen.
THEOREM SpecCycleOfOneSession == Spec => []CycleOfOneSession
<1>1. IInv => CycleOfOneSession
  BY DEF IInv, OneSession, CycleOfOneSession
<1> QED
  BY <1>1, SpecInv, PTL

\* A sample of a cycle is judged by a scan of its own program, not older than
\* the load, in whatever order the scan threads end.
THEOREM SpecJudgedByItsProgram == Spec => []JudgedByItsProgram
<1>1. IInv => JudgedByItsProgram
  BY DEF IInv
<1> QED
  BY <1>1, SpecInv, PTL
=============================================================================
