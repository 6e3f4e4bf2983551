----------------------------- MODULE AgentLoop -----------------------------
(***************************************************************************)
(* The sampling loop between a LinuxCNC that comes and goes and a program  *)
(* file that changes on disk: LinuxCNCWatch (agent_runtime.py), the        *)
(* channel the loop polls (status.py, main), ProgramScanner                *)
(* (program_tracker.py) and the wait for a scan in                         *)
(* _CycleStateMachine.update.                                              *)
(*                                                                         *)
(* One round of the loop is several steps, "look", "connect", "poll",      *)
(* "load", "begin" and "update"; LinuxCNC, the operator and the scan       *)
(* threads move in between.  What a cycle is made of is in CycleCounting,  *)
(* subroutines and feed hold with it; here a run is on or off, and a scan  *)
(* is known by the version of the file it read.                            *)
(***************************************************************************)
EXTENDS Naturals

CONSTANTS
  Program,     \* files the operator may load
  Big,         \* those over background_bytes
  NoFile,      \* "": no program
  MaxErrors,   \* MAX_CONSECUTIVE_ERRORS (10 in the code)
  MaxSessions, \* bound: starts of LinuxCNC
  MaxEdits,    \* bound: versions of the files, of all together
  MaxOpens     \* bound: files opened in LinuxCNC

ASSUME FilesAssumption == Big \subseteq Program /\ NoFile \notin Program
ASSUME BoundsAssumption ==
  {MaxErrors, MaxEdits} \subseteq Nat \ {0} /\ {MaxSessions, MaxOpens} \subseteq Nat

VARIABLES
  disk,     \* version of each file, 0: it cannot be opened
  edits, opens, sessions,
  cnc,      \* LinuxCNC: session (its process; 0 while it is not running), file, run
  unseen,   \* history: it was started again and the loop has not seen it gone
  pc,       \* where the loop is
  pid,      \* LinuxCNCWatch._pid: the session it belongs to
  up,       \* linuxcnc_up
  stat,     \* stat_channel: the session it is attached to, 0: None
  errors,   \* consecutive_poll_errors
  seen,     \* what the last poll copied
  program,  \* ProgramFile.program
  sig,      \* ProgramScanner._sig
  info,     \* ProgramScanner.info
  done,     \* ProgramScanner._done
  threads,  \* scan threads alive
  cycle,    \* _CycleStateMachine._state is not IDLE: the session it began in
  judged    \* history: what the last sample of a cycle was judged by

watchVars == <<pid, up, stat, errors, seen>>
scanVars  == <<sig, info, done, threads>>
world     == <<disk, edits, opens, sessions, cnc>>
vars == <<world, unseen, pc, watchVars, program, scanVars, cycle, judged>>

File == Program \cup {NoFile}
Version == 0..MaxEdits
Session == 0..MaxSessions
Picture == [session : Session, file : File, run : BOOLEAN]
Sig == [path : File, version : Version]
\* lines: the version its landmarks are of, 0: blank.  scanned (history): a
\* scan of the file gave it; a blank one of a pending scan is not.
Info == [path : File, lines : Version, scanned : BOOLEAN]

Gone == [session |-> 0, file |-> NoFile, run |-> FALSE]
NoSig == [path |-> NoFile, version |-> 0]
Blank(f) == [path |-> f, lines |-> 0, scanned |-> FALSE]
NotJudged == [info |-> Blank(NoFile), sig |-> NoSig, late |-> FALSE]

TypeOK ==
  /\ disk \in [Program -> Version]
  /\ edits \in Version /\ opens \in 0..MaxOpens /\ sessions \in Session
  /\ cnc \in Picture /\ seen \in Picture
  /\ unseen \in BOOLEAN /\ up \in BOOLEAN /\ done \in BOOLEAN
  /\ pc \in {"look", "connect", "poll", "load", "begin", "update"}
  /\ pid \in Session /\ stat \in Session /\ cycle \in Session
  /\ errors \in 0..(MaxErrors - 1)
  /\ program \in File
  /\ sig \in Sig /\ info \in Info
  /\ threads \subseteq [sig : Sig, info : Info]
  /\ judged \in [info : Info, sig : Sig, late : BOOLEAN]

Init ==
  /\ disk = [f \in Program |-> 1]
  /\ edits = 1 /\ opens = 0 /\ sessions = 0
  /\ cnc = Gone /\ seen = Gone /\ unseen = FALSE
  /\ pc = "look" /\ pid = 0 /\ up = FALSE /\ stat = 0 /\ errors = 0
  /\ program = NoFile
  /\ sig = NoSig /\ info = Blank(NoFile) /\ done = TRUE /\ threads = {}
  /\ cycle = 0
  /\ judged = NotJudged

-----------------------------------------------------------------------------
\* LinuxCNC and the operator (external)

loop == <<pc, watchVars, program, scanVars, cycle, judged>>

CncStarts ==
  /\ cnc.session = 0 /\ sessions < MaxSessions
  /\ sessions' = sessions + 1
  /\ cnc' = [Gone EXCEPT !.session = sessions']
  /\ unseen' = up
  /\ UNCHANGED <<disk, edits, opens, loop>>

CncEnds ==
  /\ cnc.session # 0
  /\ cnc' = Gone
  /\ UNCHANGED <<disk, edits, opens, sessions, unseen, loop>>

OpensFile(f) ==
  /\ cnc.session # 0 /\ ~cnc.run /\ opens < MaxOpens
  /\ cnc' = [cnc EXCEPT !.file = f]
  /\ opens' = opens + 1
  /\ UNCHANGED <<disk, edits, sessions, unseen, loop>>

RunChanges ==
  /\ cnc.file # NoFile
  /\ cnc' = [cnc EXCEPT !.run = ~@]
  /\ UNCHANGED <<disk, edits, opens, sessions, unseen, loop>>

\* The file is written again, or taken away.
FileChanges(f) ==
  /\ edits < MaxEdits
  /\ edits' = edits + 1
  /\ \E v \in {0, edits'} : disk' = [disk EXCEPT ![f] = v]
  /\ UNCHANGED <<opens, sessions, cnc, unseen, loop>>

-----------------------------------------------------------------------------
\* LinuxCNCWatch.alive and the channel

\* The process known is gone, and no other is found or looked for (at most
\* once per rescan_s).  A loop that was up disconnects.
Disconnected_CycleKept ==
  pid' = 0 /\ up' = FALSE /\ stat' = 0 /\ UNCHANGED <<cycle, program>>
Disconnected_ChannelKept ==
  pid' = 0 /\ up' = FALSE /\ cycle' = 0 /\ program' = NoFile /\ UNCHANGED stat
Disconnected ==
  /\ pid' = 0 /\ up' = FALSE
  /\ IF up THEN stat' = 0 /\ cycle' = 0 /\ program' = NoFile
           ELSE UNCHANGED <<stat, cycle, program>>

LooksGone ==
  /\ pc = "look" /\ (pid = 0 \/ pid # cnc.session)
  /\ Disconnected
  /\ unseen' = FALSE
  /\ UNCHANGED <<world, pc, errors, seen, scanVars, judged>>

\* The process known is alive, or one is found.  The round in which it shows
\* up ends with a wait.
LooksAlive ==
  /\ pc = "look" /\ cnc.session # 0
  /\ pid' = cnc.session /\ up' = TRUE
  /\ pc' = IF ~up THEN "look" ELSE IF stat = 0 THEN "connect" ELSE "poll"
  /\ UNCHANGED <<world, unseen, stat, errors, seen, program, scanVars, cycle, judged>>

Connects ==
  /\ pc = "connect" /\ cnc.session # 0
  /\ stat' = cnc.session
  /\ pc' = "poll"
  /\ UNCHANGED <<world, unseen, pid, up, errors, seen, program, scanVars, cycle, judged>>

ConnectFails ==
  /\ pc = "connect"
  /\ pc' = "look"
  /\ UNCHANGED <<world, unseen, watchVars, program, scanVars, cycle, judged>>

\* A channel to a LinuxCNC that is gone fails, or shows the last picture of
\* the memory it is still attached to.
Pictures ==
  IF stat = cnc.session THEN {cnc}
  ELSE IF stat = seen.session THEN {seen, [seen EXCEPT !.run = FALSE]}
  ELSE {}

Polls ==
  /\ pc = "poll"
  /\ seen' \in Pictures
  /\ errors' = 0
  /\ pc' = "load"
  /\ UNCHANGED <<world, unseen, pid, up, stat, program, scanVars, cycle, judged>>

TooMany == errors + 1 >= MaxErrors

\* Too many in a row: the channel is opened anew.
PollFails ==
  /\ pc = "poll"
  /\ pc' = "look"
  /\ IF TooMany THEN stat' = 0 /\ errors' = 0
                ELSE errors' = errors + 1 /\ UNCHANGED stat
  /\ UNCHANGED <<world, unseen, pid, up, seen, program, scanVars, cycle, judged>>

-----------------------------------------------------------------------------
\* ProgramScanner

\* ProgramFile.update, without subroutines.
Shown ==
  IF seen.file = NoFile /\ (cycle # 0 \/ seen.run) THEN program ELSE seen.file

\* load(""): whatever is under way is of no use any more.
Unloaded_StaysPending == done
Unloaded == TRUE

\* load(path): what os.stat says is compared, and noted under the lock.
Loads ==
  /\ pc = "load"
  /\ program' = Shown
  /\ LET now == IF program' = NoFile THEN NoSig
                ELSE [path |-> program', version |-> disk[program']]
     IN  IF now = sig \/ program' = NoFile
           THEN /\ pc' = "update"
                /\ sig' = now
                /\ IF now = sig THEN UNCHANGED <<info, done>>
                   ELSE info' = Blank(NoFile) /\ done' = Unloaded
           ELSE sig' = now /\ pc' = "begin" /\ UNCHANGED <<info, done>>
  /\ UNCHANGED <<world, unseen, watchVars, threads, cycle, judged>>

\* What _scan makes of a file: it is opened when the scan runs, not when its
\* signature was taken.
Scan(f) == [path |-> f, lines |-> disk[f], scanned |-> TRUE]

InBackground == sig.path \in Big /\ sig.version # 0

\* A big file gets a thread, another is scanned by the loop itself.
BeginsThread ==
  /\ pc = "begin" /\ InBackground
  /\ info' = Blank(sig.path) /\ done' = FALSE
  /\ threads' = threads \cup {[sig |-> sig, info |-> Blank(sig.path)]}
  /\ pc' = "update"
  /\ UNCHANGED <<world, unseen, watchVars, program, sig, cycle, judged>>

ScansInline ==
  /\ pc = "begin" /\ ~InBackground
  /\ info' = Scan(sig.path) /\ done' = TRUE
  /\ pc' = "update"
  /\ UNCHANGED <<world, unseen, watchVars, program, sig, threads, cycle, judged>>

ThreadReads(t) ==
  /\ ~t.info.scanned
  /\ threads' = (threads \ {t}) \cup {[t EXCEPT !.info = Scan(t.sig.path)]}
  /\ UNCHANGED <<world, unseen, pc, watchVars, program, sig, info, done, cycle, judged>>

\* "another file was loaded meanwhile"
Meanwhile_PathOnly(t) == t.sig.path # sig.path
Meanwhile(t) == t.sig # sig

ThreadEnds(t) ==
  /\ t.info.scanned
  /\ threads' = threads \ {t}
  /\ IF Meanwhile(t) THEN UNCHANGED <<info, done>> ELSE info' = t.info /\ done' = TRUE
  /\ UNCHANGED <<world, unseen, pc, watchVars, program, sig, cycle, judged>>

-----------------------------------------------------------------------------
\* _CycleStateMachine.update

InCycle == seen.run \/ cycle # 0

\* A sample of a cycle waits for a pending scan.
MayGoOn == done \/ ~InCycle

Updates(late) ==
  /\ cycle' = IF ~seen.run THEN 0 ELSE IF cycle = 0 THEN seen.session ELSE cycle
  /\ judged' = IF InCycle THEN [info |-> info, sig |-> sig, late |-> late] ELSE NotJudged
  /\ pc' = "look"
  /\ UNCHANGED <<world, unseen, watchVars, program, scanVars>>

Samples ==
  /\ pc = "update" /\ MayGoOn
  /\ Updates(FALSE)

\* wait() gives up after 30 s.
SamplesLate ==
  /\ pc = "update" /\ ~MayGoOn
  /\ Updates(TRUE)

-----------------------------------------------------------------------------
Environment ==
  \/ CncStarts
  \/ CncEnds
  \/ \E f \in Program : OpensFile(f)
  \/ RunChanges
  \/ \E f \in Program : FileChanges(f)

Loop ==
  \/ LooksGone
  \/ LooksAlive
  \/ Connects
  \/ ConnectFails
  \/ Polls
  \/ PollFails
  \/ Loads
  \/ BeginsThread
  \/ ScansInline
  \/ Samples
  \/ SamplesLate

Thread(t) == ThreadReads(t) \/ ThreadEnds(t)

Next == Environment \/ Loop \/ \E t \in threads : Thread(t)

Spec == Init /\ [][Next]_vars

\* The loop goes round (every wait in it is bounded) and a scan comes to an
\* end.  A LinuxCNC that runs is looked for again and again (rescan_s), and
\* its channels do not fail for ever.
FairSpec ==
  /\ Spec
  /\ WF_vars(Loop)
  /\ SF_vars(LooksAlive) /\ SF_vars(Connects) /\ SF_vars(Polls)
  /\ WF_vars(\E t \in threads : Thread(t))

-----------------------------------------------------------------------------
\* Properties

\* A cycle is of the LinuxCNC that the loop talks to: one that was open when
\* LinuxCNC went away does not go on with the next one, whatever polls failed
\* in between, as long as a look fell between the two LinuxCNCs.
CycleOfOneSession ==
  cycle # 0 /\ stat # 0 => cycle = stat \/ unseen

\* A sample of a cycle is judged (run from here, end reached) by a scan of the
\* program loaded in that sample, and of the version it had then or a later
\* one, though scans of other files and versions end in any order; unless the
\* wait for the scan gave up.
JudgedByItsProgram ==
  judged.sig # NoSig /\ ~judged.late =>
    /\ judged.info.path = judged.sig.path
    /\ judged.info.scanned
    /\ judged.info.lines = 0 \/ judged.info.lines >= judged.sig.version

\* A scan that is waited for ends, or is given up for another load, so no
\* cycle waits 30 s in every sample.
ScanEnds == ~done ~> done

\* The loop gets pictures of every LinuxCNC that stays, unless it was started
\* again unseen: then a channel that never fails keeps showing the old one.
AttachesAgain ==
  \A s \in 1..MaxSessions :
    <>[](cnc.session = s /\ ~unseen) => []<>(pc = "load" /\ seen.session = s)
=============================================================================
