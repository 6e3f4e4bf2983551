--------------------------- MODULE CycleCounting ---------------------------
(***************************************************************************)
(* How the agent counts parts: cycle_time_calculator.py, the state machine *)
(* that drives it (status.py, _CycleStateMachine.update), and the part of  *)
(* the sampling loop that tells the MES link how a cycle ended.            *)
(*                                                                         *)
(* A part is one pass through a program, made in one run or in several     *)
(* (Run From Here).  What the agent knows of a run comes late: where it    *)
(* started shows with its first move, which program it is may show only    *)
(* when LinuxCNC comes back from a subroutine.                             *)
(*                                                                         *)
(* An action is one sample of the loop, with everything the loop does in   *)
(* it.  program_tracker.py (line numbers to "top", "mid" and "end          *)
(* reached") is abstracted to the answers it may give; the fraction of the *)
(* program a part got through is left out.                                 *)
(***************************************************************************)
EXTENDS Naturals, Sequences, FiniteSets, FiniteSetsExt

CONSTANTS
  Program,    \* files the operator may load
  NoProgram,  \* "" / None: the program is not known
  MinValid,   \* MIN_VALID_CYCLE_MS, in ticks
  MaxTime,    \* bound: ticks in which the machine is not idle
  MaxRuns,    \* bound: runs
  MaxSubs     \* bound: runs that begin inside a subroutine

ASSUME ProgramAssumption == NoProgram \notin Program
ASSUME TimesAssumption == MinValid \in Nat /\ MaxTime \in Nat
                        /\ MaxRuns \in Nat /\ MaxSubs \in Nat

VARIABLES
  now,     \* time.perf_counter_ns()
  sm,      \* _CycleStateMachine._state, and what LinuxCNC is seen to do
  calc,    \* CycleTimeCalculator: _state as "cycle", counters, open part
  file,    \* ProgramFile.program
  cycleProgram, \* cycle_program of the loop
  link,    \* CycleLink.cycle is there, and mes_counts
  facts,   \* outcomes handed to the MES worker, in order
  up,      \* the agent runs
  run,     \* the present run of the machine, see NoRun
  subs,    \* runs that began inside a subroutine
  runs     \* history: the runs that ended

vars == <<now, sm, calc, file, cycleProgram, link, facts, up, run, subs, runs>>

Known == Program \cup {NoProgram}
Origin == {"unknown", "top", "mid"}

\* _CycleState.  classified and is_run_from_here are one field, origin;
\* cycle_complete_signalled is set and used within one sample.
Cycle == [running : BOOLEAN, paused : BOOLEAN, start : Nat, pauseAt : Nat,
          pausedFor : Nat, program : Known, origin : Origin]
NoCycle == [running |-> FALSE, paused |-> FALSE, start |-> 0, pauseAt |-> 0,
            pausedFor |-> 0, program |-> NoProgram, origin |-> "unknown"]

Calculator ==
  [cycle : Cycle, carry : Nat, open : BOOLEAN, openProgram : Known, parts : Nat,
   aborts : Nat, rfhs : Nat, partials : Nat, last : Nat]

\* program: what the machine really runs; began, known: what the agent took
\* it for when it began, and takes it for now; active: ticks not paused.
NoRun == [program |-> NoProgram, began |-> NoProgram, known |-> NoProgram,
          inSub |-> FALSE, origin |-> "unknown", active |-> 0]

Run == [program : Known, began : Known, known : Known, inSub : BOOLEAN,
        origin : Origin, active : Nat]
EndedRun == [run : Run, end : {"reached", "stopped", "cut", "gone"}]

TypeOK ==
  /\ now \in Nat
  /\ sm \in {"IDLE", "RUNNING", "PAUSED"}
  /\ calc \in Calculator
  /\ file \in Known /\ cycleProgram \in Known
  /\ link \in [on : BOOLEAN, parts : Nat, aborts : Nat]
  /\ facts \in Seq({"completed", "aborted", "unknown"})
  /\ up \in BOOLEAN
  /\ subs \in Nat
  /\ run \in Run
  /\ runs \in Seq(EndedRun)

Init ==
  /\ now = 0 /\ sm = "IDLE" /\ up = TRUE
  /\ calc = [cycle |-> NoCycle, carry |-> 0, open |-> FALSE, openProgram |-> NoProgram,
             parts |-> 0, aborts |-> 0, rfhs |-> 0, partials |-> 0, last |-> 0]
  /\ file = NoProgram /\ cycleProgram = NoProgram
  /\ link = [on |-> FALSE, parts |-> 0, aborts |-> 0]
  /\ facts = <<>> /\ runs = <<>> /\ run = NoRun /\ subs = 0

-----------------------------------------------------------------------------
\* CycleTimeCalculator: one operator per method, from calculator to calculator
\* (each name with a suffix is a mutated form of the operator after it)

\* _elapsed_ms_unsafe, with the time carried from the runs before.
Elapsed(c) ==
  (IF c.cycle.paused THEN c.cycle.pauseAt ELSE now)
    - c.cycle.start - c.cycle.pausedFor + c.carry

ClosePart_KeepsCarry(c) == [c EXCEPT !.open = FALSE, !.openProgram = NoProgram]
ClosePart(c) == [c EXCEPT !.carry = 0, !.open = FALSE, !.openProgram = NoProgram]

LeavePartOpen(c, ms) ==
  [c EXCEPT !.carry = ms, !.open = TRUE, !.openProgram = c.cycle.program]

FinalizePartial(c) == ClosePart([c EXCEPT !.partials = @ + 1])

\* The open part is of another program than p.
OtherProgram(c, p) ==
  c.open /\ p # NoProgram /\ c.openProgram # NoProgram /\ p # c.openProgram

\* start_cycle(None, p)
StartCycle(c, p) ==
  LET s == [c EXCEPT !.cycle = [NoCycle EXCEPT !.running = TRUE, !.start = now,
                                               !.program = p]]
  IN  IF c.cycle.running THEN c
      ELSE IF OtherProgram(c, p) THEN FinalizePartial(s) ELSE s

SetProgram_PartKept(c, p) ==
  IF ~c.cycle.running \/ p = NoProgram THEN c ELSE [c EXCEPT !.cycle.program = p]
SetProgram(c, p) ==
  LET s == [c EXCEPT !.cycle.program = p]
  IN  IF ~c.cycle.running \/ p = NoProgram \/ p = c.cycle.program THEN c
      ELSE IF OtherProgram(c, p) THEN FinalizePartial(s) ELSE s

\* classify_start / _classify_unsafe; "unknown": not called yet.
ClassifyStart(c, o) ==
  LET s == [c EXCEPT !.cycle.origin = o]
  IN  IF ~c.cycle.running \/ c.cycle.origin # "unknown" \/ o = "unknown" THEN c
      ELSE IF o = "mid" THEN [s EXCEPT !.rfhs = @ + 1]
      ELSE [(IF s.open THEN FinalizePartial(s) ELSE s) EXCEPT !.carry = 0]

PauseCycle(c) ==
  IF ~c.cycle.running \/ c.cycle.paused THEN c
  ELSE [c EXCEPT !.cycle.pauseAt = now, !.cycle.paused = TRUE]

ResumeCycle_SinceStart(c) ==
  IF ~c.cycle.running \/ ~c.cycle.paused THEN c
  ELSE [c EXCEPT !.cycle.pausedFor = @ + now - c.cycle.start,
                 !.cycle.pauseAt = 0, !.cycle.paused = FALSE]
ResumeCycle(c) ==
  IF ~c.cycle.running \/ ~c.cycle.paused THEN c
  ELSE [c EXCEPT !.cycle.pausedFor = @ + now - c.cycle.pauseAt,
                 !.cycle.pauseAt = 0, !.cycle.paused = FALSE]

\* _resolved_rfh_unsafe
ResolvedMid_Unclassified(c) == c.cycle.origin = "mid"
ResolvedMid(c) ==
  IF c.cycle.origin # "unknown" THEN c.cycle.origin = "mid" ELSE c.open

EndCycle(c) == [c EXCEPT !.cycle = NoCycle]

\* signal_cycle_complete (when the end was reached) and stop_cycle
StopCycle(c, reached) ==
  LET ms == Elapsed(c)
  IN  EndCycle(
        IF ~c.cycle.running \/ (ms < MinValid /\ c.carry = 0) THEN c
        ELSE IF reached THEN ClosePart([c EXCEPT !.parts = @ + 1, !.last = ms])
        ELSE IF ResolvedMid(c) THEN LeavePartOpen(c, ms)
        ELSE LeavePartOpen([c EXCEPT !.aborts = @ + 1], ms))

AbortCycle(c) ==
  IF ~c.cycle.running THEN c
  ELSE EndCycle(LeavePartOpen([c EXCEPT !.aborts = @ + 1], Elapsed(c)))

DropCycle(c) == IF c.cycle.running THEN EndCycle(c) ELSE c

-----------------------------------------------------------------------------
\* The sampling loop

\* The tracker says nothing of a run while it is in a subroutine.
Answers(sub) == IF sub THEN {"unknown"} ELSE Origin

\* ProgramFile.update: a subroutine's file keeps the program seen before.
Shown(p, sub) == IF sub THEN file ELSE p

\* mes_link.start with mes_counts, and mes_link.end with the outcome
LinkStarts_CountsKept(c) == [link EXCEPT !.on = TRUE]
LinkStarts(c) == [on |-> TRUE, parts |-> c.parts, aborts |-> c.aborts]

Outcome(c) ==
  IF c.parts > link.parts THEN "completed"
  ELSE IF c.aborts > link.aborts THEN "aborted" ELSE "unknown"

LinkEnds(outcome) ==
  /\ link' = [link EXCEPT !.on = FALSE]
  /\ facts' = IF link.on THEN Append(facts, outcome) ELSE facts

\* While idle, the operator loads a file (for one more run).
OpensProgram(p) ==
  /\ up /\ sm = "IDLE" /\ Len(runs) < MaxRuns
  /\ file' = p
  /\ UNCHANGED <<now, sm, calc, cycleProgram, link, facts, up, run, subs, runs>>

\* IDLE -> RUNNING.  sub: the run is inside a subroutine already, and what
\* LinuxCNC loaded last may never have been seen.
RunStarts(p, sub, o) ==
  /\ up /\ sm = "IDLE" /\ Len(runs) < MaxRuns
  /\ o \in Answers(sub)
  /\ subs' = IF sub THEN subs + 1 ELSE subs
  /\ subs' <= MaxSubs
  /\ sm' = "RUNNING"
  /\ file' = Shown(p, sub)
  /\ calc' = ClassifyStart(StartCycle(calc, file'), o)
  /\ link' = LinkStarts(calc')
  /\ cycleProgram' = file'
  /\ run' = [program |-> p, began |-> file', known |-> file', inSub |-> sub,
             origin |-> o, active |-> 0]
  /\ UNCHANGED <<now, facts, up, runs>>

\* What every sample of a run that goes on does besides calc.update: the
\* program may show, and is then set.
RunShows(sub, o, c) ==
  /\ sub => run.inSub
  /\ o \in Answers(sub)
  /\ file' = Shown(run.program, sub)
  /\ LET shows == ~sub /\ file' # cycleProgram
     IN  /\ calc' = IF shows THEN SetProgram(c, file') ELSE c
         /\ cycleProgram' = IF shows THEN file' ELSE cycleProgram
         /\ run' = [run EXCEPT !.inSub = sub,
                               !.known = IF shows THEN file' ELSE @,
                               !.origin = IF @ = "unknown" THEN o ELSE @]
  /\ UNCHANGED <<now, link, facts, up, subs, runs>>

RunGoesOn(sub, o) ==
  /\ up /\ sm # "IDLE"
  /\ sm' = sm
  /\ RunShows(sub, o, ClassifyStart(calc, o))

RunPauses(sub, o) ==
  /\ up /\ sm = "RUNNING"
  /\ sm' = "PAUSED"
  /\ RunShows(sub, o, PauseCycle(ClassifyStart(calc, o)))

RunResumes(sub, o) ==
  /\ up /\ sm = "PAUSED"
  /\ sm' = "RUNNING"
  /\ RunShows(sub, o, ResumeCycle(ClassifyStart(calc, o)))

\* MillWright's current_execution.json names the file while the run is still
\* in its first subroutine.
ProgramAdopted ==
  /\ up /\ sm # "IDLE"
  /\ run.inSub /\ cycleProgram # run.program
  /\ calc' = SetProgram(calc, run.program)
  /\ cycleProgram' = run.program /\ file' = run.program
  /\ run' = [run EXCEPT !.known = run.program]
  /\ UNCHANGED <<now, sm, link, facts, up, subs, runs>>

\* The sample that sees the run over: the state machine first, then the link;
\* the program is set in no sample that ends idle.
RunIsOver(sub, o, c, end) ==
  /\ up
  /\ sub => run.inSub
  /\ o \in Answers(sub)
  /\ sm' = "IDLE"
  /\ calc' = c
  /\ LinkEnds(Outcome(c))
  /\ file' = Shown(run.program, sub)
  /\ runs' = Append(runs, [end |-> end,
                           run |-> [run EXCEPT !.inSub = FALSE,
                                      !.origin = IF @ = "unknown" THEN o ELSE @]])
  /\ run' = NoRun
  /\ UNCHANGED <<now, cycleProgram, up, subs>>

\* RUNNING -> IDLE with the machine on.
RunStops(sub, o, reached) ==
  /\ sm = "RUNNING"
  /\ RunIsOver(sub, o, StopCycle(ClassifyStart(calc, o), reached),
               IF reached THEN "reached" ELSE "stopped")

\* E-stop or machine off, or stopped in feed hold.
RunIsCut(sub, o) ==
  /\ sm # "IDLE"
  /\ RunIsOver(sub, o, AbortCycle(ClassifyStart(calc, o)), "cut")

\* _disconnect_linuxcnc
LinuxcncGone ==
  /\ up /\ sm # "IDLE"
  /\ calc' = AbortCycle(calc)
  /\ LinkEnds("unknown")
  /\ sm' = "IDLE" /\ file' = NoProgram
  /\ runs' = Append(runs, [run |-> run, end |-> "gone"])
  /\ run' = NoRun
  /\ UNCHANGED <<now, cycleProgram, up, subs>>

\* "Clean shutdown" during a run: the machine may go on.
AgentStops ==
  /\ up /\ sm # "IDLE"
  /\ up' = FALSE
  /\ calc' = DropCycle(calc)
  /\ LinkEnds("unknown")
  /\ UNCHANGED <<now, sm, file, cycleProgram, run, subs, runs>>

Tick ==
  /\ up /\ sm # "IDLE" /\ now < MaxTime
  /\ now' = now + 1
  /\ run' = IF sm = "RUNNING" THEN [run EXCEPT !.active = @ + 1] ELSE run
  /\ UNCHANGED <<sm, calc, file, cycleProgram, link, facts, up, subs, runs>>

Next ==
  \/ \E p \in Program : OpensProgram(p)
  \/ \E p \in Program, sub \in BOOLEAN, o \in Origin : RunStarts(p, sub, o)
  \/ \E sub \in BOOLEAN, o \in Origin :
       \/ RunGoesOn(sub, o)
       \/ RunPauses(sub, o)
       \/ RunResumes(sub, o)
       \/ \E reached \in BOOLEAN : RunStops(sub, o, reached)
       \/ RunIsCut(sub, o)
  \/ ProgramAdopted
  \/ LinuxcncGone
  \/ AgentStops
  \/ Tick

Spec == Init /\ [][Next]_vars

-----------------------------------------------------------------------------
\* What the runs themselves say: the "Part accounting" of the module's
\* docstring, over a history rs of runs and nothing the calculator keeps.

Differ(p, q) == p # NoProgram /\ q # NoProgram /\ p # q

\* Run r does not go on with the part its predecessors (a set of runs) left:
\* it starts from the top, or another program.
Abandons(rs, r, before) ==
  /\ before # {}
  /\ LET open == rs[Max(before)].run
     IN  r.origin = "top" \/ Differ(open.known, r.began) \/ Differ(open.known, r.known)

Time(rs, S) == MapThenSumSet(LAMBDA i : rs[i].run.active, S)

\* PartAfter(rs)[n]: the runs that made the part that is open after run n.
\* GoesOn(rs, n, S): those of S run n goes on with.
GoesOn(rs, n, S) == IF Abandons(rs, rs[n].run, S) THEN {} ELSE S

Discarded(rs, n, S) ==
  /\ rs[n].end \in {"reached", "stopped"}
  /\ rs[n].run.active < MinValid
  /\ Time(rs, GoesOn(rs, n, S)) = 0

Leaves(rs, n, S) ==
  IF Discarded(rs, n, S) THEN GoesOn(rs, n, S)
  ELSE IF rs[n].end = "reached" THEN {} ELSE GoesOn(rs, n, S) \cup {n}

PartAfter(rs) ==
  LET part[n \in 0..Len(rs)] == IF n = 0 THEN {} ELSE Leaves(rs, n, part[n - 1])
  IN  part

Before(rs, n) == PartAfter(rs)[n - 1]

Abandoning(rs) == {n \in DOMAIN rs : Abandons(rs, rs[n].run, Before(rs, n))}

\* The runs that reached the end, but those too short to count.
Completing(rs) ==
  {n \in DOMAIN rs : rs[n].end = "reached" /\ ~Discarded(rs, n, Before(rs, n))}

\* The runs that were cut short from outside, or stopped early without going
\* on with an open part; a continuation that stops is no abort.
Aborting(rs) ==
  {n \in DOMAIN rs :
     \/ rs[n].end \in {"cut", "gone"}
     \/ /\ rs[n].end = "stopped" /\ ~Discarded(rs, n, Before(rs, n))
        /\ \/ rs[n].run.origin = "top"
           \/ rs[n].run.origin = "unknown" /\ GoesOn(rs, n, Before(rs, n)) = {}}

\* The part that is open, and the present run, which may have abandoned it.
OpenPart(rs) == PartAfter(rs)[Len(rs)]
AbandonsNow == sm # "IDLE" /\ Abandons(runs, run, OpenPart(runs))

\* Every pass through the program is counted once: as a part when a run of it
\* reached the end, as a partial part when it was abandoned, whatever stops,
\* E-stops and late answers came between.
PartsAreCountedOnce ==
  up => /\ calc.parts = Cardinality(Completing(runs))
        /\ calc.partials =
             Cardinality(Abandoning(runs)) + (IF AbandonsNow THEN 1 ELSE 0)

\* A recorded cycle time, and the time carried, is the time the machine worked
\* (pauses left out) in the runs of that part, and of no other.
TimeIsOfThePart ==
  LET done == Completing(runs)
      last == Max(done)
  IN  up => /\ done # {} =>
                 calc.last = Time(runs, GoesOn(runs, last, Before(runs, last)) \cup {last})
            /\ calc.carry = IF AbandonsNow THEN 0 ELSE Time(runs, OpenPart(runs))

\* A run aborts once at most, and a run that goes on with a part and stops
\* again is no abort.
AbortsAreCountedOnce == up => calc.aborts = Cardinality(Aborting(runs))

\* The MES hears of every run once, in order, and its outcome agrees with
\* what the counters made of it.
FactsAgree ==
  /\ Len(facts) = Len(runs) + (IF up THEN 0 ELSE 1)
  /\ \A n \in DOMAIN runs :
       /\ (facts[n] = "completed") = (n \in Completing(runs))
       /\ (facts[n] = "aborted") = (n \in Aborting(runs) /\ runs[n].end # "gone")
=============================================================================
