---------------------------- MODULE CycleMatch ----------------------------
(***************************************************************************)
(* Which of MillWright's runs a cycle of the agent is: match, CycleLink    *)
(* (agent_mes_link.py) and the part of the sampling loop that drives it    *)
(* (status.py, main).                                                      *)
(*                                                                         *)
(* The machine, MillWright and the agent see a run begin at moments of     *)
(* their own.  MillWright writes current_execution.json when it is ready   *)
(* and takes it away when it is ready; the agent reads it at its own cycle *)
(* start, again during the first seconds, and when the program turns out   *)
(* to be another file.  A run is named by its number, which stands for     *)
(* MillWright's execution_id and operator session; 0 is an id the agent    *)
(* made itself.  Time is one clock, in ticks.                              *)
(***************************************************************************)
EXTENDS Integers, Sequences

CONSTANTS
  Program,     \* program files
  NoFile,      \* no file was loaded before
  MatchBefore, MatchAfter, \* MATCH_BEFORE_S, MATCH_AFTER_S, in ticks
  RetryEvery, RetryFor,    \* RETRY_EVERY_S, RETRY_FOR_S, in ticks
  Jitter,      \* MillWright sees a run begin this much later, at most
  MaxRuns,     \* bound: runs of the machine
  MaxTime,     \* bound: ticks
  MaxStalls    \* bound: ticks the loop makes no sample in (a scan it waits for)

ASSUME NoFileAssumption == NoFile \notin Program
ASSUME TimesAssumption ==
  /\ MatchBefore \in Nat \ {0} /\ MatchAfter \in Nat
  /\ RetryEvery \in Nat \ {0} /\ RetryFor \in Nat
  /\ Jitter \in 0..MatchAfter
  /\ MaxRuns \in Nat /\ MaxTime \in Nat /\ MaxStalls \in Nat

VARIABLES
  now,
  runs,    \* the runs of the machine: program, start
  busy,    \* the last of them is going on
  inSub,   \* and inside a subroutine, so LinuxCNC names the subroutine's file
  saw,     \* what MillWright knows of a run it will write: run, started
  doc,     \* current_execution.json: run, started, written (history)
  file,    \* ProgramFile.program
  cycle,   \* CycleLink.cycle
  facts,   \* what end() put into the queue
  sampled, \* the loop made a sample in this tick
  stalls, stalled  \* history: ticks without one, ever and since the cycle's run began

vars == <<now, runs, busy, inSub, saw, doc, file, cycle, facts, sampled, stalls, stalled>>
clock == <<now, sampled, stalls, stalled>>
machine == <<runs, busy, inSub>>
millwright == <<saw, doc>>
agent == <<file, cycle, facts>>

Known == Program \cup {NoFile}
Method == {"none", "explicit", "time_window"}
RunNo == 0..MaxRuns
Nobody == [run |-> 0, started |-> 0]
NoDoc == [run |-> 0, started |-> 0, written |-> 0]
\* run, sure (history): the run that went on when the cycle began, and that an
\* id was found by the program as it is, which the agent knew.
NoCycle == [run |-> 0, started |-> 0, program |-> NoFile, id |-> 0, method |-> "none",
            next |-> 0, uncertain |-> FALSE, sure |-> FALSE]
Cycle == [run : RunNo, started : Nat, program : Known, id : RunNo, method : Method,
          next : Nat, uncertain : BOOLEAN, sure : BOOLEAN]

TypeOK ==
  /\ now \in Nat /\ stalls \in 0..MaxStalls
  /\ runs \in Seq([program : Program, start : Nat]) /\ Len(runs) <= MaxRuns
  /\ busy \in BOOLEAN /\ inSub \in BOOLEAN /\ sampled \in BOOLEAN /\ stalled \in BOOLEAN
  /\ saw \in [run : RunNo, started : Nat]
  /\ doc \in [run : RunNo, started : Nat, written : Nat]
  /\ file \in Known
  /\ cycle \in Cycle
  /\ facts \in Seq(Cycle)

Init ==
  /\ now = 0 /\ runs = <<>> /\ busy = FALSE /\ inSub = FALSE
  /\ saw = Nobody /\ doc = NoDoc
  /\ file = NoFile /\ cycle = NoCycle /\ facts = <<>>
  /\ sampled = FALSE /\ stalls = 0 /\ stalled = FALSE

-----------------------------------------------------------------------------
\* The machine (external).  A program may begin with a subroutine, and be
\* inside it before anyone saw its file.

RunBegins(p, sub) ==
  /\ ~busy /\ Len(runs) < MaxRuns
  /\ runs' = Append(runs, [program |-> p, start |-> now])
  /\ busy' = TRUE /\ inSub' = sub
  /\ stalled' = (stalled /\ cycle.run # 0)
  /\ UNCHANGED <<now, sampled, stalls, millwright, agent>>

SubReturns ==
  /\ busy /\ inSub
  /\ inSub' = FALSE
  /\ UNCHANGED <<clock, runs, busy, millwright, agent>>

RunEnds ==
  /\ busy
  /\ busy' = FALSE /\ inSub' = FALSE
  /\ UNCHANGED <<clock, runs, millwright, agent>>

-----------------------------------------------------------------------------
\* MillWright (external): it notes when it saw the run, writes the document
\* when its hashes are done, and removes it after the run.

MillWrightSees ==
  /\ busy /\ saw.run # Len(runs)
  /\ now - runs[Len(runs)].start <= Jitter
  /\ saw' = [run |-> Len(runs), started |-> now]
  /\ UNCHANGED <<clock, machine, doc, agent>>

MillWrightWrites ==
  /\ saw.run # 0 /\ saw.run # doc.run
  /\ busy /\ saw.run = Len(runs)
  /\ doc' = [run |-> saw.run, started |-> saw.started, written |-> now]
  /\ UNCHANGED <<clock, machine, saw, agent>>

MillWrightRemoves ==
  /\ doc.run # 0 /\ ~(busy /\ doc.run = Len(runs))
  /\ doc' = NoDoc
  /\ UNCHANGED <<clock, machine, saw, agent>>

-----------------------------------------------------------------------------
\* match and CycleLink: from cycle to cycle
\* (each name with a suffix is a mutated form of the operator after it)

StartedNear_Now(c) == doc.started - now \in -MatchBefore..MatchAfter
StartedNear(c) == doc.started - c.started \in -MatchBefore..MatchAfter

Matches(c) == doc.run # 0 /\ StartedNear(c)
Names(f) == doc.run # 0 /\ runs[doc.run].program = f

\* _try: by the file; by the start alone while the program is not known.
Try(c) ==
  IF Matches(c) /\ Names(c.program)
    THEN [c EXCEPT !.id = doc.run, !.method = "explicit", !.sure = ~c.uncertain]
  ELSE IF Matches(c) /\ c.uncertain
    THEN [c EXCEPT !.id = doc.run, !.method = "time_window",
                   !.program = runs[doc.run].program]
  ELSE c

Start(f, uncertain) ==
  Try([run |-> Len(runs), started |-> now, program |-> f, id |-> 0, method |-> "none",
       next |-> now + RetryEvery, uncertain |-> uncertain, sure |-> FALSE])

Due_ForShort(c) ==
  c.method = "none" /\ now >= c.next /\ now - c.started <= RetryFor
Due(c) ==
  /\ c.method = "none"
  /\ now >= c.next /\ now - c.started <= RetryFor + RetryEvery

Poll(c) == IF Due(c) THEN Try([c EXCEPT !.next = now + RetryEvery]) ELSE c

SetProgram(c, f) ==
  LET known == [c EXCEPT !.program = f, !.uncertain = FALSE, !.sure = FALSE]
  IN  IF f = c.program THEN c
      ELSE IF c.method # "explicit" THEN Try(known) ELSE known

Adopted(c) == IF c.method = "time_window" THEN c.program ELSE NoFile

-----------------------------------------------------------------------------
\* The sampling loop

Shown == IF inSub \/ ~busy THEN file ELSE runs[Len(runs)].program

\* The adopted program is the loop's program too.
Becomes(c) ==
  /\ cycle' = c
  /\ file' = IF Adopted(c) # NoFile THEN Adopted(c) ELSE Shown

\* IDLE -> RUNNING
CycleBegins ==
  /\ busy /\ cycle.run = 0
  /\ Becomes(Start(Shown, inSub))
  /\ sampled' = TRUE
  /\ UNCHANGED <<now, stalls, stalled, machine, millwright, facts>>

\* A sample of a cycle that goes on: poll; then the program, if it shows for
\* the first time.
CycleGoesOn ==
  /\ busy /\ cycle.run # 0
  /\ LET c == Poll(cycle)
     IN  Becomes(IF ~inSub /\ Shown # cycle.program THEN SetProgram(c, Shown) ELSE c)
  /\ sampled' = TRUE
  /\ UNCHANGED <<now, stalls, stalled, machine, millwright, facts>>

CycleEnds ==
  /\ ~busy /\ cycle.run # 0
  /\ facts' = Append(facts, cycle)
  /\ cycle' = NoCycle
  /\ sampled' = TRUE /\ stalled' = FALSE
  /\ UNCHANGED <<now, stalls, machine, millwright, file>>

\* Every tick has a sample of a cycle, or of a run, in it, or the loop stalls.
Tick ==
  /\ now < MaxTime
  /\ now' = now + 1
  /\ sampled' = FALSE
  /\ IF sampled \/ (~busy /\ cycle.run = 0)
       THEN UNCHANGED <<stalls, stalled>>
       ELSE stalls < MaxStalls /\ stalls' = stalls + 1 /\ stalled' = TRUE
  /\ UNCHANGED <<machine, millwright, agent>>

Next ==
  \/ \E p \in Program, sub \in BOOLEAN : RunBegins(p, sub)
  \/ SubReturns
  \/ RunEnds
  \/ MillWrightSees
  \/ MillWrightWrites
  \/ MillWrightRemoves
  \/ CycleBegins
  \/ CycleGoesOn
  \/ CycleEnds
  \/ Tick

Spec == Init /\ [][Next]_vars

-----------------------------------------------------------------------------
\* Properties

Cycles == {cycle} \cup {facts[i] : i \in DOMAIN facts}

\* The start of a cycle is near enough to that of run n, as the machine made
\* it, for the two to be taken for one.
Near(c, n) ==
  runs[n].start \in (c.started - MatchBefore - Jitter)..(c.started + MatchAfter)

\* A cycle carries the id (and operator) of a run only if that run began within
\* the window of its start, whenever the document was read, and however long
\* it stays; and, found by a file the agent was sure of, only if the run is of
\* the program the cycle is said to be of.  So two cycles that begin further
\* apart than the windows never share an id.
IdsAreNear ==
  \A c \in Cycles :
    c.id # 0 => Near(c, c.id) /\ (c.sure => runs[c.id].program = c.program)

\* "Read again every 0.5 s during the first 3 s": in a loop that makes its
\* samples, a cycle whose own document was written by then, and names its
\* program (or the program is not known), has found it.
ShownIsFound ==
  \/ cycle.run = 0 \/ doc.run # cycle.run \/ stalled
  \/ doc.written > cycle.started + RetryFor
  \/ ~(Names(cycle.program) \/ cycle.uncertain)
  \/ now <= doc.written + RetryEvery
  \/ cycle.id # 0
=============================================================================
