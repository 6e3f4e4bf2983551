------------------------- MODULE CycleMatchProofs -------------------------
(***************************************************************************)
(* Proofs about CycleMatch, for all programs, windows, retries and jitter, *)
(* and any number of runs, ticks and stalls.                               *)
(*                                                                         *)
(* IdsAreNear is not inductive: it needs that what MillWright knows and    *)
(* wrote of a run is of the moment the run began (Documented), however     *)
(* late it is written or taken away.                                       *)
(*                                                                         *)
(* ShownIsFound needs when the next try is due and that none was made      *)
(* since the document stands there (Timely).                               *)
(***************************************************************************)
EXTENDS CycleMatch, SequenceTheorems, TLAPS

\* A start MillWright noted is at most Jitter after that of the run.
Noted(n, started) == n # 0 => n <= Len(runs) /\ started - runs[n].start \in 0..Jitter

Documented ==
  /\ busy => Len(runs) # 0
  /\ \A n \in 1..Len(runs) : runs[n].start <= now
  /\ Noted(saw.run, saw.started)
  /\ Noted(doc.run, doc.started)

Run == [program : Program, start : Nat]

\* What an id on a cycle says, whichever run the cycle is of.
IdStands(c) ==
  c.id # 0 => /\ c.id <= Len(runs)
              /\ Near(c, c.id)
              /\ c.sure => runs[c.id].program = c.program

IdsStand == \A c \in Cycles : IdStands(c)

IInv == TypeOK /\ Documented /\ IdsStand

LEMMA NoCycleTyped == NoCycle \in Cycle /\ NoCycle.id = 0
  BY TimesAssumption DEF NoCycle, Cycle, RunNo, Known, Method

LEMMA InitInv == Init => IInv
<1> SUFFICES ASSUME Init PROVE IInv
  OBVIOUS
<1>1. TypeOK
  <2>1. runs \in Seq(Run) /\ Len(runs) = 0 /\ facts \in Seq(Cycle)
    BY EmptySeq DEF Init
  <2>2. /\ saw \in [run : RunNo, started : Nat] /\ Len(runs) <= MaxRuns
        /\ doc \in [run : RunNo, started : Nat, written : Nat]
    BY <2>1, TimesAssumption DEF Init, Nobody, NoDoc, RunNo
  <2>3. now \in Nat /\ stalls \in 0..MaxStalls
    BY TimesAssumption DEF Init
  <2> QED
    BY <2>1, <2>2, <2>3, NoCycleTyped DEF Init, TypeOK, Run, Known
<1>2. Documented
  BY DEF Init, Documented, Noted, Nobody, NoDoc
<1>3. IdsStand
  BY NoCycleTyped DEF Init, IdsStand, Cycles, IdStands
<1> QED
  BY <1>1, <1>2, <1>3 DEF IInv

-----------------------------------------------------------------------------
\* What the runs are does not change with those that follow.

Goes == UNCHANGED runs \/ \E p \in Program, sub \in BOOLEAN : RunBegins(p, sub)

LEMMA RunsGrow ==
  ASSUME TypeOK, Goes
  PROVE  /\ runs' \in Seq(Run) /\ Len(runs') \in Nat /\ Len(runs) <= Len(runs')
         /\ Len(runs') <= MaxRuns
         /\ \A n \in 1..Len(runs) : runs'[n] = runs[n]
         /\ \A n \in 1..Len(runs') : n <= Len(runs) \/ runs'[n].start = now
<1>1. runs \in Seq(Run) /\ Len(runs) \in Nat /\ Len(runs) <= MaxRuns
  BY DEF TypeOK, Run
<1>2. ASSUME NEW p \in Program, NEW sub \in BOOLEAN, RunBegins(p, sub)
      PROVE  /\ runs' \in Seq(Run) /\ Len(runs') = Len(runs) + 1
             /\ Len(runs) < MaxRuns
             /\ \A n \in 1..Len(runs) : runs'[n] = runs[n]
             /\ runs'[Len(runs) + 1].start = now
  <2> DEFINE r == [program |-> p, start |-> now]
  <2>1. r \in Run /\ r.start = now
    BY DEF Run, TypeOK
  <2>2. runs' = Append(runs, r) /\ Len(runs) < MaxRuns
    BY <1>2 DEF RunBegins
  <2> QED
    BY <1>1, <2>1, <2>2, AppendProperties
<1> QED
  BY <1>1, <1>2, TimesAssumption DEF Goes

LEMMA RunTyped ==
  ASSUME TypeOK, NEW n \in 1..Len(runs)
  PROVE  runs[n].start \in Nat /\ runs[n].program \in Program
<1>1. runs[n] \in Run
  BY ElementOfSeq DEF TypeOK, Run
<1> QED
  BY <1>1 DEF Run

LEMMA NotedStays ==
  ASSUME TypeOK, Goes, NEW n \in RunNo, NEW started \in Nat, Noted(n, started)
  PROVE  Noted(n, started)'
<1>1. /\ Len(runs) <= Len(runs') /\ Len(runs') \in Nat
      /\ \A k \in 1..Len(runs) : runs'[k] = runs[k]
  BY RunsGrow
<1>2. n \in Nat /\ Len(runs) \in Nat
  BY TimesAssumption, LenProperties DEF RunNo, TypeOK
<1>3. CASE n # 0
  <2>1. n \in 1..Len(runs)
    BY <1>2, <1>3 DEF Noted
  <2> QED
    BY <1>1, <1>2, <2>1 DEF Noted
<1> QED
  BY <1>3 DEF Noted

LEMMA IdStandsOn ==
  ASSUME TypeOK, Goes, NEW c \in Cycle, IdStands(c)
  PROVE  IdStands(c)'
<1>1. c.id \in RunNo
  BY DEF Cycle
<1>2. CASE c.id = 0
  BY <1>2 DEF IdStands
<1>3. CASE c.id # 0
  <2>1. c.id \in 1..Len(runs) /\ Near(c, c.id)
        /\ (c.sure => runs[c.id].program = c.program)
    BY <1>1, <1>3, TimesAssumption DEF IdStands, RunNo, TypeOK
  <2>2. runs'[c.id] = runs[c.id] /\ c.id <= Len(runs')
    BY <2>1, RunsGrow DEF TypeOK
  <2> QED
    BY <2>1, <2>2 DEF IdStands, Near
<1> QED
  BY <1>2, <1>3

LEMMA CyclesTyped == ASSUME TypeOK PROVE Cycles \subseteq Cycle
  BY DEF TypeOK, Cycles

\* The machine, MillWright and the clock leave the cycles alone.
LEMMA OthersInv ==
  ASSUME IInv,
         \/ \E p \in Program, sub \in BOOLEAN : RunBegins(p, sub)
         \/ SubReturns \/ RunEnds
         \/ MillWrightSees \/ MillWrightWrites \/ MillWrightRemoves \/ Tick
  PROVE  IInv'
<1> USE DEF IInv, clock, machine, millwright, agent
<1>1. Goes
  BY DEF Goes, SubReturns, RunEnds, MillWrightSees, MillWrightWrites, MillWrightRemoves, Tick
<1>2. UNCHANGED agent
  BY DEF RunBegins, SubReturns, RunEnds, MillWrightSees, MillWrightWrites,
         MillWrightRemoves, Tick
<1>3. IdsStand'
  BY <1>1, <1>2, IdStandsOn, CyclesTyped DEF IdsStand, Cycles
<1>4. CASE \E p \in Program, sub \in BOOLEAN : RunBegins(p, sub)
  <2>1. TypeOK'
    BY <1>1, <1>4, RunsGrow DEF RunBegins, TypeOK, Run
  <2>2. Documented'
    <3>1. \A n \in 1..Len(runs') : runs'[n].start <= now
      BY <1>1, RunsGrow DEF Documented, TypeOK
    <3> QED
      BY <1>1, <1>4, <3>1, NotedStays DEF RunBegins, TypeOK, Documented
  <2> QED
    BY <1>3, <2>1, <2>2
<1>5. CASE SubReturns \/ RunEnds
  BY <1>3, <1>5 DEF SubReturns, RunEnds, TypeOK, Documented, Noted
<1>6. CASE MillWrightSees
  <2>1. Len(runs) # 0 => runs[Len(runs)].start \in Nat /\ runs[Len(runs)].start <= now
    BY RunTyped DEF TypeOK, Documented
  <2>2. Len(runs) \in RunNo
    BY TimesAssumption DEF TypeOK, RunNo
  <2>3. CASE Len(runs) = 0
    BY <1>3, <1>6, <2>2, <2>3 DEF MillWrightSees, TypeOK, Documented, Noted
  <2>4. CASE Len(runs) # 0
    <3>1. now - runs[Len(runs)].start \in 0..Jitter
      <4>1. now \in Nat /\ Jitter \in Nat /\ now - runs[Len(runs)].start <= Jitter
        BY <1>6, TimesAssumption DEF MillWrightSees, TypeOK
      <4> QED
        BY <2>1, <2>4, <4>1
    <3> QED
      BY <1>3, <1>6, <2>2, <3>1 DEF MillWrightSees, TypeOK, Documented, Noted
  <2> QED
    BY <2>3, <2>4
<1>7. CASE MillWrightWrites
  BY <1>3, <1>7 DEF MillWrightWrites, TypeOK, Documented, Noted
<1>8. CASE MillWrightRemoves
  BY <1>3, <1>8, TimesAssumption
  DEF MillWrightRemoves, TypeOK, Documented, Noted, NoDoc, RunNo
<1>9. CASE Tick
  <2>1. TypeOK'
    <3>1. now' \in Nat /\ stalls' \in 0..MaxStalls /\ stalled' \in BOOLEAN
      <4>1. now' = now + 1 /\ now \in Nat /\ stalls \in 0..MaxStalls /\ stalled \in BOOLEAN
        BY <1>9 DEF Tick, TypeOK
      <4>2. \/ stalls' = stalls /\ stalled' = stalled
            \/ stalls < MaxStalls /\ stalls' = stalls + 1 /\ stalled' = TRUE
        BY <1>9 DEF Tick
      <4>3. stalled' \in BOOLEAN
        BY <4>1, <4>2
      <4>4. now' \in Nat /\ stalls' \in 0..MaxStalls
        BY <4>1, <4>2, TimesAssumption
      <4> QED
        BY <4>3, <4>4
    <3> QED
      BY <1>9, <3>1 DEF Tick, TypeOK
  <2>2. Documented'
    <3>1. now' = now + 1 /\ now \in Nat /\ UNCHANGED <<runs, busy, saw, doc>>
      BY <1>9 DEF Tick, TypeOK
    <3>2. \A n \in 1..Len(runs) : runs[n].start <= now'
      <4>1. \A n \in 1..Len(runs) : runs[n].start \in Nat /\ runs[n].start <= now
        BY RunTyped DEF TypeOK, Documented
      <4> QED
        BY <3>1, <4>1
    <3> QED
      BY <3>1, <3>2 DEF Documented, Noted
  <2> QED
    BY <1>3, <2>1, <2>2
<1> QED
  BY <1>4, <1>5, <1>6, <1>7, <1>8, <1>9

-----------------------------------------------------------------------------
\* The agent: what it finds, it finds within the windows.

\* A document that matches a cycle by its start is of a run near it.
LEMMA MatchIsNear ==
  ASSUME TypeOK, Documented, NEW c, c.started \in Nat, Matches(c)
  PROVE  /\ doc.run \in 1..Len(runs) /\ Near(c, doc.run)
         /\ doc.run # 0 /\ doc.run <= Len(runs) /\ runs[doc.run].program \in Program
<1>1. doc.run \in 1..Len(runs)
  BY DEF Matches, Documented, Noted, TypeOK, RunNo
<1>2. runs[doc.run].start \in Nat /\ runs[doc.run].program \in Program
  BY <1>1, RunTyped
<1>3. /\ doc.started - c.started \in -MatchBefore..MatchAfter
      /\ doc.started - runs[doc.run].start \in 0..Jitter
      /\ doc.started \in Nat
  BY <1>1 DEF Matches, StartedNear, Documented, Noted, TypeOK
<1>4. Near(c, doc.run)
  BY <1>2, <1>3, TimesAssumption DEF Near
<1> QED
  BY <1>1, <1>2, <1>4

LEMMA TryStands ==
  ASSUME TypeOK, Documented, NEW c \in Cycle, IdStands(c)
  PROVE  Try(c) \in Cycle /\ IdStands(Try(c))
<1>0. c.started \in Nat /\ doc.run \in RunNo
  BY DEF Cycle, TypeOK
<1>1. CASE Matches(c) /\ Names(c.program)
  <2> DEFINE d == [c EXCEPT !.id = doc.run, !.method = "explicit", !.sure = ~c.uncertain]
  <2>1. Try(c) = d
    BY <1>1 DEF Try
  <2>2. d \in Cycle
    BY <1>0 DEF Cycle, Method
  <2>3. d.id = doc.run /\ d.started = c.started /\ d.program = c.program
    BY DEF Cycle
  <2>4. IdStands(d)
    BY <1>0, <1>1, <2>3, MatchIsNear DEF IdStands, Near, Names
  <2> QED
    BY <2>1, <2>2, <2>4
<1>2. CASE ~(Matches(c) /\ Names(c.program)) /\ Matches(c) /\ c.uncertain
  <2> DEFINE d == [c EXCEPT !.id = doc.run, !.method = "time_window",
                            !.program = runs[doc.run].program]
  <2>1. Try(c) = d
    BY <1>2 DEF Try
  <2>2. d \in Cycle
    BY <1>0, <1>2, MatchIsNear DEF Cycle, Method, Known
  <2>3. /\ d.id = doc.run /\ d.started = c.started
        /\ d.program = runs[doc.run].program
    BY DEF Cycle
  <2>4. IdStands(d)
    BY <1>0, <1>2, <2>3, MatchIsNear DEF IdStands, Near
  <2> QED
    BY <2>1, <2>2, <2>4
<1>3. CASE ~(Matches(c) /\ Names(c.program)) /\ ~(Matches(c) /\ c.uncertain)
  BY <1>3 DEF Try
<1> QED
  BY <1>1, <1>2, <1>3

LEMMA StartStands ==
  ASSUME TypeOK, Documented, NEW f \in Known, NEW u \in BOOLEAN
  PROVE  Start(f, u) \in Cycle /\ IdStands(Start(f, u))
<1> DEFINE c == [run |-> Len(runs), started |-> now, program |-> f, id |-> 0,
                 method |-> "none", next |-> now + RetryEvery, uncertain |-> u,
                 sure |-> FALSE]
<1>1. c \in Cycle
  BY TimesAssumption DEF TypeOK, Cycle, RunNo, Method
<1>2. IdStands(c)
  BY DEF IdStands
<1> QED
  BY <1>1, <1>2, TryStands DEF Start

LEMMA PollStands ==
  ASSUME TypeOK, Documented, NEW c \in Cycle, IdStands(c)
  PROVE  Poll(c) \in Cycle /\ IdStands(Poll(c))
<1> DEFINE d == [c EXCEPT !.next = now + RetryEvery]
<1>1. d \in Cycle
  <2>1. now + RetryEvery \in Nat
    BY TimesAssumption DEF TypeOK
  <2> QED
    BY <2>1 DEF Cycle
<1>2. d.id = c.id /\ d.sure = c.sure /\ d.program = c.program /\ d.started = c.started
  BY DEF Cycle
<1>3. IdStands(d)
  BY <1>2 DEF IdStands, Near
<1> QED
  BY <1>1, <1>3, TryStands DEF Poll

LEMMA SetProgramStands ==
  ASSUME TypeOK, Documented, NEW c \in Cycle, IdStands(c), NEW f \in Known
  PROVE  SetProgram(c, f) \in Cycle /\ IdStands(SetProgram(c, f))
<1> DEFINE d == [c EXCEPT !.program = f, !.uncertain = FALSE, !.sure = FALSE]
<1>1. d \in Cycle
  BY DEF Cycle
<1>2. d.id = c.id /\ d.sure = FALSE /\ d.started = c.started
  BY DEF Cycle
<1>3. IdStands(d)
  BY <1>2 DEF IdStands, Near
<1> QED
  BY <1>1, <1>3, TryStands DEF SetProgram

LEMMA ShownTyped == ASSUME TypeOK, busy => Len(runs) # 0 PROVE Shown \in Known
  BY RunTyped DEF TypeOK, Shown, Known

LEMMA AgentInv ==
  ASSUME IInv, CycleBegins \/ CycleGoesOn \/ CycleEnds PROVE IInv'
<1> USE DEF IInv, machine, millwright
<1>1. Documented'
  BY DEF CycleBegins, CycleGoesOn, CycleEnds, Documented, Noted
<1>2. \A c \in Cycle : IdStands(c)' <=> IdStands(c)
  BY DEF CycleBegins, CycleGoesOn, CycleEnds, IdStands, Near
<1>3. ASSUME NEW c \in Cycle, IdStands(c), Becomes(c), UNCHANGED facts
      PROVE  IdsStand' /\ cycle' \in Cycle
  <2>1. cycle' = c /\ facts' = facts
    BY <1>3 DEF Becomes
  <2>2. Cycles' \subseteq Cycles \cup {c} /\ Cycles \cup {c} \subseteq Cycle
    BY <2>1, CyclesTyped DEF Cycles
  <2>3. \A d \in Cycles \cup {c} : IdStands(d)'
    BY <1>2, <1>3, <2>2 DEF IdsStand
  <2> QED
    BY <2>1, <2>2, <2>3 DEF IdsStand
<1>4. Shown \in Known
  BY ShownTyped DEF Documented
<1>5. CASE CycleBegins
  <2> DEFINE c == Start(Shown, inSub)
  <2>1. c \in Cycle /\ IdStands(c)
    BY <1>4, StartStands DEF TypeOK
  <2>2. IdsStand' /\ cycle' \in Cycle /\ file' \in Known
    BY <1>3, <1>4, <1>5, <2>1 DEF CycleBegins, Becomes, Adopted, Cycle
  <2> QED
    BY <1>1, <1>5, <2>2 DEF CycleBegins, TypeOK
<1>6. CASE CycleGoesOn
  <2> DEFINE c == Poll(cycle)
             d == IF ~inSub /\ Shown # cycle.program THEN SetProgram(c, Shown) ELSE c
  <2>1. cycle \in Cycle /\ IdStands(cycle)
    BY DEF TypeOK, IdsStand, Cycles
  <2>2. c \in Cycle /\ IdStands(c)
    BY <2>1, PollStands
  <2>3. d \in Cycle /\ IdStands(d)
    BY <1>4, <2>2, SetProgramStands
  <2>4. Becomes(d)
    BY <1>6 DEF CycleGoesOn
  <2>5. IdsStand' /\ cycle' \in Cycle
    BY <1>3, <1>6, <2>3, <2>4 DEF CycleGoesOn
  <2>6. file' \in Known
    BY <1>4, <2>3, <2>4 DEF Becomes, Adopted, Cycle
  <2> QED
    BY <1>1, <1>6, <2>5, <2>6 DEF CycleGoesOn, TypeOK
<1>7. CASE CycleEnds
  <2>1. cycle \in Cycle /\ facts \in Seq(Cycle)
    BY DEF TypeOK
  <2>2. facts' = Append(facts, cycle) /\ cycle' = NoCycle
    BY <1>7 DEF CycleEnds
  <2>3. facts' \in Seq(Cycle)
    BY <2>1, <2>2
  <2>4. Cycles' \subseteq Cycles \cup {NoCycle}
    <3>1. Len(facts') = Len(facts) + 1 /\ Len(facts) \in Nat
      BY <2>1, <2>2, AppendProperties
    <3>2. \A i \in 1..Len(facts) : facts'[i] = facts[i]
      BY <2>1, <2>2, AppendProperties
    <3>3. facts'[Len(facts) + 1] = cycle
      BY <2>1, <2>2, AppendProperties
    <3>4. DOMAIN facts' = 1..(Len(facts) + 1) /\ DOMAIN facts = 1..Len(facts)
      BY <2>1, <2>3, <3>1
    <3>5. \A i \in 1..(Len(facts) + 1) : i \in 1..Len(facts) \/ i = Len(facts) + 1
      BY <3>1
    <3> QED
      BY <2>2, <3>2, <3>3, <3>4, <3>5 DEF Cycles
  <2>5. \A c \in Cycles \cup {NoCycle} : c \in Cycle /\ IdStands(c)
    BY CyclesTyped, NoCycleTyped DEF IdsStand, IdStands
  <2>6. IdsStand'
    BY <1>2, <2>4, <2>5 DEF IdsStand
  <2> QED
    BY <1>1, <1>7, <2>2, <2>3, <2>6, NoCycleTyped DEF CycleEnds, TypeOK
<1> QED
  BY <1>5, <1>6, <1>7

-----------------------------------------------------------------------------
LEMMA InvStep == IInv /\ [Next]_vars => IInv'
<1> SUFFICES ASSUME IInv, [Next]_vars PROVE IInv'
  OBVIOUS
<1>1. CASE Next
  BY <1>1, OthersInv, AgentInv DEF Next
<1>2. CASE UNCHANGED vars
  BY <1>2 DEF IInv, TypeOK, Documented, Noted, IdsStand, Cycles, IdStands, Near, vars
<1> QED
  BY <1>1, <1>2

\* The link's state keeps its types.
THEOREM SpecTypeOK == Spec => []TypeOK
<1>1. IInv => TypeOK
  BY DEF IInv
<1> QED
  BY <1>1, InitInv, InvStep, PTL DEF Spec

\* A cycle carries the id only of a run that began within the windows of its
\* own start and, where the agent knew its program, of a run of that program.
THEOREM SpecIdsAreNear == Spec => []IdsAreNear
<1>1. IInv => IdsAreNear
  BY DEF IInv, IdsStand, IdStands, IdsAreNear
<1> QED
  BY <1>1, InitInv, InvStep, PTL DEF Spec

-----------------------------------------------------------------------------
\* What is shown is found

\* A cycle is of a run there is, and has an id when a method found it.
Linked(c) == c.run <= Len(runs) /\ (c.id = 0 <=> c.method = "none")

\* A cycle seen to begin at once, whose document is not found, is tried again
\* in time: the next try is due within RetryEvery, not overdue by more than
\* the sample that is to come (early), or was not due any more; and no try was
\* made since a document stands there that would be found.
Prompt(c, early) ==
  /\ c.started - runs[c.run].start \in 0..1
  /\ c.id = 0 =>
       /\ c.next <= now + RetryEvery
       /\ c.next >= now + early \/ c.next > c.started + RetryFor + RetryEvery
       /\ doc.run = c.run /\ (Names(c.program) \/ c.uncertain)
            => c.next <= doc.written + RetryEvery

Timely ==
  /\ Linked(cycle)
  /\ busy /\ cycle.run = 0 /\ ~stalled =>
       now <= runs[Len(runs)].start + (IF sampled THEN 0 ELSE 1)
  /\ cycle.run # 0 /\ ~stalled => Prompt(cycle, IF sampled THEN 1 ELSE 0)

LEMMA InitTimely == Init => Timely
  BY DEF Init, Timely, Linked, NoCycle

LEMMA PromptThenFound == ASSUME IInv, Timely PROVE ShownIsFound
<1>1. /\ cycle.started \in Nat /\ cycle.next \in Nat /\ doc.written \in Nat /\ now \in Nat
      /\ RetryEvery \in Nat /\ RetryFor \in Nat
  BY TimesAssumption DEF IInv, TypeOK, Cycle
<1> SUFFICES ASSUME cycle.run # 0, doc.run = cycle.run, ~stalled,
                    ~(doc.written > cycle.started + RetryFor),
                    Names(cycle.program) \/ cycle.uncertain,
                    ~(now <= doc.written + RetryEvery), cycle.id = 0
             PROVE  FALSE
  BY DEF ShownIsFound
<1>2. /\ cycle.next >= now \/ cycle.next > cycle.started + RetryFor + RetryEvery
      /\ cycle.next <= doc.written + RetryEvery
  BY <1>1 DEF Timely, Prompt
<1> QED
  BY <1>1, <1>2

LEMMA OwnDocMatches ==
  ASSUME TypeOK, Documented, NEW c \in Cycle, c.run # 0, doc.run = c.run,
         c.started - runs[c.run].start \in 0..1
  PROVE  Matches(c)
<1>1. doc.run \in 1..Len(runs) /\ doc.started - runs[doc.run].start \in 0..Jitter
  BY TimesAssumption DEF Documented, Noted, TypeOK, RunNo
<1>2. runs[doc.run].start \in Nat /\ doc.started \in Nat /\ c.started \in Nat
  BY <1>1, RunTyped DEF TypeOK, Cycle
<1>3. ASSUME NEW s \in Nat, NEW d \in Nat, NEW b \in Nat, d - s \in 0..Jitter, b - s \in 0..1
      PROVE  d - b \in -MatchBefore..MatchAfter
  <2>1. /\ Jitter \in Nat /\ Jitter <= MatchAfter /\ MatchAfter \in Nat
        /\ MatchBefore \in Nat /\ MatchBefore >= 1
    BY TimesAssumption
  <2>2. d - b \in Int /\ d - b <= Jitter /\ d - b >= -1
    BY <1>3, <2>1
  <2>3. d - b <= MatchAfter
    BY <2>1, <2>2
  <2>4. -MatchBefore \in Int /\ -MatchBefore <= -1
    BY <2>1
  <2>5. d - b >= -MatchBefore
    BY <2>2, <2>4
  <2> QED
    BY <2>1, <2>2, <2>3, <2>4, <2>5
<1>4. doc.started - c.started \in -MatchBefore..MatchAfter
  BY <1>1, <1>2, <1>3
<1> QED
  BY <1>4 DEF Matches, StartedNear

\* A try finds the document that is there, or changes nothing.
LEMMA TryFinds ==
  ASSUME TypeOK, NEW c \in Cycle
  PROVE  /\ Try(c).run = c.run /\ Try(c).started = c.started
         /\ Linked(c) => Linked(Try(c))
         /\ Try(c).id = 0 => Try(c) = c /\ ~(Matches(c) /\ (Names(c.program) \/ c.uncertain))
<1>0. doc.run \in Nat
  BY TimesAssumption DEF TypeOK, RunNo
<1>1. CASE Matches(c) /\ Names(c.program)
  <2> DEFINE d == [c EXCEPT !.id = doc.run, !.method = "explicit", !.sure = ~c.uncertain]
  <2>1. Try(c) = d /\ doc.run # 0
    BY <1>1 DEF Try, Matches
  <2>2. d.run = c.run /\ d.started = c.started /\ d.id = doc.run /\ d.method = "explicit"
    BY DEF Cycle
  <2> QED
    BY <2>1, <2>2 DEF Linked
<1>2. CASE Matches(c) /\ ~Names(c.program) /\ c.uncertain
  <2> DEFINE d == [c EXCEPT !.id = doc.run, !.method = "time_window",
                            !.program = runs[doc.run].program]
  <2>1. Try(c) = d /\ doc.run # 0
    BY <1>2 DEF Try, Matches
  <2>2. d.run = c.run /\ d.started = c.started /\ d.id = doc.run /\ d.method = "time_window"
    BY DEF Cycle
  <2> QED
    BY <2>1, <2>2 DEF Linked
<1>3. CASE ~(Matches(c) /\ (Names(c.program) \/ c.uncertain))
  BY <1>3 DEF Try
<1> QED
  BY <1>1, <1>2, <1>3

\* What the document says of a cycle that was seen to begin at once, after a try.
LEMMA Tried ==
  ASSUME TypeOK, Documented, NEW c \in Cycle, c.run # 0, c.run <= Len(runs),
         c.started - runs[c.run].start \in 0..1, Try(c).id = 0
  PROVE  Try(c) = c /\ ~(doc.run = c.run /\ (Names(c.program) \/ c.uncertain))
  BY TryFinds, OwnDocMatches

LEMMA StartPrompt ==
  ASSUME TypeOK, Documented, busy, NEW f \in Known, NEW u \in BOOLEAN
  PROVE  /\ Linked(Start(f, u)) /\ Start(f, u).run # 0
         /\ now <= runs[Len(runs)].start + 1 => Prompt(Start(f, u), 1)
<1> DEFINE c == [run |-> Len(runs), started |-> now, program |-> f, id |-> 0,
                 method |-> "none", next |-> now + RetryEvery, uncertain |-> u,
                 sure |-> FALSE]
<1>0. now \in Nat /\ Len(runs) \in RunNo /\ Len(runs) \in Nat /\ Len(runs) # 0
      /\ RetryEvery \in Nat /\ now + RetryEvery \in Nat
  BY TimesAssumption DEF TypeOK, RunNo, Documented
<1>1. /\ Start(f, u) = Try(c) /\ c \in Cycle /\ c.run = Len(runs) /\ c.started = now
      /\ c.id = 0 /\ c.method = "none" /\ c.next = now + RetryEvery /\ c.run # 0
      /\ now \in Nat /\ Len(runs) \in Nat
  <2>1. Start(f, u) = Try(c)
    BY DEF Start
  <2>2. "none" \in Method /\ 0 \in RunNo
    BY TimesAssumption DEF Method, RunNo
  <2>3. c \in Cycle
    BY <1>0, <2>2 DEF Cycle
  <2> QED
    BY <1>0, <2>1, <2>3
<1> HIDE DEF c
<1>2. Linked(Try(c)) /\ Try(c).run = Len(runs) /\ Try(c).started = now
  BY <1>1, TryFinds DEF Linked
<1>3. ASSUME now <= runs[Len(runs)].start + 1 PROVE Prompt(Try(c), 1)
  <2>1. now - runs[Len(runs)].start \in 0..1
    <3>1. Len(runs) \in 1..Len(runs)
      BY <1>1
    <3>2. runs[Len(runs)].start \in Nat /\ runs[Len(runs)].start <= now
      BY <3>1, RunTyped DEF Documented
    <3> QED
      BY <1>1, <1>3, <3>2
  <2>2. ASSUME Try(c).id = 0
        PROVE  Try(c) = c /\ ~(doc.run = c.run /\ (Names(c.program) \/ c.uncertain))
    <3>1. c.run <= Len(runs) /\ c.started - runs[c.run].start \in 0..1
      BY <1>1, <2>1
    <3> QED
      BY <1>1, <2>2, <3>1, Tried
  <2>3. now + RetryEvery >= now + 1 /\ now + RetryEvery <= now + RetryEvery
    BY <1>1, TimesAssumption
  <2> QED
    BY <1>1, <1>2, <2>1, <2>2, <2>3 DEF Prompt
<1> QED
  BY <1>1, <1>2, <1>3

LEMMA PollPrompt ==
  ASSUME TypeOK, Documented, NEW c \in Cycle, c.run # 0, Linked(c)
  PROVE  /\ Linked(Poll(c)) /\ Poll(c).run = c.run
         /\ \A early \in {0, 1} : Prompt(c, early) => Prompt(Poll(c), 1)
<1>0. now \in Nat /\ c.next \in Nat /\ c.started \in Nat /\ RetryEvery \in Nat \ {0} /\ RetryFor \in Nat
  BY TimesAssumption DEF TypeOK, Cycle
<1>1. CASE Due(c)
  <2> DEFINE d == [c EXCEPT !.next = now + RetryEvery]
  <2>1. /\ Poll(c) = Try(d) /\ d \in Cycle /\ d.run = c.run /\ d.started = c.started
        /\ d.id = c.id /\ d.method = c.method /\ d.next = now + RetryEvery
        /\ d.run # 0 /\ d.run <= Len(runs)
    BY <1>0, <1>1 DEF Poll, Cycle, Linked
  <2> HIDE DEF d
  <2>2. Linked(d)
    BY <2>1 DEF Linked
  <2>3. Linked(Try(d)) /\ Try(d).run = c.run /\ Try(d).started = c.started
    BY <2>1, <2>2, TryFinds
  <2>4. ASSUME c.started - runs[c.run].start \in 0..1 PROVE Prompt(Try(d), 1)
    <3>1. ASSUME Try(d).id = 0
          PROVE  Try(d) = d /\ ~(doc.run = d.run /\ (Names(d.program) \/ d.uncertain))
      BY <2>1, <2>4, <3>1, Tried
    <3>2. now + RetryEvery >= now + 1 /\ now + RetryEvery <= now + RetryEvery
      BY <1>0
    <3> QED
      BY <2>1, <2>3, <2>4, <3>1, <3>2 DEF Prompt
  <2> QED
    BY <2>1, <2>3, <2>4 DEF Prompt
<1>2. CASE ~Due(c)
  <2>1. Poll(c) = c
    BY <1>2 DEF Poll
  <2>2. ASSUME NEW early \in {0, 1}, Prompt(c, early), c.id = 0
        PROVE  c.next >= now + 1 \/ c.next > c.started + RetryFor + RetryEvery
    <3>1. c.next > now \/ now > c.started + RetryFor + RetryEvery
      BY <1>0, <1>2, <2>2 DEF Due, Linked
    <3>2. c.next >= now \/ c.next > c.started + RetryFor + RetryEvery
      BY <1>0, <2>2 DEF Prompt
    <3> QED
      BY <1>0, <3>1, <3>2
  <2> QED
    BY <2>1, <2>2 DEF Prompt
<1> QED
  BY <1>1, <1>2

LEMMA SetProgramPrompt ==
  ASSUME TypeOK, Documented, NEW c \in Cycle, c.run # 0, Linked(c), NEW f \in Known
  PROVE  /\ Linked(SetProgram(c, f)) /\ SetProgram(c, f).run = c.run
         /\ Prompt(c, 1) => Prompt(SetProgram(c, f), 1)
<1> DEFINE d == [c EXCEPT !.program = f, !.uncertain = FALSE, !.sure = FALSE]
<1>1. /\ d \in Cycle /\ d.run = c.run /\ d.started = c.started /\ d.id = c.id
      /\ d.method = c.method /\ d.next = c.next /\ d.run # 0 /\ d.run <= Len(runs)
  BY DEF Cycle, Linked
<1>2. SetProgram(c, f) = IF f = c.program THEN c ELSE IF c.method # "explicit" THEN Try(d) ELSE d
  BY DEF SetProgram
<1> HIDE DEF d
<1>3. Linked(d)
  BY <1>1 DEF Linked
<1>4. Linked(Try(d)) /\ Try(d).run = c.run /\ Try(d).started = c.started
  BY <1>1, <1>3, TryFinds
<1>5. ASSUME Prompt(c, 1) PROVE Prompt(Try(d), 1)
  <2>1. c.started - runs[c.run].start \in 0..1
    BY <1>5 DEF Prompt
  <2>2. ASSUME Try(d).id = 0
        PROVE  Try(d) = d /\ ~(doc.run = d.run /\ (Names(d.program) \/ d.uncertain))
    BY <1>1, <2>1, <2>2, Tried
  <2> QED
    BY <1>1, <1>4, <1>5, <2>2 DEF Prompt
<1>6. ASSUME Prompt(c, 1), c.method = "explicit" PROVE Prompt(d, 1)
  <2>1. d.id # 0
    BY <1>1, <1>6 DEF Linked
  <2> QED
    BY <1>1, <1>6, <2>1 DEF Prompt
<1> QED
  BY <1>1, <1>2, <1>3, <1>4, <1>5, <1>6

\* A sample leaves the cycle as Timely has it.
LEMMA AgentTimely ==
  ASSUME IInv, Timely, CycleBegins \/ CycleGoesOn \/ CycleEnds PROVE Timely'
<1>0. TypeOK /\ Documented /\ Shown \in Known
  BY ShownTyped DEF IInv, Documented
<1>1. ASSUME NEW c \in Cycle, c.run # 0, Linked(c), ~stalled => Prompt(c, 1), cycle' = c,
             sampled' = TRUE, UNCHANGED <<now, stalled, machine, millwright>>
      PROVE  Timely'
  <2>1. Linked(cycle)' /\ cycle'.run # 0
    BY <1>1 DEF Linked, machine
  <2>2. (Prompt(cycle, 1))' <=> Prompt(c, 1)
    BY <1>1 DEF Prompt, Names, machine, millwright
  <2>3. ~stalled' => Prompt(cycle, IF sampled THEN 1 ELSE 0)'
    BY <1>1, <2>2
  <2> QED
    BY <2>1, <2>3 DEF Timely
<1>2. CASE CycleBegins
  <2> DEFINE c == Start(Shown, inSub)
  <2>1. c \in Cycle /\ Linked(c) /\ c.run # 0
    BY <1>0, <1>2, StartStands, StartPrompt DEF CycleBegins, TypeOK
  <2>2. ~stalled => Prompt(c, 1)
    <3>1. ~stalled => now <= runs[Len(runs)].start + (IF sampled THEN 0 ELSE 1)
      BY <1>2 DEF CycleBegins, Timely
    <3>2. now \in Nat /\ runs[Len(runs)].start \in Nat
      <4>1. Len(runs) \in 1..Len(runs)
        BY <1>0, <1>2, LenProperties DEF CycleBegins, Documented, TypeOK
      <4> QED
        BY <1>0, <4>1, RunTyped DEF TypeOK
    <3>3. ~stalled => now <= runs[Len(runs)].start + 1
      BY <3>1, <3>2
    <3> QED
      BY <1>0, <1>2, <3>3, StartPrompt DEF CycleBegins, TypeOK
  <2>3. cycle' = c /\ sampled' = TRUE /\ UNCHANGED <<now, stalled, machine, millwright>>
    BY <1>2 DEF CycleBegins, Becomes
  <2> HIDE DEF c
  <2> QED
    BY <1>1, <2>1, <2>2, <2>3
<1>3. CASE CycleGoesOn
  <2> DEFINE c == Poll(cycle)
             d == IF ~inSub /\ Shown # cycle.program THEN SetProgram(c, Shown) ELSE c
  <2>1. cycle \in Cycle /\ IdStands(cycle) /\ cycle.run # 0 /\ Linked(cycle)
    BY <1>3 DEF IInv, TypeOK, IdsStand, Cycles, CycleGoesOn, Timely
  <2>2. c \in Cycle /\ IdStands(c)
    BY <1>0, <2>1, PollStands
  <2>3. Linked(c) /\ c.run # 0 /\ (~stalled => Prompt(c, 1))
    <3>1. ~stalled => Prompt(cycle, IF sampled THEN 1 ELSE 0)
      BY <2>1 DEF Timely
    <3> QED
      BY <1>0, <2>1, <3>1, PollPrompt
  <2>4. d \in Cycle /\ Linked(d) /\ d.run # 0 /\ (~stalled => Prompt(d, 1))
    <3> HIDE DEF c
    <3> QED
      BY <1>0, <2>2, <2>3, SetProgramStands, SetProgramPrompt
  <2>5. cycle' = d /\ sampled' = TRUE /\ UNCHANGED <<now, stalled, machine, millwright>>
    BY <1>3 DEF CycleGoesOn, Becomes
  <2> HIDE DEF d
  <2> QED
    BY <1>1, <2>4, <2>5
<1>4. CASE CycleEnds
  <2>1. cycle' = NoCycle /\ ~busy' /\ UNCHANGED runs
    BY <1>4 DEF CycleEnds, machine
  <2> QED
    BY <1>0, <2>1, LenProperties DEF Timely, Linked, NoCycle, TypeOK
<1> QED
  BY <1>2, <1>3, <1>4

\* The cycle stays; what the clock, the machine and MillWright change leaves it so.
LEMMA OthersTimely ==
  ASSUME IInv, Timely,
         \/ \E p \in Program, sub \in BOOLEAN : RunBegins(p, sub)
         \/ SubReturns \/ RunEnds
         \/ MillWrightSees \/ MillWrightWrites \/ MillWrightRemoves \/ Tick
  PROVE  Timely'
<1> USE DEF clock, machine, millwright, agent
<1>a. cycle' = cycle
  BY DEF RunBegins, SubReturns, RunEnds, MillWrightSees, MillWrightWrites, MillWrightRemoves, Tick
<1>0. /\ TypeOK /\ Documented /\ now \in Nat /\ cycle \in Cycle /\ cycle' = cycle
      /\ cycle.started \in Nat /\ cycle.next \in Nat /\ cycle.run \in Nat
      /\ Len(runs) \in Nat /\ RetryEvery \in Nat \ {0} /\ RetryFor \in Nat
  BY <1>a, TimesAssumption, LenProperties DEF IInv, TypeOK, Cycle, RunNo
<1>1. CASE \E p \in Program, sub \in BOOLEAN : RunBegins(p, sub)
  <2>1. /\ Len(runs) <= Len(runs') /\ \A n \in 1..Len(runs) : runs'[n] = runs[n]
        /\ \A n \in 1..Len(runs') : n <= Len(runs) \/ runs'[n].start = now
        /\ Len(runs') \in Nat
    BY <1>0, <1>1, RunsGrow DEF Goes
  <2>2. /\ stalled' = (stalled /\ cycle.run # 0) /\ UNCHANGED <<now, sampled, saw, doc>>
        /\ Len(runs') = Len(runs) + 1
    BY <1>0, <1>1 DEF RunBegins, TypeOK
  <2>3. Linked(cycle)'
    BY <1>0, <2>1 DEF Timely, Linked
  <2>4. busy' /\ cycle'.run = 0 /\ ~stalled' =>
          now' <= runs'[Len(runs')].start + (IF sampled' THEN 0 ELSE 1)
    <3>1. Len(runs') \in 1..Len(runs') /\ ~(Len(runs') <= Len(runs))
      BY <1>0, <2>2
    <3>2. runs'[Len(runs')].start = now
      BY <2>1, <3>1
    <3> QED
      BY <1>0, <2>2, <3>2
  <2>5. ASSUME cycle.run # 0, ~stalled PROVE Prompt(cycle, IF sampled THEN 1 ELSE 0)'
    <3>1. cycle.run \in 1..Len(runs)
      BY <1>0, <2>5 DEF Timely, Linked
    <3>2. runs'[cycle.run] = runs[cycle.run]
      BY <2>1, <3>1
    <3>3. doc.run = cycle.run => (Names(cycle.program) <=> Names(cycle.program)')
      BY <1>0, <2>2, <3>2 DEF Names
    <3> QED
      BY <1>0, <2>2, <2>5, <3>2, <3>3 DEF Timely, Prompt
  <2> QED
    BY <1>0, <2>2, <2>3, <2>4, <2>5 DEF Timely
<1>2. CASE SubReturns \/ RunEnds \/ MillWrightSees
  BY <1>0, <1>2 DEF SubReturns, RunEnds, MillWrightSees, Timely, Linked, Prompt, Names
<1>3. CASE MillWrightWrites
  <2>1. doc'.written = now /\ UNCHANGED <<now, runs, busy, sampled, stalled, cycle>>
    BY <1>3 DEF MillWrightWrites
  <2> QED
    BY <1>0, <2>1 DEF Timely, Linked, Prompt
<1>4. CASE MillWrightRemoves
  <2>1. doc'.run = 0 /\ UNCHANGED <<now, runs, busy, sampled, stalled, cycle>>
    BY <1>4 DEF MillWrightRemoves, NoDoc
  <2> QED
    BY <1>0, <2>1 DEF Timely, Linked, Prompt
<1>5. CASE Tick
  <2>1. /\ now' = now + 1 /\ sampled' = FALSE /\ UNCHANGED <<runs, busy, doc, cycle>>
        /\ ~stalled' => ~stalled /\ (sampled \/ (~busy /\ cycle.run = 0))
    BY <1>5 DEF Tick
  <2>2. Linked(cycle)'
    BY <2>1 DEF Timely, Linked
  <2>3. busy' /\ cycle'.run = 0 /\ ~stalled' => now' <= runs'[Len(runs')].start + 1
    <3> SUFFICES ASSUME busy, cycle.run = 0, ~stalled' PROVE now + 1 <= runs[Len(runs)].start + 1
      BY <1>0, <2>1
    <3>1. runs[Len(runs)].start \in Nat
      <4>1. Len(runs) \in 1..Len(runs)
        BY <1>0 DEF Documented
      <4> QED
        BY <1>0, <4>1, RunTyped
    <3> QED
      BY <1>0, <2>1, <3>1 DEF Timely
  <2>4. ASSUME cycle.run # 0, ~stalled' PROVE Prompt(cycle, 0)'
    <3>1. Prompt(cycle, 1)
      BY <2>1, <2>4 DEF Timely
    <3> QED
      BY <1>0, <2>1, <3>1 DEF Prompt, Names
  <2> QED
    BY <2>1, <2>2, <2>3, <2>4 DEF Timely
<1> QED
  BY <1>1, <1>2, <1>3, <1>4, <1>5

LEMMA TimelyStep == IInv /\ Timely /\ [Next]_vars => Timely'
<1> SUFFICES ASSUME IInv, Timely, [Next]_vars PROVE Timely'
  OBVIOUS
<1>1. CASE Next
  BY <1>1, OthersTimely, AgentTimely DEF Next
<1>2. CASE UNCHANGED vars
  BY <1>2 DEF Timely, Linked, Prompt, Names, vars
<1> QED
  BY <1>1, <1>2

\* In a loop that makes its samples, a cycle whose own document was written in
\* the first RETRY_FOR_S and would be taken has found it RETRY_EVERY_S later
\* (CycleLink.poll).
THEOREM SpecShownIsFound == Spec => []ShownIsFound
<1> QED
  BY InitInv, InvStep, InitTimely, TimelyStep, PromptThenFound, PTL DEF Spec
=============================================================================
