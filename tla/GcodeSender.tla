---------------------------- MODULE GcodeSender ----------------------------
(***************************************************************************)
(* The loaded program goes to the dashboard: GcodeFileSender               *)
(* (agent_gcode.py), the part of the sampling loop that calls it           *)
(* (status.py), and the files, which are edited and removed meanwhile.     *)
(*                                                                         *)
(* The loop decides on a send from what the file looks like then; a worker *)
(* thread reads the file later, and sends it packet by packet.  When       *)
(* LinuxCNC goes away the loop forgets what was sent (reset) while the     *)
(* worker goes on.                                                         *)
(*                                                                         *)
(* A program text is a version of a file, and stands for its fingerprint   *)
(* (name, size, time); an edit makes a new one.  Clocks are left out:      *)
(* whether RETRY_AFTER_FAILURE_S or resend_s has passed is a choice.       *)
(***************************************************************************)
EXTENDS Naturals, FiniteSets

CONSTANTS
  Path,       \* program files
  NoPath,     \* no program is loaded
  Huge,       \* texts refused for their size, without being read
  Over,       \* texts over a limit of the contract (the huge ones too)
  MaxVersion, \* bound: versions of one file
  MaxEdits,   \* bound: edits and removals
  MaxResets   \* bound: LinuxCNC goes away

ASSUME PathAssumption == NoPath \notin Path
ASSUME LimitsAssumption ==
  Huge \subseteq Over /\ Over \subseteq [path : Path, version : 1..MaxVersion]
ASSUME BoundsAssumption ==
  MaxVersion \in Nat \ {0} /\ MaxEdits \in Nat /\ MaxResets \in Nat

VARIABLES
  disk,     \* for each file: its version, and whether it is there
  loaded,   \* the program's path in this sample
  lpc,      \* the loop: at the poll, or at the send
  sender,   \* _sent_fingerprint, _retry_at is ahead, _refused, _generation
  workers,  \* the threads that run _run, and how far each is
  worker,   \* _worker: the thread started last
  shown,    \* dashboard: what it has for each fingerprint
  whole,    \* history: what went out whole and alone, begun since the reset
  edits

vars == <<disk, loaded, lpc, sender, workers, worker, shown, whole, edits>>

\* A fingerprint: of a file that is not there, all but its name is 0.
Fingerprint == [path : Path, version : 0..MaxVersion]
NoFingerprint == [path |-> NoPath, version |-> 0]
Seen(p) == [path |-> p, version |-> IF disk[p].there THEN disk[p].version ELSE 0]

\* What a worker sends, and what a dashboard has: a text, or a refusal.
Nothing == 0
Refusal == MaxVersion + 1
Right(f) == IF f \in Over THEN Refusal ELSE f.version

Thread == [fp : Fingerprint, generation : Nat, stage : {"prepare", "note", "send"},
           text : 0..(MaxVersion + 1), alone : BOOLEAN]
NoThread == [fp |-> NoFingerprint, generation |-> 0]
Name(w) == [fp |-> w.fp, generation |-> w.generation]

NewSender == [sent |-> NoFingerprint, retry |-> FALSE, refused |-> NoFingerprint, generation |-> 0]

TypeOK ==
  /\ disk \in [Path -> [version : 1..MaxVersion, there : BOOLEAN]]
  /\ loaded \in Path \cup {NoPath}
  /\ lpc \in {"poll", "send"}
  /\ sender \in [sent : Fingerprint \cup {NoFingerprint}, retry : BOOLEAN,
                 refused : Fingerprint \cup {NoFingerprint}, generation : Nat]
  /\ workers \subseteq Thread
  /\ worker \in [fp : Fingerprint \cup {NoFingerprint}, generation : Nat]
  /\ shown \in [Fingerprint -> 0..(MaxVersion + 1)]
  /\ whole \subseteq Fingerprint
  /\ edits \in Nat

Init ==
  /\ disk = [p \in Path |-> [version |-> 1, there |-> TRUE]]
  /\ loaded = NoPath /\ lpc = "poll"
  /\ sender = NewSender /\ workers = {} /\ worker = NoThread
  /\ shown = [f \in Fingerprint |-> Nothing] /\ whole = {}
  /\ edits = 0

files == <<disk, edits>>

-----------------------------------------------------------------------------
\* The sampling loop (each name with a suffix is a mutated form)

\* The program of this sample; most samples end before the send.
Polls(p) ==
  /\ lpc = "poll"
  /\ loaded' = p
  /\ lpc' \in {"poll", "send"}
  /\ UNCHANGED <<files, sender, workers, worker, shown, whole>>

\* history: threads with a reset or another stream in between.
NotAlone(ws) == {[v EXCEPT !.alone = FALSE] : v \in ws}

\* _disconnect_linuxcnc: reset(), and no program is known.
Forgotten == [NewSender EXCEPT !.generation = sender.generation + 1]

LinuxcncGone ==
  /\ lpc = "poll" /\ sender.generation < MaxResets
  /\ sender' = Forgotten
  /\ loaded' = NoPath
  /\ whole' = {} /\ workers' = NotAlone(workers)
  /\ UNCHANGED <<files, lpc, worker, shown>>

\* _due.  waited: RETRY_AFTER_FAILURE_S has passed; again: resend_s has.
Due_TwoAtOnce(f, waited, again) ==
  /\ sender.retry => waited
  /\ f # sender.sent \/ again
Due(f, waited, again) ==
  /\ ~\E w \in workers : Name(w) = worker
  /\ sender.retry => waited
  /\ f # sender.sent \/ again

NewThread(f) ==
  [fp |-> f, generation |-> sender.generation, stage |-> "prepare", text |-> Nothing,
   alone |-> TRUE]

\* check_and_send
Starts(waited, again) ==
  /\ lpc = "send" /\ loaded # NoPath
  /\ Due(Seen(loaded), waited, again)
  /\ workers' = workers \cup {NewThread(Seen(loaded))}
  /\ worker' = Name(NewThread(Seen(loaded)))
  /\ sender' = [sender EXCEPT !.retry = FALSE]
  /\ lpc' = "poll"
  /\ UNCHANGED <<files, loaded, shown, whole>>

StartsNothing ==
  /\ lpc = "send"
  /\ loaded # NoPath => ~Due(Seen(loaded), FALSE, FALSE)
  /\ lpc' = "poll"
  /\ UNCHANGED <<files, loaded, sender, workers, worker, shown, whole>>

-----------------------------------------------------------------------------
\* The worker's thread

Step(w, v) == workers' = (workers \ {w}) \cup {v}
Ends(w) == workers' = NotAlone(workers \ {w})

\* _prepare cannot read the file: no generation is compared.
CannotRead(w) ==
  /\ w.stage = "prepare"
  /\ sender.refused # w.fp /\ w.fp \notin Huge
  /\ ~disk[w.fp.path].there
  /\ sender' = [sender EXCEPT !.retry = TRUE]
  /\ Ends(w)
  /\ UNCHANGED <<files, loaded, lpc, worker, shown, whole>>

\* Refused without reading it: known from before, or by its size.
Known_AnyProgram(w) == sender.refused # NoFingerprint \/ w.fp \in Huge
Known(w) == sender.refused = w.fp \/ w.fp \in Huge

\* The text is what the file holds now.
Prepared(w) ==
  IF Known(w) \/ Seen(w.fp.path) \in Over
  THEN [w EXCEPT !.stage = "note", !.text = Refusal]
  ELSE [w EXCEPT !.stage = "send", !.text = disk[w.fp.path].version]

Prepares(w) ==
  /\ w.stage = "prepare"
  /\ Known(w) \/ disk[w.fp.path].there
  /\ Step(w, Prepared(w))
  /\ UNCHANGED <<files, loaded, lpc, sender, worker, shown, whole>>

\* _note_refusal
Notes(w) ==
  /\ w.stage = "note"
  /\ sender' = IF w.generation # sender.generation THEN sender
               ELSE [sender EXCEPT !.refused = w.fp]
  /\ Step(w, [w EXCEPT !.stage = "send"])
  /\ UNCHANGED <<files, loaded, lpc, worker, shown, whole>>

\* The end of _run: every packet was handed to the network.
Marked_AnyGeneration(w) == [sender EXCEPT !.sent = w.fp, !.retry = FALSE]
Marked(w) ==
  IF w.generation # sender.generation THEN sender
  ELSE [sender EXCEPT !.sent = w.fp, !.retry = FALSE]

\* got: the packets arrive (external; a lost one is not noticed).
Sends(w, got) ==
  /\ w.stage = "send"
  /\ sender' = Marked(w)
  /\ Ends(w)
  /\ whole' = IF w.alone /\ workers = {w} THEN whole \cup {w.fp} ELSE whole
  /\ shown' = IF got THEN [shown EXCEPT ![w.fp] = w.text] ELSE shown
  /\ UNCHANGED <<files, loaded, lpc, worker>>

\* A packet was not taken, three times, or send raised.
SendFails(w) ==
  /\ w.stage = "send"
  /\ sender' = IF w.generation # sender.generation THEN sender
               ELSE [sender EXCEPT !.retry = TRUE]
  /\ Ends(w)
  /\ UNCHANGED <<files, loaded, lpc, worker, shown, whole>>

-----------------------------------------------------------------------------
\* The files (external)

FileEdited(p) ==
  /\ edits < MaxEdits /\ disk[p].version < MaxVersion
  /\ disk' = [disk EXCEPT ![p] = [version |-> @.version + 1, there |-> TRUE]]
  /\ edits' = edits + 1
  /\ UNCHANGED <<loaded, lpc, sender, workers, worker, shown, whole>>

FileRemoved(p) ==
  /\ edits < MaxEdits /\ disk[p].there
  /\ disk' = [disk EXCEPT ![p].there = FALSE]
  /\ edits' = edits + 1
  /\ UNCHANGED <<loaded, lpc, sender, workers, worker, shown, whole>>

Next ==
  \/ \E p \in Path \cup {NoPath} : Polls(p)
  \/ LinuxcncGone
  \/ \E waited, again \in BOOLEAN : Starts(waited, again)
  \/ StartsNothing
  \/ \E w \in workers :
       \/ CannotRead(w)
       \/ Prepares(w)
       \/ Notes(w)
       \/ \E got \in BOOLEAN : Sends(w, got)
       \/ SendFails(w)
  \/ \E p \in Path : FileEdited(p) \/ FileRemoved(p)

Spec == Init /\ [][Next]_vars

\* The loop and the worker go on; the intervals pass; packets that are sent
\* again and again are taken, and arrive, again and again.
FairSpec ==
  /\ Spec
  /\ WF_vars(\E p \in Path \cup {NoPath} : Polls(p) /\ lpc' = "send")
  /\ WF_vars(StartsNothing)
  /\ SF_vars(Starts(TRUE, TRUE))
  /\ WF_vars(\E w \in workers : CannotRead(w) \/ Prepares(w) \/ Notes(w))
  /\ SF_vars(\E w \in workers : Sends(w, TRUE))

-----------------------------------------------------------------------------
\* Properties

\* At most one thread sends, and it is _worker; if it was begun since the last
\* reset, nothing has come between its packets.
OneStream ==
  \A w \in workers :
    /\ workers = {w} /\ Name(w) = worker
    /\ w.generation <= sender.generation
    /\ w.generation = sender.generation => w.alone

\* "Marked sent only when EVERY chunk was handed to the network", and "forget
\* what was sent so the file goes out again after a LinuxCNC restart": what is
\* marked went out whole since then, with no other stream between its packets.
SentWholeSinceReset == sender.sent # NoFingerprint => sender.sent \in whole

\* What makes it so: the invariant the proof uses.
IInv == TypeOK /\ OneStream /\ SentWholeSinceReset

\* A program that stays loaded, and stays as it is, is on the dashboard in the
\* end: its text, or the refusal when it is over a limit.  Workers of programs
\* before it, refusals of other versions and failures do not stand in its way.
ProgramArrives ==
  \A f \in {g \in Fingerprint : g.version # 0} :
    <>[](loaded = f.path /\ Seen(f.path) = f) => <>[](shown[f] = Right(f))

=============================================================================
