--------------------------- MODULE SenderProofs ----------------------------
(***************************************************************************)
(* Proofs about what sends: GcodeSender, for every set of files, all       *)
(* limits and every number of edits and resets; and UdpSender, which it    *)
(* sends through, for any threads and addresses and any number of changes  *)
(* of the network.                                                         *)
(*                                                                         *)
(* SentWholeSinceReset is not inductive: a thread begun before a reset     *)
(* could mark its program, or one with another's packets between its own.  *)
(* OneStream adds what _due and the generation give: one thread at most,   *)
(* and one of this generation is undisturbed.                              *)
(*                                                                         *)
(* LeavesByThePlan speaks of one step.  What makes it so is that a socket  *)
(* outlives the source it was bound to only between the two assignments of *)
(* the refresh (Bounded), whichever threads make and hold sockets, and     *)
(* that a refresh that refuses the card leaves no source behind (Plans).   *)
(***************************************************************************)
EXTENDS GcodeSender, UdpSender, TLAPS

-----------------------------------------------------------------------------
\* GcodeSender


LEMMA InitInv == Init => IInv
  BY PathAssumption, BoundsAssumption
  DEF Init, IInv, TypeOK, OneStream, SentWholeSinceReset, NewSender, NoThread,
      NoFingerprint, Fingerprint, Nothing

\* What the file looks like is a fingerprint.
LEMMA SeenIsFingerprint == ASSUME TypeOK, NEW p \in Path PROVE Seen(p) \in Fingerprint
  BY BoundsAssumption DEF TypeOK, Seen, Fingerprint

\* A disturbed thread is the thread it was, but not alone.
LEMMA Disturbed ==
  ASSUME NEW w \in Thread
  PROVE  LET v == [w EXCEPT !.alone = FALSE]
         IN  v \in Thread /\ Name(v) = Name(w) /\ v.generation = w.generation
  BY DEF Thread, Name

\* The sampling loop: a thread is begun only when none is left.
LEMMA LoopInv ==
  ASSUME IInv, NEW waited \in BOOLEAN, NEW again \in BOOLEAN,
         \/ \E p \in Path \cup {NoPath} : Polls(p)
         \/ LinuxcncGone
         \/ Starts(waited, again)
         \/ StartsNothing
  PROVE  IInv'
<1> USE DEF IInv, TypeOK, OneStream, SentWholeSinceReset, files
<1>1. CASE \E p \in Path \cup {NoPath} : Polls(p)
  BY <1>1 DEF Polls, Name
<1>2. CASE StartsNothing
  BY <1>2 DEF StartsNothing, Name
<1>3. CASE LinuxcncGone
  <2>1. sender' = [sent |-> NoFingerprint, retry |-> FALSE, refused |-> NoFingerprint,
                    generation |-> sender.generation + 1]
    BY <1>3 DEF LinuxcncGone, Forgotten, NewSender
  <2>2. workers' = NotAlone(workers)
    BY <1>3 DEF LinuxcncGone
  <2>3. workers' \subseteq Thread
    BY <2>2, Disturbed DEF NotAlone
  <2>4. sender'.generation > sender.generation /\ sender'.sent = NoFingerprint
    BY <2>1
  <2>5. TypeOK'
    <3>1. sender' \in [sent : Fingerprint \cup {NoFingerprint}, retry : BOOLEAN,
                       refused : Fingerprint \cup {NoFingerprint}, generation : Nat]
      BY <2>1
    <3> QED
      BY <1>3, <2>3, <3>1 DEF LinuxcncGone
  <2>6. ASSUME NEW v \in workers'
        PROVE  /\ workers' = {v} /\ Name(v) = worker'
               /\ v.generation < sender'.generation
    <3>1. PICK w \in workers : v = [w EXCEPT !.alone = FALSE]
      BY <2>2 DEF NotAlone
    <3>2. workers = {w} /\ w \in Thread /\ Name(w) = worker
      OBVIOUS
    <3>3. workers' = {v}
      BY <2>2, <3>1, <3>2 DEF NotAlone
    <3>4. Name(v) = worker' /\ v.generation = w.generation
      BY <1>3, <3>1, <3>2, Disturbed DEF LinuxcncGone
    <3>5. /\ w.generation \in Nat /\ sender.generation \in Nat
          /\ w.generation <= sender.generation
      BY <3>2 DEF Thread
    <3> QED
      BY <2>1, <3>3, <3>4, <3>5
  <2>7. OneStream'
    <3>1. sender'.generation \in Nat /\ \A v \in workers' : v.generation \in Nat
      BY <2>3, <2>5 DEF Thread
    <3> QED
      BY <2>6, <3>1
  <2> QED
    BY <2>4, <2>5, <2>7
<1>4. CASE Starts(waited, again)
  <2> DEFINE t == NewThread(Seen(loaded))
  <2>1. Seen(loaded) \in Fingerprint
    BY <1>4, SeenIsFingerprint DEF Starts
  <2>2. t \in Thread /\ t.generation = sender.generation /\ t.alone
    BY <2>1, BoundsAssumption DEF NewThread, Thread, Nothing
  <2>3. workers = {}
    BY <1>4 DEF Starts, Due
  <2>4. workers' = {t} /\ worker' = Name(t)
    BY <1>4, <2>3 DEF Starts
  <2>5. TypeOK'
    <3>1. Name(t) \in [fp : Fingerprint \cup {NoFingerprint}, generation : Nat]
      BY <2>1 DEF Name, NewThread
    <3>2. sender' \in [sent : Fingerprint \cup {NoFingerprint}, retry : BOOLEAN,
                       refused : Fingerprint \cup {NoFingerprint}, generation : Nat]
      BY <1>4 DEF Starts
    <3> QED
      BY <1>4, <2>2, <2>4, <3>1, <3>2 DEF Starts
  <2>6. OneStream' /\ SentWholeSinceReset'
    BY <1>4, <2>2, <2>4 DEF Starts, Name
  <2> QED
    BY <2>5, <2>6
<1> QED
  BY <1>1, <1>2, <1>3, <1>4

\* The thread: what it marks is its own, whole, and of this generation.
LEMMA ThreadInv ==
  ASSUME IInv, NEW w \in workers, NEW got \in BOOLEAN,
         CannotRead(w) \/ Prepares(w) \/ Notes(w) \/ Sends(w, got) \/ SendFails(w)
  PROVE  IInv'
<1> USE DEF IInv, TypeOK, OneStream, SentWholeSinceReset, files
<1>1. workers = {w} /\ w \in Thread
  OBVIOUS
<1>2. CASE CannotRead(w)
  BY <1>1, <1>2 DEF CannotRead, Ends, NotAlone
<1>3. CASE Prepares(w)
  <2>1. Prepared(w) \in Thread /\ Prepared(w).fp = w.fp /\ Prepared(w).alone = w.alone
        /\ Prepared(w).generation = w.generation
    <3>1. w.fp \in Fingerprint /\ w.fp.path \in Path
      BY <1>1 DEF Thread, Fingerprint
    <3>2. disk[w.fp.path].version \in 0..(MaxVersion + 1) /\ Refusal \in 0..(MaxVersion + 1)
      BY <3>1, BoundsAssumption DEF Refusal
    <3> QED
      BY <1>1, <3>2 DEF Prepared, Thread
  <2>2. workers' = {Prepared(w)}
    BY <1>1, <1>3 DEF Prepares, Step
  <2> QED
    BY <1>1, <1>3, <2>1, <2>2 DEF Prepares, Name
<1>4. CASE Notes(w)
  <2> DEFINE v == [w EXCEPT !.stage = "send"]
  <2>1. v \in Thread /\ Name(v) = Name(w) /\ v.alone = w.alone
        /\ v.generation = w.generation
    BY <1>1 DEF Thread, Name
  <2>2. workers' = {v}
    BY <1>1, <1>4 DEF Notes, Step
  <2>3. sender' \in [sent : Fingerprint \cup {NoFingerprint}, retry : BOOLEAN,
                     refused : Fingerprint \cup {NoFingerprint}, generation : Nat]
        /\ sender'.sent = sender.sent /\ sender'.generation = sender.generation
    BY <1>1, <1>4 DEF Notes, Thread
  <2> QED
    BY <1>1, <1>4, <2>1, <2>2, <2>3 DEF Notes
<1>5. CASE Sends(w, got)
  <2>1. workers' = {}
    BY <1>1, <1>5 DEF Sends, Ends, NotAlone
  <2>2. TypeOK'
    BY <1>1, <1>5, <2>1 DEF Sends, Marked, Thread
  <2>3. SentWholeSinceReset'
    BY <1>1, <1>5 DEF Sends, Marked, Thread
  <2> QED
    BY <2>1, <2>2, <2>3
<1>6. CASE SendFails(w)
  BY <1>1, <1>6 DEF SendFails, Ends, NotAlone
<1> QED
  BY <1>2, <1>3, <1>4, <1>5, <1>6

\* The files: nothing the sender keeps changes.
LEMMA FilesInv ==
  ASSUME IInv, NEW p \in Path, FileEdited(p) \/ FileRemoved(p) PROVE IInv'
<1>1. TypeOK'
  <2>1. disk[p].version \in 1..MaxVersion /\ disk \in [Path -> [version : 1..MaxVersion, there : BOOLEAN]]
    BY DEF IInv, TypeOK
  <2>2. disk' \in [Path -> [version : 1..MaxVersion, there : BOOLEAN]]
    <3>1. CASE FileEdited(p)
      <4>1. [version |-> disk[p].version + 1, there |-> TRUE]
            \in [version : 1..MaxVersion, there : BOOLEAN]
        BY <2>1, <3>1, BoundsAssumption DEF FileEdited
      <4> QED
        BY <2>1, <3>1, <4>1 DEF FileEdited
    <3>2. CASE FileRemoved(p)
      BY <2>1, <3>2 DEF FileRemoved
    <3> QED
      BY <3>1, <3>2
  <2> QED
    BY <2>2 DEF IInv, TypeOK, FileEdited, FileRemoved
<1> QED
  BY <1>1 DEF IInv, FileEdited, FileRemoved, OneStream, SentWholeSinceReset, Name

LEMMA NextInv == IInv /\ [Next]_vars => IInv'
<1> SUFFICES ASSUME IInv, [Next]_vars PROVE IInv'
  OBVIOUS
<1>1. CASE UNCHANGED vars
  BY <1>1 DEF vars, IInv, TypeOK, OneStream, SentWholeSinceReset, Name
<1>2. CASE Next
  BY <1>2, LoopInv, ThreadInv, FilesInv DEF Next
<1> QED
  BY <1>1, <1>2

\* The state of the loop, the thread and the files keeps its types.
THEOREM SpecTypeOK == Spec => []TypeOK
<1>1. IInv => TypeOK
  BY DEF IInv
<1> QED
  BY <1>1, InitInv, NextInv, PTL DEF Spec

\* There is one stream of packets at a time, and the one of this generation is
\* undisturbed.
THEOREM SpecOneStream == Spec => []OneStream
<1>1. IInv => OneStream
  BY DEF IInv
<1> QED
  BY <1>1, InitInv, NextInv, PTL DEF Spec

\* What is marked as sent went out whole since LinuxCNC was last gone, with
\* no other stream between its packets.
THEOREM SpecSentWholeSinceReset == Spec => []SentWholeSinceReset
<1>1. IInv => SentWholeSinceReset
  BY DEF IInv
<1> QED
  BY <1>1, InitInv, NextInv, PTL DEF Spec

-----------------------------------------------------------------------------
\* UdpSender


\* With a chosen card, sockets are of its addresses, and there is none, here
\* or in the hands of a sender, while there is no source.
Bounded ==
  chosen =>
    /\ sock \in Source
    /\ \A s \in Sender : held[s].open => held[s].from \in Address
    /\ source = None /\ rpc # "socket" => sock = None /\ \A s \in Sender : ~held[s].open

\* The source is that of the refresh under way, or of the last one.
Plans ==
  chosen =>
    /\ rpc \in {"socket", "targets"} => source = plan
    /\ refused /\ rpc \notin {"socket", "targets"} => source = None

UdpInv == UdpTypeOK /\ Bounded /\ Plans /\ LeavesByThePlan

LEMMA UdpInitInv == UdpInit => UdpInv
<1> SUFFICES ASSUME UdpInit PROVE UdpInv
  OBVIOUS
<1>1. UdpTypeOK
  <2>1. NoSocket \in [from : Socket, open : BOOLEAN] /\ NothingSent \in [from : Socket, to : SUBSET Target]
    BY DEF NoSocket, NothingSent, Socket, Source
  <2>2. held \in [Sender -> [from : Socket, open : BOOLEAN]]
    BY <2>1 DEF UdpInit
  <2>3. sock \in Socket /\ targets \in SUBSET Target
    BY DEF UdpInit, Socket, Source, Target
  <2>4. /\ {chosen, auto, mesa, route, closed, refused} \subseteq BOOLEAN
        /\ card \in Source /\ plan \in Source /\ source \in Source
    BY DEF UdpInit, Source
  <2>5. changes \in 0..MaxChanges /\ extra \in 0..MaxExtra
    BY UdpBoundsAssumption DEF UdpInit
  <2> QED
    BY <2>1, <2>2, <2>3, <2>4, <2>5 DEF UdpInit, UdpTypeOK
<1>2. Bounded /\ Plans /\ LeavesByThePlan
  BY DEF UdpInit, Bounded, Plans, LeavesByThePlan, NoSocket, NothingSent, Source
<1> QED
  BY <1>1, <1>2 DEF UdpInv

\* A new socket is of the source; with a chosen card there may be none.
LEMMA NewSocket ==
  ASSUME UdpTypeOK, CreatesSocket
  PROVE  /\ sock' \in Socket
         /\ held' \in [Sender -> [from : Socket, open : BOOLEAN]]
         /\ \A s \in Sender : ~held'[s].open
         /\ chosen => sock' \in {None, source}
<1>1. Bound \in Socket /\ (chosen => Bound \in {None, source})
  BY DEF Bound, UdpTypeOK, Source, Socket
<1>2. sock' \in {None, Bound}
  BY DEF CreatesSocket
<1>3. ASSUME NEW s \in Sender
      PROVE  /\ [held[s] EXCEPT !.open = FALSE] \in [from : Socket, open : BOOLEAN]
             /\ ~[held[s] EXCEPT !.open = FALSE].open
  BY DEF UdpTypeOK
<1>4. held' = [s \in Sender |-> [held[s] EXCEPT !.open = FALSE]]
  BY DEF CreatesSocket
<1> QED
  BY <1>1, <1>2, <1>3, <1>4 DEF Socket, Source

LEMMA NothingLeaves == sent' = NothingSent => LeavesByThePlan'
  BY DEF LeavesByThePlan, NothingSent

LEMMA NothingTyped == NothingSent \in [from : Socket, to : SUBSET Target]
  BY DEF NothingSent, Socket, Source

\* The network and the refresh.
LEMMA RefreshInv ==
  ASSUME UdpInv, NetworkChanges \/ Refresh \/ RefreshFails PROVE UdpInv'
<1> USE DEF UdpInv, network, refresher, senders
<1>1. CASE NetworkChanges
  <2>1. UdpTypeOK'
    <3>1. card' \in Source /\ mesa' \in BOOLEAN /\ route' \in BOOLEAN
      BY <1>1 DEF NetworkChanges, UdpTypeOK
    <3>2. changes' \in 0..MaxChanges
      BY <1>1, UdpBoundsAssumption DEF NetworkChanges, UdpTypeOK
    <3> QED
      BY <1>1, <3>1, <3>2, NothingTyped DEF NetworkChanges, UdpTypeOK
  <2> QED
    BY <1>1, <2>1, NothingLeaves DEF NetworkChanges, Bounded, Plans
<1>2. CASE RefreshPlans
  <2>1. UdpTypeOK'
    BY <1>2, NothingTyped DEF RefreshPlans, UdpTypeOK, Source
  <2> QED
    BY <1>2, <2>1, NothingLeaves DEF RefreshPlans, Bounded, Plans
<1>3. CASE RefreshResolves
  <2>1. UdpTypeOK'
    <3>1. Broadcast \in Target
      BY DEF Broadcast, UdpTypeOK, Source, Target
    <3>2. Resolved \in SUBSET Target
      BY <3>1 DEF Resolved, Target
    <3> QED
      BY <1>3, <3>2, NothingTyped DEF RefreshResolves, UdpTypeOK
  <2> QED
    BY <1>3, <2>1, NothingLeaves DEF RefreshResolves, Bounded, Plans
<1>4. CASE RefreshFails
  <2>1. UdpTypeOK'
    BY <1>4, NothingTyped DEF RefreshFails, UdpTypeOK
  <2> QED
    BY <1>4, <2>1, NothingLeaves DEF RefreshFails, Bounded, Plans
<1>5. CASE RefreshTakesSource
  <2>1. UdpTypeOK'
    BY <1>5, NothingTyped DEF RefreshTakesSource, UdpTypeOK
  <2> QED
    BY <1>5, <2>1, NothingLeaves DEF RefreshTakesSource, Bounded, Plans
<1>6. CASE RefreshBinds
  <2>1. UdpTypeOK'
    BY <1>6, NewSocket, NothingTyped DEF RefreshBinds, UdpTypeOK
  <2> QED
    BY <1>6, <2>1, NewSocket, NothingLeaves DEF RefreshBinds, Bounded, Plans, UdpTypeOK, Source
<1>7. CASE RefreshEnds
  <2>1. UdpTypeOK'
    BY <1>7, NothingTyped DEF RefreshEnds, NewTargets, UdpTypeOK
  <2> QED
    BY <1>7, <2>1, NothingLeaves DEF RefreshEnds, Bounded, Plans
<1> QED
  BY <1>1, <1>2, <1>3, <1>4, <1>5, <1>6, <1>7 DEF Refresh

\* A sender takes what is there, and makes a socket of the source there is.
LEMMA SendInv == ASSUME UdpInv, NEW s \in Sender, Send(s) PROVE UdpInv'
<1> USE DEF UdpInv, network, refresher, senders
<1>1. CASE Calls(s)
  <2>1. UdpTypeOK'
    BY <1>1, NothingTyped, UdpBoundsAssumption DEF Calls, UdpTypeOK
  <2> QED
    BY <1>1, <2>1, NothingLeaves DEF Calls, Bounded, Plans
<1>2. CASE Checks(s)
  <2>1. CASE CreatesSocket
    <3>1. UdpTypeOK'
      BY <1>2, <2>1, NewSocket, NothingTyped DEF Checks, UdpTypeOK
    <3> QED
      BY <1>2, <2>1, <3>1, NewSocket, NothingLeaves
      DEF Checks, Bounded, Plans, UdpTypeOK, Source
  <2>2. CASE UNCHANGED <<sock, held>>
    <3>1. UdpTypeOK'
      BY <1>2, <2>2, NothingTyped DEF Checks, UdpTypeOK
    <3> QED
      BY <1>2, <2>2, <3>1, NothingLeaves DEF Checks, Bounded, Plans
  <2> QED
    BY <1>2, <2>1, <2>2 DEF Checks
<1>3. CASE TakesSocket(s)
  <2>1. UdpTypeOK'
    BY <1>3, NothingTyped DEF TakesSocket, UdpTypeOK
  <2>2. Bounded'
    BY <1>3 DEF TakesSocket, Bounded, UdpTypeOK, Source
  <2> QED
    BY <1>3, <2>1, <2>2, NothingLeaves DEF TakesSocket, Plans
<1>4. CASE TakesTargets(s)
  <2>1. UdpTypeOK'
    BY <1>4, NothingTyped DEF TakesTargets, UdpTypeOK
  <2> QED
    BY <1>4, <2>1, NothingLeaves DEF TakesTargets, Bounded, Plans
<1>5. CASE SendsPacket(s)
  <2>1. UdpTypeOK'
    BY <1>5 DEF SendsPacket, Done, UdpTypeOK
  <2>2. Bounded' /\ Plans'
    BY <1>5 DEF SendsPacket, Done, Bounded, Plans
  <2>3. LeavesByThePlan'
    BY <1>5 DEF SendsPacket, Done, LeavesByThePlan, Bounded, Plans
  <2> QED
    BY <2>1, <2>2, <2>3
<1>6. CASE Drops(s)
  <2>1. UdpTypeOK'
    BY <1>6, NothingTyped DEF Drops, Done, UdpTypeOK
  <2> QED
    BY <1>6, <2>1, NothingLeaves DEF Drops, Done, Bounded, Plans
<1>7. CASE Fails(s)
  <2>1. UdpTypeOK'
    BY <1>7, NewSocket, NothingTyped DEF Fails, Done, UdpTypeOK
  <2> QED
    BY <1>7, <2>1, NewSocket, NothingLeaves DEF Fails, Done, Bounded, Plans, UdpTypeOK, Source
<1> QED
  BY <1>1, <1>2, <1>3, <1>4, <1>5, <1>6, <1>7 DEF Send

LEMMA CloseInv == ASSUME UdpInv, Closes PROVE UdpInv'
<1> USE DEF UdpInv, Closes, network, refresher
<1>1. ASSUME NEW s \in Sender
      PROVE  /\ held'[s] = [held[s] EXCEPT !.open = FALSE]
             /\ held'[s] \in [from : Socket, open : BOOLEAN] /\ ~held'[s].open
  BY DEF UdpTypeOK
<1>2. held' \in [Sender -> [from : Socket, open : BOOLEAN]]
  BY <1>1
<1>3. UdpTypeOK'
  BY <1>2, NothingTyped DEF UdpTypeOK, Socket, Source
<1> QED
  BY <1>1, <1>3, NothingLeaves DEF Bounded, Plans, Source

LEMMA UdpNextInv == UdpInv /\ [UdpNext]_udpVars => UdpInv'
<1> SUFFICES ASSUME UdpInv, [UdpNext]_udpVars PROVE UdpInv'
  OBVIOUS
<1>1. CASE UdpNext
  BY <1>1, RefreshInv, SendInv, CloseInv DEF UdpNext
<1>2. CASE UNCHANGED udpVars
  BY <1>2
  DEF UdpInv, UdpTypeOK, Bounded, Plans, LeavesByThePlan, udpVars, network, refresher, senders
<1> QED
  BY <1>1, <1>2

\* The sender's state keeps its types.
THEOREM SpecUdpTypeOK == UdpSpec => []UdpTypeOK
<1>1. UdpInv => UdpTypeOK
  BY DEF UdpInv
<1> QED
  BY <1>1, UdpInitInv, UdpNextInv, PTL DEF UdpSpec

\* With a chosen card nothing leaves that the last refresh refused, and
\* nothing from an address that is not the card's, however the threads that
\* send and the refresh replace the socket.
THEOREM SpecLeavesByThePlan == UdpSpec => []LeavesByThePlan
<1>1. UdpInv => LeavesByThePlan
  BY DEF UdpInv
<1> QED
  BY <1>1, UdpInitInv, UdpNextInv, PTL DEF UdpSpec
=============================================================================
