---------------------------- MODULE UdpSender ----------------------------
(***************************************************************************)
(* Where packets leave (agent_net.py, UdpSender): the refresh thread plans *)
(* by the interfaces of the PC and replaces source, socket and targets one *)
(* after another, while the sampling loop and the G-code worker send.      *)
(*                                                                         *)
(* An address stands for the card's IPv4 address and, as a target, for its *)
(* broadcast address; Host is a configured machine.  With "chosen",        *)
(* monitor_interface names the card; without it sockets are not bound, and *)
(* the card stands for the interfaces "auto" finds.  What makes an         *)
(* interface count (loopback, exclude_interfaces, masks) is in "card".     *)
(***************************************************************************)
EXTENDS Naturals, FiniteSets

CONSTANTS
  Sender,      \* threads that send
  Busy,        \* those that send again and again: the sampling loop
  Address,     \* addresses the card may get
  Host,        \* a fixed IP or host name in monitor_pc_ip
  Limited,     \* LIMITED_BROADCAST
  None,        \* no address, no socket
  MaxChanges,  \* bound: changes of the network
  MaxExtra     \* bound: packets of the other senders

ASSUME SenderAssumption == Busy \subseteq Sender
ASSUME AddressAssumption ==
  /\ Cardinality({Host, Limited, None}) = 3
  /\ {Host, Limited, None} \cap Address = {}
ASSUME UdpBoundsAssumption == MaxChanges \in Nat /\ MaxExtra \in Nat

VARIABLES
  chosen,   \* _interface is set
  auto,     \* _setting has "auto" in it, beside Host
  card,     \* the card's address, None: down
  mesa,     \* a Mesa board is on it
  route,    \* Host resolves, and is reached through the card
  changes,
  plan,     \* refresh: the address it planned for, None: a problem
  new,      \* refresh: the targets it resolved
  rpc,      \* refresh: idle, resolve, source, socket, targets
  source, sock, targets, \* _source, _sock (the address it is bound to), _targets
  spc,      \* each sender: idle, check, capture, read, send
  held,     \* each sender: its socket, and whether that is still open
  dests,    \* each sender: its targets
  extra,
  closed,   \* _stop
  refused,  \* history: the last refresh that ended refused the card
  sent      \* history: what the last step sent: from, to

network == <<chosen, auto, card, mesa, route, changes>>
refresher == <<plan, new, rpc>>
senders == <<spc, held, dests, extra>>
udpVars == <<network, refresher, source, sock, targets, senders, closed, refused, sent>>

Source == Address \cup {None}
Target == Address \cup {Host, Limited}
\* A socket bound to no address.
Any == Limited
Socket == Source \cup {Any}
NoSocket == [from |-> None, open |-> FALSE]
NothingSent == [from |-> None, to |-> {}]

UdpTypeOK ==
  /\ {chosen, auto, mesa, route, closed, refused} \subseteq BOOLEAN
  /\ card \in Source /\ plan \in Source /\ source \in Source
  /\ changes \in 0..MaxChanges /\ extra \in 0..MaxExtra
  /\ new \in SUBSET Target /\ targets \in SUBSET Target
  /\ rpc \in {"idle", "resolve", "source", "socket", "targets"}
  /\ sock \in Socket
  /\ spc \in [Sender -> {"idle", "check", "capture", "read", "send"}]
  /\ held \in [Sender -> [from : Socket, open : BOOLEAN]]
  /\ dests \in [Sender -> SUBSET Target]
  /\ sent \in [from : Socket, to : SUBSET Target]

\* __init__ has made its first refresh when the card was down.
UdpInit ==
  /\ chosen \in BOOLEAN /\ auto \in BOOLEAN
  /\ card = None /\ mesa = FALSE /\ route = FALSE /\ changes = 0
  /\ plan = None /\ new = {} /\ rpc = "idle"
  /\ source = None /\ targets = IF auto /\ ~chosen THEN {Limited} ELSE {}
  /\ sock = IF chosen THEN None ELSE Any
  /\ spc = [s \in Sender |-> "idle"]
  /\ held = [s \in Sender |-> NoSocket] /\ dests = [s \in Sender |-> {}]
  /\ extra = 0 /\ closed = FALSE
  /\ refused = chosen /\ sent = NothingSent

-----------------------------------------------------------------------------
\* The network (external)

NetworkChanges ==
  /\ changes < MaxChanges /\ changes' = changes + 1
  /\ \/ card' \in Source /\ UNCHANGED <<mesa, route>>
     \/ mesa' = ~mesa /\ UNCHANGED <<card, route>>
     \/ route' = ~route /\ UNCHANGED <<card, mesa>>
  /\ sent' = NothingSent
  /\ UNCHANGED <<chosen, auto, refresher, source, sock, targets, senders, closed, refused>>

-----------------------------------------------------------------------------
\* _create_socket: under its lock, for whoever calls it.  The old socket is
\* closed for those that still hold it.

Bound_Anywhere == IF source # None THEN source ELSE Any
Bound == IF source # None THEN source ELSE IF chosen THEN None ELSE Any

\* It may fail, and does when the card has not that address (any more).
CreatesSocket ==
  /\ sock' \in {None} \cup ({Bound} \cap {card, Any})
  /\ held' = [s \in Sender |-> [held[s] EXCEPT !.open = FALSE]]

-----------------------------------------------------------------------------
\* refresh, by the refresh thread

Usable == card # None /\ ~mesa

RefreshPlans ==
  /\ rpc = "idle" /\ ~closed
  /\ plan' = IF Usable THEN card ELSE None
  /\ rpc' = "resolve"
  /\ sent' = NothingSent
  /\ UNCHANGED <<network, new, source, sock, targets, senders, closed, refused>>

\* resolve_targets: nothing when the chosen card has a problem, else what
\* leaves by it; without one, what was found, or 255.255.255.255.
Broadcast == IF plan = None THEN Limited ELSE plan

Resolved ==
  IF chosen /\ plan = None THEN {}
  ELSE (IF auto THEN {Broadcast} ELSE {}) \cup (IF route THEN {Host} ELSE {})

RefreshResolves ==
  /\ rpc = "resolve"
  /\ new' = Resolved
  /\ rpc' = IF chosen THEN "source" ELSE "targets"
  /\ sent' = NothingSent
  /\ UNCHANGED <<network, plan, source, sock, targets, senders, closed, refused>>

\* "never let discovery kill the agent": all stays as it was.
RefreshFails ==
  /\ rpc = "resolve"
  /\ rpc' = "idle"
  /\ sent' = NothingSent
  /\ UNCHANGED <<network, plan, new, source, sock, targets, senders, closed, refused>>

\* A card whose address is the same keeps its socket.
RefreshTakesSource ==
  /\ rpc = "source"
  /\ source' = plan
  /\ rpc' = IF plan # source THEN "socket" ELSE "targets"
  /\ sent' = NothingSent
  /\ UNCHANGED <<network, plan, new, sock, targets, senders, closed, refused>>

RefreshBinds ==
  /\ rpc = "socket"
  /\ CreatesSocket
  /\ rpc' = "targets"
  /\ sent' = NothingSent
  /\ UNCHANGED <<network, plan, new, source, targets, spc, dests, extra, closed, refused>>

\* With a plan the targets may become none; without one the old ones stay.
NewTargets == IF chosen \/ new # {} THEN new ELSE targets

RefreshEnds ==
  /\ rpc = "targets"
  /\ targets' = NewTargets
  /\ rpc' = "idle"
  /\ refused' = (chosen /\ plan = None)
  /\ sent' = NothingSent
  /\ UNCHANGED <<network, plan, new, source, sock, senders, closed>>

-----------------------------------------------------------------------------
\* send, by any thread

Calls(s) ==
  /\ spc[s] = "idle"
  /\ IF s \in Busy THEN ~closed /\ UNCHANGED extra ELSE extra < MaxExtra /\ extra' = extra + 1
  /\ spc' = [spc EXCEPT ![s] = "check"]
  /\ sent' = NothingSent
  /\ UNCHANGED <<network, refresher, source, sock, targets, held, dests, closed, refused>>

\* A socket is missing that should be there.
Missing_Never == FALSE
Missing == sock = None /\ (chosen => source # None)

Checks(s) ==
  /\ spc[s] = "check"
  /\ IF Missing THEN CreatesSocket ELSE UNCHANGED <<sock, held>>
  /\ spc' = [spc EXCEPT ![s] = "capture"]
  /\ sent' = NothingSent
  /\ UNCHANGED <<network, refresher, source, targets, dests, extra, closed, refused>>

\* "sock, targets = self._sock, self._targets": two reads.
TakesSocket(s) ==
  /\ spc[s] = "capture"
  /\ held' = [held EXCEPT ![s] = [from |-> sock, open |-> sock # None]]
  /\ spc' = [spc EXCEPT ![s] = "read"]
  /\ sent' = NothingSent
  /\ UNCHANGED <<network, refresher, source, sock, targets, dests, extra, closed, refused>>

TakesTargets(s) ==
  /\ spc[s] = "read"
  /\ dests' = [dests EXCEPT ![s] = targets]
  /\ spc' = [spc EXCEPT ![s] = IF held[s].from = None \/ targets = {} THEN "idle" ELSE "send"]
  /\ sent' = NothingSent
  /\ UNCHANGED <<network, refresher, source, sock, targets, held, extra, closed, refused>>

Done(s) ==
  /\ spc' = [spc EXCEPT ![s] = "idle"]
  /\ UNCHANGED <<network, refresher, source, targets, dests, extra, closed, refused>>

\* At least one sendto works: the socket is open and its card is up.
SendsPacket(s) ==
  /\ spc[s] = "send"
  /\ held[s].open /\ held[s].from \in {card, Any}
  /\ sent' = [from |-> held[s].from, to |-> dests[s]]
  /\ UNCHANGED <<sock, held>>
  /\ Done(s)

\* The buffer is full: the packet is dropped.
Drops(s) ==
  /\ spc[s] = "send" /\ held[s].open
  /\ sent' = NothingSent
  /\ UNCHANGED <<sock, held>>
  /\ Done(s)

\* Every sendto failed: a new socket.
Fails(s) ==
  /\ spc[s] = "send"
  /\ CreatesSocket
  /\ sent' = NothingSent
  /\ Done(s)

\* close(), when the sampling loop has ended; the other threads may still be
\* under way, and one that sends makes a socket again.
Closes ==
  /\ ~closed /\ \A s \in Busy : spc[s] = "idle"
  /\ closed' = TRUE
  /\ sock' = None
  /\ held' = [s \in Sender |-> [held[s] EXCEPT !.open = FALSE]]
  /\ sent' = NothingSent
  /\ UNCHANGED <<network, refresher, source, targets, spc, dests, extra, refused>>

-----------------------------------------------------------------------------
Refresh ==
  \/ RefreshPlans
  \/ RefreshResolves
  \/ RefreshTakesSource
  \/ RefreshBinds
  \/ RefreshEnds

Send(s) ==
  \/ Calls(s)
  \/ Checks(s)
  \/ TakesSocket(s)
  \/ TakesTargets(s)
  \/ SendsPacket(s)
  \/ Drops(s)
  \/ Fails(s)

UdpNext ==
  \/ NetworkChanges
  \/ Refresh
  \/ RefreshFails
  \/ \E s \in Sender : Send(s)
  \/ Closes

UdpSpec == UdpInit /\ [][UdpNext]_udpVars

\* The refresh thread and the senders go on; a refresh that is tried again
\* and again ends without an exception, a socket is made in the end, and one
\* that is open and whose card is up does not find its buffer full for ever.
UdpFairSpec ==
  /\ UdpSpec
  /\ WF_udpVars(Refresh)
  /\ SF_udpVars(RefreshResolves)
  /\ \A s \in Sender : WF_udpVars(Send(s))
  /\ \A s \in Busy : SF_udpVars(Checks(s) /\ sock' # None) /\ SF_udpVars(SendsPacket(s))

-----------------------------------------------------------------------------
\* Properties

\* With monitor_interface, a packet leaves from an address of the card that a
\* refresh took, and none leaves while the last refresh that ended refused the
\* card (missing, down, excluded, a Mesa board on it) and no other has begun
\* to change things; however the sockets of the threads are replaced.
LeavesByThePlan ==
  chosen /\ sent.to # {} =>
    /\ sent.from \in Address
    /\ ~refused \/ rpc \in {"socket", "targets"}

\* With "auto", a card that stays usable is sent to at its own broadcast
\* address again.
ComesBack ==
  auto => \A a \in Address :
    <>[](Usable /\ card = a /\ ~closed) => []<>(a \in sent.to)
=============================================================================
