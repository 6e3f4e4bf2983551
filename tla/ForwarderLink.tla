--------------------------- MODULE ForwarderLink ---------------------------
(***************************************************************************)
(* Whom the forwarder talks to, and with which certificate:                *)
(* agent_mes_forward.py, Forwarder._load, _call, _look and step, beside    *)
(* enroll(), which an operator runs in another process while the agent     *)
(* goes on.  The four enrolment files are written one after the other and  *)
(* read one after the other, without a lock.                               *)
(*                                                                         *)
(* An enrolment is numbered; a file holds the number of the enrolment it   *)
(* is from.  All enrolments are with one site, so ca.crt and the site id   *)
(* never differ.  What is sent is in ForwarderBatch, what becomes of it in *)
(* MesPipeline; here a request only tells who answers it, and how.         *)
(***************************************************************************)
EXTENDS Naturals

CONSTANTS
  Addr,        \* where a service may be
  Configured,  \* mes_service_url
  NoAddr,      \* no service_address.json
  LookAfter,   \* LOOK_AFTER_FAILS
  MaxEnrol,    \* bound: enrolments
  MaxMoves,    \* bound: times the service moves
  MaxRestarts  \* bound: restarts of the agent

ASSUME AddrAssumption == Configured \in Addr /\ NoAddr \notin Addr
ASSUME BoundsAssumption ==
  /\ LookAfter \in Nat \ {0}
  /\ MaxEnrol \in Nat /\ MaxMoves \in Nat /\ MaxRestarts \in Nat

VARIABLES
  key, cert, doc, \* client.key, client.crt, enrolment.json; 0: not there
  found,     \* service_address.json
  enrol,     \* where enroll() is: idle, key, cert, doc (that is written next),
             \* found (service_address.json is removed next)
  issued,    \* certificates the service has issued
  revoked,   \* those the service refuses
  expired,   \* those whose not_after has passed
  at,        \* where the service is
  moves,
  fpc,       \* the forwarder: step, read, stamped (in _load), look, switch
  loaded,    \* the enrolment.json _load has read
  stamp,     \* _cert_stamp
  transport, \* the certificate in transport; 0: None
  url,       \* self.url
  fails,     \* _fails
  state,     \* status["state"]
  cand,      \* the address _look is about to switch to, and its certificate
  refusals,  \* history: times the service refused a certificate to this process
  proved,    \* history: addresses at which the service has answered
  restarts

vars == <<key, cert, doc, found, enrol, issued, revoked, expired, at, moves, fpc, loaded,
          stamp, transport, url, fails, state, cand, refusals, proved, restarts>>
files   == <<key, cert, doc>>
service == <<issued, revoked, expired, at, moves>>
loading == <<loaded, stamp>>

Gen == 0..MaxEnrol
NoCand == [addr |-> NoAddr, cert |-> 0]

TypeOK ==
  /\ {key, cert, doc, issued, loaded, stamp, transport} \subseteq Gen
  /\ found \in Addr \cup {NoAddr}
  /\ enrol \in {"idle", "key", "cert", "doc", "found"}
  /\ revoked \subseteq 1..issued /\ expired \subseteq 1..issued
  /\ at \in Addr /\ url \in Addr /\ proved \subseteq Addr
  /\ fpc \in {"step", "read", "stamped", "look", "switch"}
  /\ fails \in 0..LookAfter
  /\ state \in {"ok", "offline", "not_enrolled", "cert_expired", "rejected"}
  /\ cand \in [addr : Addr \cup {NoAddr}, cert : Gen]
  /\ refusals \in [1..MaxEnrol -> Nat]
  /\ moves \in Nat /\ restarts \in Nat

Init ==
  /\ key = 0 /\ cert = 0 /\ doc = 0 /\ found = NoAddr
  /\ enrol = "idle" /\ issued = 0 /\ revoked = {} /\ expired = {}
  /\ at = Configured /\ moves = 0
  /\ fpc = "step" /\ loaded = 0 /\ stamp = 0 /\ transport = 0
  /\ url = Configured /\ fails = 0 /\ state = "not_enrolled" /\ cand = NoCand
  /\ refusals = [g \in 1..MaxEnrol |-> 0] /\ proved = {} /\ restarts = 0

forwarder == <<fpc, loading, transport, url, fails, state, cand, refusals, proved>>

-----------------------------------------------------------------------------
\* enroll(), from the certificate on: what comes before writes nothing.

EnrolIssues ==
  /\ enrol = "idle" /\ issued < MaxEnrol
  /\ issued' = issued + 1
  /\ enrol' = "key"
  /\ UNCHANGED <<files, found, revoked, expired, at, moves, forwarder, restarts>>

EnrolWritesKey ==
  /\ enrol = "key"
  /\ key' = issued /\ enrol' = "cert"
  /\ UNCHANGED <<cert, doc, found, service, forwarder, restarts>>

EnrolWritesCert ==
  /\ enrol = "cert"
  /\ cert' = issued /\ enrol' = "doc"
  /\ UNCHANGED <<key, doc, found, service, forwarder, restarts>>

\* ca.crt is written before enrolment.json, with what it held.
EnrolWritesDoc ==
  /\ enrol = "doc"
  /\ doc' = issued /\ enrol' = "found"
  /\ UNCHANGED <<key, cert, found, service, forwarder, restarts>>

EnrolForgetsFound ==
  /\ enrol = "found"
  /\ found' = NoAddr /\ enrol' = "idle"
  /\ UNCHANGED <<files, service, forwarder, restarts>>

\* A write raises OSError, or the process ends.
EnrolFails ==
  /\ enrol # "idle"
  /\ enrol' = "idle"
  /\ UNCHANGED <<files, found, service, forwarder, restarts>>

-----------------------------------------------------------------------------
\* The service

Revokes ==
  /\ \E g \in 1..issued : revoked' = revoked \cup {g}
  /\ UNCHANGED <<files, found, enrol, issued, expired, at, moves, forwarder, restarts>>

Expires ==
  /\ \E g \in 1..issued : expired' = expired \cup {g}
  /\ UNCHANGED <<files, found, enrol, issued, revoked, at, moves, forwarder, restarts>>

Moves ==
  /\ moves < MaxMoves
  /\ moves' = moves + 1
  /\ at' \in Addr \ {at}
  /\ UNCHANGED <<files, found, enrol, issued, revoked, expired, forwarder, restarts>>

Good(g) == g # 0 /\ g \notin revoked \cup expired

-----------------------------------------------------------------------------
\* step(): no transport

\* "same certificate: still refused; wait for a new enrolment"
StillRefused_Never == FALSE
StillRefused_Forever == state \in {"rejected", "cert_expired"}
StillRefused == state \in {"rejected", "cert_expired"} /\ stamp = cert

\* load_found: an address that differs from mes_service_url, if there is one.
FoundOrConfigured == IF found \in {NoAddr, Configured} THEN Configured ELSE found

\* _load reads enrolment.json, checks that the other files are there, and
\* reads service_address.json.
LoadReads ==
  /\ fpc = "step" /\ transport = 0
  /\ ~StillRefused
  /\ IF doc = 0
       THEN /\ state' = "not_enrolled"
            /\ UNCHANGED <<fpc, loaded, url>>
       ELSE /\ fpc' = "read"
            /\ loaded' = doc
            /\ url' = FoundOrConfigured
            /\ UNCHANGED state
  /\ UNCHANGED <<files, found, enrol, service, stamp, transport, fails, cand, refusals,
                 proved, restarts>>

\* It takes the stamp of client.crt, and looks at not_after.
LoadStamps ==
  /\ fpc = "read"
  /\ stamp' = cert
  /\ IF loaded \in expired
       THEN state' = "cert_expired" /\ fpc' = "step"
       ELSE fpc' = "stamped" /\ UNCHANGED state
  /\ UNCHANGED <<files, found, enrol, service, loaded, transport, url, fails, cand, refusals,
                 proved, restarts>>

\* Transport reads the files; a key that is not the certificate's fails.
LoadOpens ==
  /\ fpc = "stamped"
  /\ fpc' = "step"
  /\ IF key = cert THEN transport' = cert /\ UNCHANGED state
                   ELSE state' = "not_enrolled" /\ UNCHANGED transport
  /\ UNCHANGED <<files, found, enrol, service, loading, url, fails, cand, refusals, proved,
                 restarts>>

-----------------------------------------------------------------------------
\* step(): a request, with its answer

Requests == fpc = "step" /\ transport # 0

RequestTaken ==
  /\ Requests /\ url = at /\ Good(transport)
  /\ fails' = 0 /\ state' = "ok"
  /\ proved' = proved \cup {url}
  /\ UNCHANGED <<files, found, enrol, service, fpc, loading, transport, url, cand, refusals,
                 restarts>>

\* 401, 403 or a TLS alert; an alert is an SSLError and leaves _fails.
RequestRefused ==
  /\ Requests /\ url = at /\ ~Good(transport)
  /\ state' = IF transport \in revoked THEN "rejected" ELSE "cert_expired"
  /\ fails' \in {0, fails}
  /\ refusals' = [refusals EXCEPT ![transport] = @ + 1]
  /\ transport' = 0
  /\ UNCHANGED <<files, found, enrol, service, fpc, loading, url, cand, proved, restarts>>

\* 503, or an answer that is not HTTP.
RequestNotNow ==
  /\ Requests /\ url = at
  /\ state' = "offline" /\ fails' \in {0, fails}
  /\ fpc' = "look"
  /\ UNCHANGED <<files, found, enrol, service, loading, transport, url, cand, refusals,
                 proved, restarts>>

\* Timeout, refused, unreachable; or another machine has the address.
RequestUnanswered ==
  /\ Requests
  /\ state' = "offline"
  /\ fails' = IF fails < LookAfter THEN fails + 1 ELSE fails
  /\ fpc' = "look"
  /\ UNCHANGED <<files, found, enrol, service, loading, transport, url, cand, refusals,
                 proved, restarts>>

-----------------------------------------------------------------------------
\* step(): _look, once offline

\* The address passes the normal TLS check and answers 200.
Answers_AnyOne(a, g) == g # 0
Answers(a, g) == a = at /\ Good(g)

\* The files are read again: the certificate may be a newer one.
LookTries(a) ==
  /\ fpc = "look" /\ fails >= LookAfter
  /\ a # url
  /\ key = cert /\ Answers(a, cert)
  /\ cand' = [addr |-> a, cert |-> cert]
  /\ proved' = IF a = at THEN proved \cup {a} ELSE proved
  /\ fpc' = "switch"
  /\ UNCHANGED <<files, found, enrol, service, loading, transport, url, fails, state,
                 refusals, restarts>>

LookFindsNothing ==
  /\ fpc = "look"
  /\ fpc' = "step"
  /\ UNCHANGED <<files, found, enrol, service, loading, transport, url, fails, state, cand,
                 refusals, proved, restarts>>

\* The address is saved, or could not be (OSError).
LookSwitches ==
  /\ fpc = "switch"
  /\ url' = cand.addr /\ transport' = cand.cert
  /\ found' \in {found, IF cand.addr = Configured THEN NoAddr ELSE cand.addr}
  /\ fails' = 0 /\ cand' = NoCand
  /\ fpc' = "step"
  /\ UNCHANGED <<files, enrol, service, loading, state, refusals, proved, restarts>>

\* The agent ends at any point and is started again.
Restarts ==
  /\ restarts < MaxRestarts
  /\ restarts' = restarts + 1
  /\ fpc' = "step" /\ loaded' = 0 /\ stamp' = 0 /\ transport' = 0
  /\ url' = Configured /\ fails' = 0 /\ state' = "not_enrolled" /\ cand' = NoCand
  /\ refusals' = [g \in 1..MaxEnrol |-> 0]
  /\ UNCHANGED <<files, found, enrol, service, proved>>

Enroll ==
  \/ EnrolIssues
  \/ EnrolWritesKey
  \/ EnrolWritesCert
  \/ EnrolWritesDoc
  \/ EnrolForgetsFound
  \/ EnrolFails

Next ==
  \/ Enroll
  \/ Revokes
  \/ Expires
  \/ Moves
  \/ LoadReads
  \/ LoadStamps
  \/ LoadOpens
  \/ RequestTaken
  \/ RequestRefused
  \/ RequestNotNow
  \/ RequestUnanswered
  \/ \E a \in Addr : LookTries(a)
  \/ LookFindsNothing
  \/ LookSwitches
  \/ Restarts

Spec == Init /\ [][Next]_vars

\* The forwarder's rounds go on; a service that is asked again and again
\* answers again and again; a finder that is asked again and again reports the
\* service's address again and again.
FairSpec ==
  /\ Spec
  /\ WF_vars(LoadReads)
  /\ WF_vars(LoadStamps)
  /\ WF_vars(LoadOpens)
  /\ SF_vars(RequestTaken)
  /\ SF_vars(RequestRefused)
  /\ WF_vars(url # at /\ RequestUnanswered)
  /\ SF_vars(LookTries(at))
  /\ WF_vars(LookFindsNothing)
  /\ WF_vars(LookSwitches)

-----------------------------------------------------------------------------
\* Properties

\* "nothing sent with that certificate": the service refuses a certificate
\* once, however long it waits for the next enrolment.  Twice only when the
\* file was replaced while _load ran, after its stamp was taken.
RefusedCertificateRests == \A g \in 1..MaxEnrol : refusals[g] <= 2

\* Events go to the configured address, or to one at which the service itself
\* has answered; through moves, restarts and new enrolments.
AddressIsProved ==
  {url, found} \subseteq {Configured, NoAddr} \cup proved

Complete(g) == enrol = "idle" /\ g = issued /\ key = g /\ cert = g /\ doc = g

\* _load saw the new certificate and the enrolment.json before it, whose
\* certificate had expired: it takes the new one for expired, and nothing but
\* a restart or one more enrolment makes it look again.
TakenForExpired == state = "cert_expired" /\ stamp = cert /\ Good(cert)

\* "A revoked or expired certificate stops forwarding until the machine is
\* enrolled again", and then it goes on, wherever the service has moved; except
\* as TakenForExpired says.
Resumes ==
  \A g \in 1..MaxEnrol :
    Complete(g) ~> \/ state = "ok"
                   \/ ~Good(g) \/ ~Complete(g)
                   \/ TakenForExpired
=============================================================================
