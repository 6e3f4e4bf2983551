---------------------------- MODULE ReEnrolment ----------------------------
(***************************************************************************)
(* A machine that changes its site: enroll() with waiting_guard            *)
(* (agent_mes_forward.py), which an operator runs in another process, and  *)
(* the agent that goes on meanwhile: it stamps new events with the site of *)
(* its spool, and its forwarder loads the enrolment and sends.             *)
(*                                                                         *)
(* Each site has a CA of its own, and its service refuses for good         *)
(* (site_mismatch) an event that carries another site.  An enrolment is    *)
(* numbered; a file holds the number of the enrolment it is from.  How a   *)
(* refused certificate rests and how the service is found again is in      *)
(* ForwarderLink, which has one site.                                      *)
(***************************************************************************)
EXTENDS Naturals, Sequences

CONSTANTS
  Site,
  NoSite,      \* site_id null; and a /v1/health that does not say its site
  Url,         \* where services are
  HomeUrl,     \* mes_service_url at first
  FirstSite,   \* Url -> Site: the services there are
  MaxRows,     \* bound: events
  MaxEnrol,    \* bound: enrolments a service answers
  MaxSetUps,   \* bound: times a service is set up again, as another site
  MaxRestarts  \* bound: restarts of the agent

ASSUME SitesAssumption ==
  /\ NoSite \notin Site /\ HomeUrl \in Url /\ FirstSite \in [Url -> Site]
ASSUME BoundsAssumption ==
  MaxRows \in Nat /\ MaxEnrol \in Nat /\ MaxSetUps \in Nat /\ MaxRestarts \in Nat

VARIABLES
  at,        \* the site of the service at each address
  setUps,
  issued,    \* certificates: their site, and the events the guard had seen
  revoked,
  file,      \* client.key, client.crt, ca.crt, enrolment.json; 0: not there
  enrol,     \* where enroll() is: idle, guard, drop, post, or the file it writes next
  job,       \* its address, the site of the CA it checked, what /v1/health
             \* said, --discard-waiting, events when the guard let it go on
  rows,      \* the spool: site, state, and the service's verdict (history)
  spoolSite, \* meta.site_id
  url,       \* configured_url of the process (mes_service_url when it started)
  fpc,       \* the forwarder: step, read, set (in _load), asked, answered
  loaded,    \* the enrolment.json _load has read
  stamp,     \* _cert_stamp
  refused,   \* status is rejected
  transport, \* the certificate and the CA in transport
  batch,     \* rows of the request
  since,     \* history: events when _load set the site
  restarts

vars == <<at, setUps, issued, revoked, file, enrol, job, rows, spoolSite, url, fpc,
          loaded, stamp, refused, transport, batch, since, restarts>>
service   == <<at, setUps, issued, revoked>>
operator  == <<enrol, job>>
forwarder == <<fpc, loaded, stamp, refused, transport, batch, since>>

Files == {"key", "cert", "ca", "doc"}
Gen == 0..MaxEnrol
NoTransport == [cert |-> 0, ca |-> 0]
NoJob == [url |-> HomeUrl, site |-> NoSite, said |-> NoSite, discard |-> FALSE, rows |-> 0]

TypeOK ==
  /\ at \in [Url -> Site] /\ setUps \in 0..MaxSetUps
  /\ issued \in Seq([site : Site, rows : 0..MaxRows]) /\ Len(issued) <= MaxEnrol
  /\ revoked \subseteq 1..Len(issued)
  /\ file \in [Files -> 0..Len(issued)]
  /\ enrol \in {"idle", "guard", "drop", "post"} \cup Files
  /\ job \in [url : Url, site : Site \cup {NoSite}, said : Site \cup {NoSite},
              discard : BOOLEAN, rows : 0..MaxRows]
  /\ rows \in Seq([site : Site \cup {NoSite}, st : {"pending", "acked", "dropped"},
                   verdict : {"none", "stored", "mismatch"}])
  /\ Len(rows) <= MaxRows
  /\ spoolSite \in Site \cup {NoSite}
  /\ url \in Url
  /\ fpc \in {"step", "read", "set", "asked", "answered"}
  /\ loaded \in Gen /\ stamp \in Gen /\ refused \in BOOLEAN
  /\ transport \in [cert : Gen, ca : Gen]
  /\ batch \subseteq DOMAIN rows
  /\ (fpc \in {"asked", "answered"}) = (batch # {})
  /\ since \in 0..MaxRows /\ restarts \in 0..MaxRestarts

Init ==
  /\ at = FirstSite /\ setUps = 0 /\ issued = <<>> /\ revoked = {}
  /\ file = [f \in Files |-> 0] /\ enrol = "idle" /\ job = NoJob
  /\ rows = <<>> /\ spoolSite = NoSite
  /\ url = HomeUrl
  /\ fpc = "step" /\ loaded = 0 /\ stamp = 0 /\ refused = FALSE
  /\ transport = NoTransport /\ batch = {} /\ since = 0 /\ restarts = 0

SiteOf(g) == issued[g].site

-----------------------------------------------------------------------------
\* enroll(), up to the answer of the service: no file is written

\* /v1/health may not answer, or not say its site.
SiteSaid(u) == {at[u], NoSite}

\* The CA is the one the code names.
EnrolAsks(u, said, discard) ==
  /\ enrol = "idle" /\ Len(issued) < MaxEnrol
  /\ said \in SiteSaid(u)
  /\ job' = [url |-> u, site |-> at[u], said |-> said, discard |-> discard, rows |-> 0]
  /\ enrol' = "guard"
  /\ UNCHANGED <<service, file, rows, spoolSite, url, forwarder, restarts>>

\* _other_site_rows: pending, with a site, and not the one the service said.
OtherSiteRows_UnknownPasses ==
  {i \in DOMAIN rows : rows[i].st = "pending" /\ rows[i].site \notin {NoSite, job.said}
                       /\ job.said # NoSite}
OtherSiteRows ==
  {i \in DOMAIN rows : rows[i].st = "pending" /\ rows[i].site \notin {NoSite, job.said}}

\* waiting_guard: nothing waits, or it is to be discarded, or it is refused.
GuardLooks ==
  /\ enrol = "guard"
  /\ enrol' = IF OtherSiteRows = {} THEN "post" ELSE IF job.discard THEN "drop" ELSE "idle"
  /\ job' = CASE enrol' = "post" -> [job EXCEPT !.rows = Len(rows)]
              [] enrol' = "drop" -> job
              [] enrol' = "idle" -> NoJob
  /\ UNCHANGED <<service, file, rows, spoolSite, url, forwarder, restarts>>

\* drop_waiting_for_other_site: one transaction, which looks again.
GuardDrops ==
  /\ enrol = "drop"
  /\ rows' = [i \in DOMAIN rows |->
                IF i \in OtherSiteRows THEN [rows[i] EXCEPT !.st = "dropped"] ELSE rows[i]]
  /\ job' = [job EXCEPT !.rows = Len(rows)]
  /\ enrol' = "post"
  /\ UNCHANGED <<service, file, spoolSite, url, forwarder, restarts>>

\* POST /v1/enroll, trusting the checked CA only.
EnrolPosts ==
  /\ enrol = "post" /\ at[job.url] = job.site
  /\ issued' = Append(issued, [site |-> job.site, rows |-> job.rows])
  /\ enrol' = "key" /\ job' = NoJob
  /\ UNCHANGED <<at, setUps, revoked, file, rows, spoolSite, url, forwarder, restarts>>

\* The four files, one after the other; service_address.json is not here.
EnrolWrites ==
  /\ enrol \in Files
  /\ file' = [file EXCEPT ![enrol] = Len(issued)]
  /\ enrol' = CASE enrol = "key" -> "cert" [] enrol = "cert" -> "ca"
                [] enrol = "ca" -> "doc" [] enrol = "doc" -> "idle"
  /\ UNCHANGED <<service, job, rows, spoolSite, url, forwarder, restarts>>

\* EnrolError, a write that fails, or the end of the process.
EnrolFails ==
  /\ enrol # "idle"
  /\ enrol' = "idle" /\ job' = NoJob
  /\ UNCHANGED <<service, file, rows, spoolSite, url, forwarder, restarts>>

-----------------------------------------------------------------------------
\* The services

Revokes ==
  /\ \E g \in 1..Len(issued) : revoked' = revoked \cup {g}
  /\ UNCHANGED <<at, setUps, issued, file, operator, rows, spoolSite, url, forwarder, restarts>>

SetUpAgain ==
  /\ setUps < MaxSetUps
  /\ setUps' = setUps + 1
  /\ \E u \in Url, s \in Site : at' = [at EXCEPT ![u] = s]
  /\ UNCHANGED <<issued, revoked, file, operator, rows, spoolSite, url, forwarder, restarts>>

-----------------------------------------------------------------------------
\* The agent

\* make_event stamps the agent's own events; MillWright's have no site.
EventStored(own) ==
  /\ Len(rows) < MaxRows
  /\ rows' = Append(rows, [site |-> IF own THEN spoolSite ELSE NoSite,
                           st |-> "pending", verdict |-> "none"])
  /\ UNCHANGED <<service, file, operator, spoolSite, url, forwarder, restarts>>

\* _load: enrolment.json first.
LoadReads ==
  /\ fpc = "step" /\ transport = NoTransport
  /\ ~(refused /\ stamp = file["cert"])
  /\ IF 0 \in {file[f] : f \in Files}
       THEN refused' = FALSE /\ UNCHANGED <<fpc, loaded>>
       ELSE fpc' = "read" /\ loaded' = file["doc"] /\ UNCHANGED refused
  /\ UNCHANGED <<service, file, operator, rows, spoolSite, url, stamp, transport, batch, since,
                 restarts>>

\* The stamp of client.crt, and set_site_id.
SiteSet == SiteOf(loaded)

LoadSetsSite ==
  /\ fpc = "read"
  /\ stamp' = file["cert"]
  /\ spoolSite' = SiteSet
  /\ since' = Len(rows)
  /\ fpc' = "set"
  /\ UNCHANGED <<service, file, operator, rows, url, loaded, refused, transport, batch, restarts>>

\* Transport reads the files; a key that is not the certificate's fails.
LoadOpens ==
  /\ fpc = "set"
  /\ fpc' = "step"
  /\ IF file["key"] = file["cert"]
       THEN transport' = [cert |-> file["cert"], ca |-> file["ca"]] /\ UNCHANGED refused
       ELSE refused' = FALSE /\ UNCHANGED transport
  /\ UNCHANGED <<service, file, operator, rows, spoolSite, url, loaded, stamp, batch, since,
                 restarts>>

Pending == {i \in DOMAIN rows : rows[i].st = "pending"}

Sends ==
  /\ fpc = "step" /\ transport # NoTransport
  /\ Pending # {}
  /\ batch' = Pending /\ fpc' = "asked"
  /\ UNCHANGED <<service, file, operator, rows, spoolSite, url, loaded, stamp, refused, transport,
                 since, restarts>>

\* TLS both ways: the machine trusts the service, the service the machine.
Trusts == SiteOf(transport.ca) = at[url]
Trusted == SiteOf(transport.cert) = at[url] /\ transport.cert \notin revoked

Verdict(r) ==
  IF r.verdict # "none" THEN r.verdict
  ELSE IF r.site \in {NoSite, at[url]} THEN "stored" ELSE "mismatch"

ServiceAnswers ==
  /\ fpc = "asked" /\ Trusts /\ Trusted
  /\ rows' = [i \in DOMAIN rows |->
                IF i \in batch THEN [rows[i] EXCEPT !.verdict = Verdict(rows[i])] ELSE rows[i]]
  /\ fpc' = "answered"
  /\ UNCHANGED <<service, file, operator, spoolSite, url, loaded, stamp, refused, transport,
                 batch, since, restarts>>

\* mark_acked: every verdict is final; "WHERE seq=? AND state='pending'".
AckedBy_AnyState(r) == [r EXCEPT !.st = "acked"]
AckedBy(r) == IF r.st = "pending" THEN [r EXCEPT !.st = "acked"] ELSE r

Acks ==
  /\ fpc = "answered"
  /\ rows' = [i \in DOMAIN rows |-> IF i \in batch THEN AckedBy(rows[i]) ELSE rows[i]]
  /\ fpc' = "step" /\ batch' = {}
  /\ UNCHANGED <<service, file, operator, spoolSite, url, loaded, stamp, refused, transport,
                 since, restarts>>

\* 401, 403 or a TLS alert: no transport until client.crt is another one.
ServiceRefuses ==
  /\ fpc = "asked" /\ Trusts /\ ~Trusted
  /\ fpc' = "step" /\ batch' = {}
  /\ transport' = NoTransport /\ refused' = TRUE
  /\ UNCHANGED <<service, file, operator, rows, spoolSite, url, loaded, stamp, since, restarts>>

\* Another CA than the machine trusts, no connection, or an answer that is lost.
GivesUp ==
  /\ fpc \in {"asked", "answered"}
  /\ fpc' = "step" /\ batch' = {}
  /\ refused' = FALSE
  /\ UNCHANGED <<service, file, operator, rows, spoolSite, url, loaded, stamp, transport, since,
                 restarts>>

\* At any time, also as --mes-enroll says after an enrolment; the operator may
\* have set mes_service_url, by --mes-enroll or by hand, before or after it.
Restarts ==
  /\ restarts < MaxRestarts
  /\ restarts' = restarts + 1
  /\ url' \in Url
  /\ fpc' = "step" /\ loaded' = 0 /\ stamp' = 0 /\ refused' = FALSE
  /\ transport' = NoTransport /\ batch' = {}
  /\ UNCHANGED <<service, file, operator, rows, spoolSite, since>>

-----------------------------------------------------------------------------
Enroll ==
  \/ \E u \in Url, said \in Site \cup {NoSite}, discard \in BOOLEAN : EnrolAsks(u, said, discard)
  \/ GuardLooks
  \/ GuardDrops
  \/ EnrolPosts
  \/ EnrolWrites
  \/ EnrolFails

Agent ==
  \/ \E own \in BOOLEAN : EventStored(own)
  \/ LoadReads
  \/ LoadSetsSite
  \/ LoadOpens
  \/ Sends
  \/ ServiceAnswers
  \/ Acks
  \/ ServiceRefuses
  \/ GivesUp
  \/ Restarts

Next ==
  \/ Enroll
  \/ Revokes
  \/ SetUpAgain
  \/ Agent

Spec == Init /\ [][Next]_vars

-----------------------------------------------------------------------------
\* Properties

\* "Re-enrolling with another site no longer loses waiting events", as far as
\* the guard makes it so: an event is rejected as one of another site only when
\* it was stored between the guard's look and the load of the new enrolment, or
\* when that load read files of two enrolments.  What waited before is of the
\* right site, or the enrolment is refused, or it is discarded; what comes after
\* the load has the new site.
InTheGap(i) ==
  LET g == transport.cert
  IN  /\ i > issued[g].rows
      /\ i <= since \/ SiteOf(loaded) # SiteOf(g)

LostOnlyInTheGap ==
  [][\A i \in DOMAIN rows :
       rows[i].verdict = "none" /\ rows'[i].verdict = "mismatch" => InTheGap(i)]_vars

\* "Marked dropped and never sent", beside a forwarder that may have the row
\* in a request already: it goes in no further request, and the answer to that
\* one does not make it an acknowledged row.
DroppedStaysDropped ==
  [][\A i \in DOMAIN rows :
       rows[i].st = "dropped" => /\ rows'[i].st = "dropped"
                                 /\ i \in batch' => i \in batch]_vars
=============================================================================
