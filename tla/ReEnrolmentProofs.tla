------------------------- MODULE ReEnrolmentProofs -------------------------
(***************************************************************************)
(* Proofs about ReEnrolment, for all sites and addresses and any number of *)
(* events, enrolments, services set up again and restarts.                 *)
(*                                                                         *)
(* LostOnlyInTheGap hangs on two chains.  What the guard saw is of the     *)
(* site it was told or no longer pending, and no row becomes pending again *)
(* (Guarded); and what came after a load was stamped with the site of      *)
(* that load (Stamped).                                                    *)
(***************************************************************************)
EXTENDS ReEnrolment, TLAPS, SequenceTheorems

Row == [site : Site \cup {NoSite}, st : {"pending", "acked", "dropped"},
        verdict : {"none", "stored", "mismatch"}]

\* The files a load read, and those in use, are of enrolments that were made.
Loads ==
  /\ enrol \in Files => Len(issued) # 0
  /\ enrol \in {"guard", "drop", "post"} => Len(issued) < MaxEnrol
  /\ fpc \in {"read", "set"} => transport = NoTransport /\ \A f \in Files : file[f] # 0
  /\ fpc \in {"read", "set"} \/ transport # NoTransport => loaded \in 1..Len(issued)
  /\ transport.cert <= Len(issued)
  /\ transport # NoTransport => transport.cert # 0
  /\ fpc \in {"asked", "answered"} => transport # NoTransport

\* With a transport, the spool has the site of the enrolment.json loaded with
\* it, and so have the events stored since.
Stamped ==
  /\ fpc = "set" \/ transport # NoTransport => spoolSite = SiteOf(loaded)
  /\ \A i \in DOMAIN rows : i > since => rows[i].site \in {NoSite, spoolSite}

\* What is pending, or in a request with that enrolment's certificate, and was
\* there when the guard looked has no site or the enrolment's.
Guarded ==
  /\ enrol \in {"guard", "drop", "post"} => job.site \in Site /\ job.said \in {NoSite, job.site}
  /\ \A i \in DOMAIN rows :
       enrol = "post" /\ i <= job.rows /\ rows[i].st = "pending"
         => rows[i].site \in {NoSite, job.site}
  /\ \A g \in 1..Len(issued) : \A i \in DOMAIN rows :
       /\ i <= issued[g].rows
       /\ rows[i].st = "pending" \/ (i \in batch /\ transport.cert = g)
       => rows[i].site \in {NoSite, SiteOf(g)}
  /\ job.rows <= Len(rows) /\ \A g \in 1..Len(issued) : issued[g].rows <= Len(rows)

IInv == TypeOK /\ Loads /\ Stamped /\ Guarded
LEMMA Sequences ==
  ASSUME TypeOK
  PROVE  /\ rows \in Seq(Row) /\ Len(rows) \in Nat /\ DOMAIN rows = 1..Len(rows)
         /\ \A i \in 1..Len(rows) : rows[i] \in Row
         /\ issued \in Seq([site : Site, rows : 0..MaxRows]) /\ Len(issued) \in Nat
         /\ \A g \in 1..Len(issued) : issued[g] \in [site : Site, rows : 0..MaxRows]
         /\ MaxRows \in Nat /\ MaxEnrol \in Nat
  BY BoundsAssumption, LenProperties, ElementOfSeq DEF TypeOK, Row

LEMMA InitInv == Init => IInv
<1> SUFFICES ASSUME Init PROVE IInv
  OBVIOUS
<1>1. rows = <<>> /\ issued = <<>> /\ Len(rows) = 0 /\ Len(issued) = 0 /\ DOMAIN rows = {}
  BY DEF Init
<1>2. rows \in Seq(Row) /\ issued \in Seq([site : Site, rows : 0..MaxRows])
  BY <1>1, EmptySeq
<1>3. TypeOK
  <2>1. file \in [Files -> 0..Len(issued)] /\ enrol = "idle" /\ revoked = {} /\ batch = {}
    BY <1>1 DEF Init
  <2>2. job \in [url : Url, site : Site \cup {NoSite}, said : Site \cup {NoSite},
                 discard : BOOLEAN, rows : 0..MaxRows]
    BY SitesAssumption, BoundsAssumption DEF Init, NoJob
  <2>3. transport \in [cert : Gen, ca : Gen]
    BY BoundsAssumption DEF Init, NoTransport, Gen
  <2>4. setUps \in 0..MaxSetUps /\ loaded \in Gen /\ stamp \in Gen
        /\ since \in 0..MaxRows /\ restarts \in 0..MaxRestarts
    BY BoundsAssumption DEF Init, Gen
  <2>5. at \in [Url -> Site] /\ url \in Url /\ fpc = "step" /\ refused \in BOOLEAN
        /\ spoolSite = NoSite
    BY SitesAssumption DEF Init
  <2> QED
    BY <1>1, <1>2, <2>1, <2>2, <2>3, <2>4, <2>5, BoundsAssumption DEF TypeOK, Row
<1>4. Loads /\ Stamped /\ Guarded
  BY <1>1 DEF Init, Loads, Stamped, Guarded, NoTransport, NoJob, Files
<1> QED
  BY <1>3, <1>4 DEF IInv

-----------------------------------------------------------------------------
\* What a step may do to the spool: rows keep their sites, none becomes pending
\* or is forgotten, and a new one has no site or the spool's.
RowsStep ==
  /\ rows' \in Seq(Row) /\ Len(rows) <= Len(rows') /\ Len(rows') <= MaxRows
  /\ \A i \in 1..Len(rows) :
       /\ rows'[i].site = rows[i].site
       /\ rows'[i].st = "pending" => rows[i].st = "pending"
  /\ \A i \in 1..Len(rows') : i > Len(rows) => rows'[i].site \in {NoSite, spoolSite}

\* A step that maps each row to one of the same site.
LEMMA RowsMapped ==
  ASSUME TypeOK, NEW map \in [1..Len(rows) -> Row], rows' = map,
         \A i \in 1..Len(rows) : /\ map[i].site = rows[i].site
                                 /\ map[i].st = "pending" => rows[i].st = "pending"
  PROVE  RowsStep /\ Len(rows') = Len(rows)
<1>1. Len(rows) \in Nat /\ Len(rows) <= MaxRows
  BY Sequences DEF TypeOK
<1>2. map \in Seq(Row) /\ Len(map) = Len(rows)
  BY <1>1, IsASeq
<1> QED
  BY <1>1, <1>2 DEF RowsStep

LEMMA NextRows == ASSUME IInv, [Next]_vars PROVE RowsStep
<1> USE Sequences DEF IInv
<1>1. CASE UNCHANGED rows
  BY <1>1 DEF RowsStep, TypeOK
<1>2. CASE GuardDrops
  <2> DEFINE map == [i \in DOMAIN rows |->
                       IF i \in OtherSiteRows THEN [rows[i] EXCEPT !.st = "dropped"] ELSE rows[i]]
  <2>1. map \in [1..Len(rows) -> Row] /\ rows' = map
    BY <1>2 DEF GuardDrops, Row
  <2>2. \A i \in 1..Len(rows) : /\ map[i].site = rows[i].site
                                /\ map[i].st = "pending" => rows[i].st = "pending"
    BY DEF Row
  <2> QED
    BY <2>1, <2>2, RowsMapped
<1>3. CASE ServiceAnswers
  <2> DEFINE map == [i \in DOMAIN rows |->
                       IF i \in batch THEN [rows[i] EXCEPT !.verdict = Verdict(rows[i])] ELSE rows[i]]
  <2>1. map \in [1..Len(rows) -> Row] /\ rows' = map
    BY <1>3 DEF ServiceAnswers, Row, Verdict
  <2>2. \A i \in 1..Len(rows) : /\ map[i].site = rows[i].site
                                /\ map[i].st = "pending" => rows[i].st = "pending"
    BY DEF Row
  <2> QED
    BY <2>1, <2>2, RowsMapped
<1>4. CASE Acks
  <2> DEFINE map == [i \in DOMAIN rows |-> IF i \in batch THEN AckedBy(rows[i]) ELSE rows[i]]
  <2>1. map \in [1..Len(rows) -> Row] /\ rows' = map
    BY <1>4 DEF Acks, Row, AckedBy
  <2>2. \A i \in 1..Len(rows) : /\ map[i].site = rows[i].site
                                /\ map[i].st = "pending" => rows[i].st = "pending"
    BY DEF Row, AckedBy
  <2> QED
    BY <2>1, <2>2, RowsMapped
<1>5. CASE \E own \in BOOLEAN : EventStored(own)
  <2> PICK own \in BOOLEAN : EventStored(own)
    BY <1>5
  <2> DEFINE r == [site |-> IF own THEN spoolSite ELSE NoSite, st |-> "pending", verdict |-> "none"]
  <2>1. r \in Row
    BY DEF TypeOK, Row
  <2>2. rows' = Append(rows, r) /\ Len(rows) < MaxRows
    BY DEF EventStored
  <2>3. /\ rows' \in Seq(Row) /\ Len(rows') = Len(rows) + 1
        /\ \A i \in 1..Len(rows) : rows'[i] = rows[i]
        /\ rows'[Len(rows) + 1] = r
    BY <2>1, <2>2, AppendProperties
  <2>4. r.site \in {NoSite, spoolSite}
    OBVIOUS
  <2> HIDE DEF r
  <2>5. \A i \in 1..Len(rows') : i > Len(rows) => i = Len(rows) + 1
    BY <2>3
  <2> QED
    BY <2>2, <2>3, <2>4, <2>5 DEF RowsStep
<1> QED
  BY <1>1, <1>2, <1>3, <1>4, <1>5
  DEF Next, Enroll, Agent, EnrolAsks, GuardLooks, EnrolPosts, EnrolWrites, EnrolFails, Revokes,
      SetUpAgain, LoadReads, LoadSetsSite, LoadOpens, Sends, ServiceRefuses, GivesUp, Restarts, vars

\* The rows after a step, as the other lemmas use them.
LEMMA RowsAfter ==
  ASSUME TypeOK, RowsStep
  PROVE  /\ Len(rows') \in Nat /\ DOMAIN rows' = 1..Len(rows') /\ Len(rows) \in Nat
         /\ DOMAIN rows = 1..Len(rows) /\ DOMAIN rows \subseteq DOMAIN rows'
<1>1. rows' \in Seq(Row) /\ Len(rows) <= Len(rows') /\ Len(rows) \in Nat /\ DOMAIN rows = 1..Len(rows)
  BY Sequences DEF RowsStep
<1>2. Len(rows') \in Nat /\ DOMAIN rows' = 1..Len(rows')
  BY <1>1, LenProperties
<1> QED
  BY <1>1, <1>2

\* Certificates are only ever added; the new one is the guard's.
IssuedStep ==
  \/ UNCHANGED issued
  \/ /\ EnrolPosts
     /\ Len(issued') = Len(issued) + 1 /\ Len(issued') <= MaxEnrol
     /\ issued' \in Seq([site : Site, rows : 0..MaxRows])
     /\ \A g \in 1..Len(issued) : issued'[g] = issued[g]
     /\ issued'[Len(issued) + 1] = [site |-> job.site, rows |-> job.rows]

LEMMA NextIssued == ASSUME IInv, [Next]_vars PROVE IssuedStep
<1> USE DEF IInv
<1>1. CASE UNCHANGED issued
  BY <1>1 DEF IssuedStep
<1>2. CASE EnrolPosts
  <2> DEFINE c == [site |-> job.site, rows |-> job.rows]
  <2>1. c \in [site : Site, rows : 0..MaxRows]
    BY <1>2 DEF EnrolPosts, TypeOK, Guarded
  <2>2. issued' = Append(issued, c)
    BY <1>2 DEF EnrolPosts
  <2>3. Len(issued) < MaxEnrol
    BY <1>2 DEF EnrolPosts, Loads
  <2> HIDE DEF c
  <2>4. /\ issued' \in Seq([site : Site, rows : 0..MaxRows]) /\ Len(issued') = Len(issued) + 1
        /\ \A g \in 1..Len(issued) : issued'[g] = issued[g]
        /\ issued'[Len(issued) + 1] = c
    BY <2>1, <2>2, Sequences, AppendProperties
  <2> QED
    BY <1>2, <2>3, <2>4, Sequences DEF IssuedStep, c
<1> QED
  BY <1>1, <1>2
  DEF Next, Enroll, Agent, EnrolAsks, GuardLooks, GuardDrops, EnrolWrites, EnrolFails, Revokes,
      SetUpAgain, EventStored, LoadReads, LoadSetsSite, LoadOpens, Sends, ServiceAnswers, Acks,
      ServiceRefuses, GivesUp, Restarts, vars, service

\* What the constants and the certificates a step leaves behind are worth.
LEMMA IssuedAfter ==
  ASSUME TypeOK, IssuedStep
  PROVE  /\ issued' \in Seq([site : Site, rows : 0..MaxRows])
         /\ Len(issued') \in Nat /\ Len(issued) <= Len(issued') /\ Len(issued') <= MaxEnrol
         /\ \A g \in 1..Len(issued) : issued'[g] = issued[g] /\ SiteOf(g)' = SiteOf(g)
         /\ \A g \in 1..Len(issued') : issued'[g] \in [site : Site, rows : 0..MaxRows]
<1>1. issued' \in Seq([site : Site, rows : 0..MaxRows])
  BY Sequences DEF IssuedStep
<1>2. /\ Len(issued') \in Nat
      /\ \A g \in 1..Len(issued') : issued'[g] \in [site : Site, rows : 0..MaxRows]
  BY <1>1, LenProperties, ElementOfSeq
<1>3. \A g \in 1..Len(issued) : issued'[g] = issued[g]
  BY DEF IssuedStep
<1>4. Len(issued) <= Len(issued') /\ Len(issued') <= MaxEnrol
  BY Sequences DEF IssuedStep, TypeOK
<1> QED
  BY <1>1, <1>2, <1>3, <1>4 DEF SiteOf

-----------------------------------------------------------------------------
\* Types

LEMMA NextType == ASSUME IInv, [Next]_vars PROVE TypeOK'
<1>1. RowsStep /\ IssuedStep
  BY NextRows, NextIssued
<1>2. /\ rows' \in Seq(Row) /\ Len(rows') <= MaxRows /\ Len(rows') \in Nat
      /\ DOMAIN rows \subseteq DOMAIN rows'
  BY <1>1, RowsAfter DEF IInv, RowsStep
<1>3. /\ issued' \in Seq([site : Site, rows : 0..MaxRows])
      /\ Len(issued') \in Nat /\ Len(issued) <= Len(issued') /\ Len(issued') <= MaxEnrol
      /\ Len(issued) \in Nat /\ MaxEnrol \in Nat /\ MaxRows \in Nat
  BY <1>1, IssuedAfter, Sequences DEF IInv
<1>4. at' \in [Url -> Site] /\ setUps' \in 0..MaxSetUps /\ restarts' \in 0..MaxRestarts
  <2>1. CASE SetUpAgain
    BY <2>1, BoundsAssumption DEF IInv, TypeOK, SetUpAgain
  <2>2. CASE Restarts
    BY <2>2, BoundsAssumption DEF IInv, TypeOK, Restarts, service
  <2>3. CASE UNCHANGED <<at, setUps, restarts>>
    BY <2>3 DEF IInv, TypeOK
  <2> QED
    BY <2>1, <2>2, <2>3
    DEF Next, Enroll, Agent, EnrolAsks, GuardLooks, GuardDrops, EnrolPosts, EnrolWrites, EnrolFails,
        Revokes, EventStored, LoadReads, LoadSetsSite, LoadOpens, Sends, ServiceAnswers, Acks,
        ServiceRefuses, GivesUp, vars, service
<1>5. revoked' \subseteq 1..Len(issued') /\ file' \in [Files -> 0..Len(issued')]
  <2>1. CASE Revokes
    BY <1>3, <2>1 DEF IInv, TypeOK, Revokes
  <2>2. CASE EnrolWrites
    BY <1>3, <2>2 DEF IInv, TypeOK, EnrolWrites, service
  <2>3. CASE UNCHANGED <<revoked, file>>
    BY <1>3, <2>3 DEF IInv, TypeOK
  <2> QED
    BY <2>1, <2>2, <2>3
    DEF Next, Enroll, Agent, EnrolAsks, GuardLooks, GuardDrops, EnrolPosts, EnrolFails,
        SetUpAgain, EventStored, LoadReads, LoadSetsSite, LoadOpens, Sends, ServiceAnswers, Acks,
        ServiceRefuses, GivesUp, Restarts, vars, service
<1>6. enrol' \in {"idle", "guard", "drop", "post"} \cup Files
      /\ job' \in [url : Url, site : Site \cup {NoSite}, said : Site \cup {NoSite},
                   discard : BOOLEAN, rows : 0..MaxRows]
  <2> DEFINE Job == [url : Url, site : Site \cup {NoSite}, said : Site \cup {NoSite},
                     discard : BOOLEAN, rows : 0..MaxRows]
  <2>1. NoJob \in Job
    BY <1>3, SitesAssumption DEF NoJob
  <2>2. Len(rows) \in 0..MaxRows
    BY Sequences DEF IInv, TypeOK
  <2>3. CASE \E u \in Url, said \in Site \cup {NoSite}, discard \in BOOLEAN :
               EnrolAsks(u, said, discard)
    <3> PICK u \in Url, said \in Site \cup {NoSite}, discard \in BOOLEAN :
              EnrolAsks(u, said, discard)
      BY <2>3
    <3>1. at[u] \in Site
      BY DEF IInv, TypeOK
    <3> QED
      BY <1>3, <3>1 DEF EnrolAsks
  <2>4. CASE GuardLooks
    BY <2>1, <2>2, <2>4 DEF IInv, TypeOK, GuardLooks
  <2>5. CASE GuardDrops
    BY <2>2, <2>5 DEF IInv, TypeOK, GuardDrops
  <2>6. CASE EnrolPosts \/ EnrolFails
    BY <2>1, <2>6 DEF EnrolPosts, EnrolFails, Files
  <2>7. CASE EnrolWrites
    BY <2>7 DEF IInv, TypeOK, EnrolWrites, Files
  <2>8. CASE UNCHANGED operator
    BY <2>8 DEF IInv, TypeOK, operator
  <2> QED
    BY <2>3, <2>4, <2>5, <2>6, <2>7, <2>8
    DEF Next, Enroll, Agent, Revokes,
        SetUpAgain, EventStored, LoadReads, LoadSetsSite, LoadOpens, Sends, ServiceAnswers, Acks,
        ServiceRefuses, GivesUp, Restarts, vars, operator
<1>7. spoolSite' \in Site \cup {NoSite} /\ url' \in Url /\ since' \in 0..MaxRows
  <2>1. CASE LoadSetsSite
    <3>1. SiteOf(loaded) \in Site
      BY <2>1, Sequences DEF IInv, Loads, LoadSetsSite, SiteOf
    <3>2. Len(rows) \in 0..MaxRows
      BY Sequences DEF IInv, TypeOK
    <3> QED
      BY <2>1, <3>1, <3>2 DEF IInv, TypeOK, LoadSetsSite, SiteSet
  <2>2. CASE Restarts
    BY <2>2 DEF IInv, TypeOK, Restarts
  <2>3. CASE UNCHANGED <<spoolSite, url, since>>
    BY <2>3 DEF IInv, TypeOK
  <2> QED
    BY <2>1, <2>2, <2>3
    DEF Next, Enroll, Agent, EnrolAsks, GuardLooks, GuardDrops, EnrolPosts, EnrolWrites, EnrolFails,
        Revokes, SetUpAgain, EventStored, LoadReads, LoadOpens, Sends, ServiceAnswers, Acks,
        ServiceRefuses, GivesUp, vars, forwarder
<1>8. /\ fpc' \in {"step", "read", "set", "asked", "answered"}
      /\ loaded' \in Gen /\ stamp' \in Gen /\ transport' \in [cert : Gen, ca : Gen]
      /\ batch' \subseteq DOMAIN rows' /\ (fpc' \in {"asked", "answered"} <=> batch' # {})
  <2>1. /\ fpc \in {"step", "read", "set", "asked", "answered"}
        /\ loaded \in Gen /\ stamp \in Gen /\ transport \in [cert : Gen, ca : Gen]
        /\ batch \subseteq DOMAIN rows /\ (fpc \in {"asked", "answered"} <=> batch # {})
        /\ \A f \in Files : file[f] \in Gen
    BY <1>3 DEF IInv, TypeOK, Gen
  <2>2. NoTransport \in [cert : Gen, ca : Gen] /\ 0 \in Gen
    BY <1>3 DEF NoTransport, Gen
  <2>3. CASE LoadReads
    BY <1>2, <2>1, <2>3 DEF LoadReads, Files
  <2>4. CASE LoadSetsSite
    BY <1>2, <2>1, <2>4 DEF LoadSetsSite, Files
  <2>5. CASE LoadOpens
    BY <1>2, <2>1, <2>5 DEF LoadOpens, Files
  <2>6. CASE Sends
    BY <1>2, <2>1, <2>6 DEF Sends, Pending
  <2>7. CASE ServiceAnswers \/ Acks \/ ServiceRefuses \/ GivesUp
    BY <1>2, <2>1, <2>2, <2>7 DEF ServiceAnswers, Acks, ServiceRefuses, GivesUp
  <2>8. CASE Restarts
    BY <1>2, <2>2, <2>8 DEF Restarts
  <2>9. CASE UNCHANGED forwarder
    BY <1>2, <2>1, <2>9 DEF forwarder
  <2> QED
    BY <2>3, <2>4, <2>5, <2>6, <2>7, <2>8, <2>9
    DEF Next, Enroll, Agent, EnrolAsks, GuardLooks, GuardDrops, EnrolPosts, EnrolWrites, EnrolFails,
        Revokes, SetUpAgain, EventStored, vars, forwarder
<1>9. refused' \in BOOLEAN
  BY DEF IInv, TypeOK, Next, Enroll, Agent, EnrolAsks, GuardLooks, GuardDrops, EnrolPosts,
         EnrolWrites, EnrolFails, Revokes, SetUpAgain, EventStored, LoadReads, LoadSetsSite,
         LoadOpens, Sends, ServiceAnswers, Acks, ServiceRefuses, GivesUp, Restarts, vars, forwarder
<1>10. (fpc' \in {"asked", "answered"}) = (batch' # {})
  BY <1>8
<1> QED
  BY <1>2, <1>3, <1>4, <1>5, <1>6, <1>7, <1>8, <1>9, <1>10 DEF TypeOK, Row

-----------------------------------------------------------------------------
\* The invariants

LEMMA NextLoads == ASSUME IInv, [Next]_vars PROVE Loads'
<1>1. IssuedStep
  BY NextIssued
<1>2. /\ Len(issued) \in Nat /\ Len(issued') \in Nat /\ Len(issued) <= Len(issued')
      /\ MaxEnrol \in Nat
  BY <1>1, IssuedAfter, Sequences DEF IInv
<1>3. /\ \A f \in Files : file[f] \in Nat /\ file[f] <= Len(issued)
      /\ file \in [Files -> 0..Len(issued)] /\ loaded \in Nat
      /\ transport \in [cert : Gen, ca : Gen] /\ transport.cert \in Nat
  BY <1>2 DEF IInv, TypeOK, Gen
<1>4. /\ enrol' \in Files => Len(issued') # 0
      /\ enrol' \in {"guard", "drop", "post"} => Len(issued') < MaxEnrol
  <2>1. CASE EnrolPosts
    BY <1>1, <1>2, <2>1 DEF IInv, Loads, EnrolPosts, IssuedStep, Files
  <2>2. CASE \E u \in Url, said \in Site \cup {NoSite}, discard \in BOOLEAN :
               EnrolAsks(u, said, discard)
    BY <1>2, <2>2 DEF EnrolAsks, service, Files
  <2>3. CASE GuardLooks
    BY <2>3 DEF IInv, Loads, GuardLooks, service, Files
  <2>4. CASE GuardDrops \/ EnrolWrites \/ EnrolFails
    BY <2>4 DEF IInv, Loads, GuardDrops, EnrolWrites, EnrolFails, service, Files
  <2>5. CASE UNCHANGED <<enrol, issued>>
    BY <2>5 DEF IInv, Loads
  <2> QED
    BY <2>1, <2>2, <2>3, <2>4, <2>5
    DEF Next, Enroll, Agent, Revokes, SetUpAgain, EventStored, LoadReads, LoadSetsSite, LoadOpens,
        Sends, ServiceAnswers, Acks, ServiceRefuses, GivesUp, Restarts, vars, service, operator
<1>5. \A f \in Files : file[f] # 0 => file'[f] # 0
  <2>1. CASE EnrolWrites
    BY <1>2, <1>3, <2>1 DEF IInv, Loads, EnrolWrites
  <2>2. CASE UNCHANGED file
    BY <2>2
  <2> QED
    BY <2>1, <2>2
    DEF Next, Enroll, Agent, EnrolAsks, GuardLooks, GuardDrops, EnrolPosts, EnrolFails, Revokes,
        SetUpAgain, EventStored, LoadReads, LoadSetsSite, LoadOpens, Sends, ServiceAnswers, Acks,
        ServiceRefuses, GivesUp, Restarts, vars
<1>6. /\ fpc' \in {"read", "set"} => transport' = NoTransport /\ \A f \in Files : file'[f] # 0
      /\ fpc' \in {"read", "set"} \/ transport' # NoTransport => loaded' \in 1..Len(issued')
      /\ transport'.cert <= Len(issued')
      /\ transport' # NoTransport => transport'.cert # 0
      /\ fpc' \in {"asked", "answered"} => transport' # NoTransport
  <2>1. CASE LoadReads
    BY <1>2, <1>3, <1>5, <2>1 DEF IInv, Loads, LoadReads, service, Files, NoTransport
  <2>2. CASE LoadSetsSite
    BY <1>2, <1>3, <1>5, <2>2 DEF IInv, Loads, LoadSetsSite, service
  <2>3. CASE LoadOpens
    BY <1>2, <1>3, <1>5, <2>3 DEF IInv, Loads, LoadOpens, service, Files, NoTransport
  <2>4. CASE Sends
    BY <1>2, <1>3, <1>5, <2>4 DEF IInv, Loads, Sends, service
  <2>5. CASE ServiceAnswers \/ Acks \/ GivesUp
    BY <1>2, <1>3, <1>5, <2>5 DEF IInv, Loads, ServiceAnswers, Acks, GivesUp, service
  <2>6. CASE ServiceRefuses \/ Restarts
    BY <1>2, <2>6 DEF ServiceRefuses, Restarts, NoTransport
  <2>7. CASE UNCHANGED forwarder
    BY <1>2, <1>3, <1>5, <2>7 DEF IInv, Loads, forwarder
  <2> QED
    BY <2>1, <2>2, <2>3, <2>4, <2>5, <2>6, <2>7
    DEF Next, Enroll, Agent, EnrolAsks, GuardLooks, GuardDrops, EnrolPosts, EnrolWrites, EnrolFails,
        Revokes, SetUpAgain, EventStored, vars, forwarder
<1> QED
  BY <1>4, <1>6 DEF Loads

LEMMA NextStamped == ASSUME IInv, [Next]_vars PROVE Stamped'
<1>1. RowsStep /\ IssuedStep
  BY NextRows, NextIssued
<1>2. /\ Len(rows') \in Nat /\ DOMAIN rows' = 1..Len(rows') /\ Len(rows) \in Nat
      /\ DOMAIN rows = 1..Len(rows) /\ Len(rows) <= Len(rows')
      /\ \A i \in 1..Len(rows) : rows'[i].site = rows[i].site
      /\ \A i \in 1..Len(rows') : i > Len(rows) => rows'[i].site \in {NoSite, spoolSite}
  BY <1>1, RowsAfter DEF IInv, RowsStep
<1>3. since \in Nat
  BY Sequences DEF IInv, TypeOK
<1>4. \A g \in 1..Len(issued) : SiteOf(g)' = SiteOf(g)
  BY <1>1, IssuedAfter DEF IInv
<1>5. CASE LoadSetsSite
  <2>1. rows' = rows /\ since' = Len(rows) /\ fpc' = "set" /\ spoolSite' = SiteOf(loaded)
        /\ UNCHANGED <<loaded, issued>>
    BY <1>5 DEF LoadSetsSite, SiteSet, service
  <2>2. SiteOf(loaded)' = SiteOf(loaded)
    BY <2>1 DEF SiteOf
  <2> QED
    BY <1>2, <2>1, <2>2 DEF Stamped
<1>6. CASE ~LoadSetsSite /\ spoolSite' = spoolSite /\ since' = since
  <2>1. \A i \in DOMAIN rows' : i > since' => rows'[i].site \in {NoSite, spoolSite'}
    BY <1>2, <1>3, <1>6 DEF IInv, Stamped
  <2>2. fpc' = "set" \/ transport' # NoTransport =>
          (fpc = "set" \/ transport # NoTransport) /\ loaded' = loaded
    <3>1. CASE LoadReads \/ LoadOpens
      BY <3>1 DEF LoadReads, LoadOpens
    <3>2. CASE Sends \/ ServiceAnswers \/ Acks \/ ServiceRefuses \/ GivesUp \/ Restarts
      BY <3>2 DEF Sends, ServiceAnswers, Acks, ServiceRefuses, GivesUp, Restarts
    <3>3. CASE UNCHANGED forwarder
      BY <3>3 DEF forwarder
    <3> QED
      BY <1>6, <3>1, <3>2, <3>3
      DEF Next, Enroll, Agent, EnrolAsks, GuardLooks, GuardDrops, EnrolPosts, EnrolWrites,
          EnrolFails, Revokes, SetUpAgain, EventStored, vars, forwarder
  <2>3. fpc' = "set" \/ transport' # NoTransport => spoolSite' = SiteOf(loaded)'
    <3> SUFFICES ASSUME fpc' = "set" \/ transport' # NoTransport
                 PROVE  spoolSite' = SiteOf(loaded)'
      OBVIOUS
    <3>1. /\ fpc = "set" \/ transport # NoTransport
          /\ loaded' = loaded /\ loaded \in 1..Len(issued) /\ spoolSite = SiteOf(loaded)
      BY <2>2 DEF IInv, Loads, Stamped
    <3>2. issued'[loaded] = issued[loaded]
      BY <1>1, <3>1, IssuedAfter DEF IInv
    <3> QED
      BY <1>6, <3>1, <3>2 DEF SiteOf
  <2> QED
    BY <2>1, <2>3 DEF Stamped
<1> QED
  BY <1>5, <1>6
  DEF Next, Enroll, Agent, EnrolAsks, GuardLooks, GuardDrops, EnrolPosts, EnrolWrites, EnrolFails,
      Revokes, SetUpAgain, EventStored, LoadReads, LoadOpens, Sends, ServiceAnswers, Acks,
      ServiceRefuses, GivesUp, Restarts, vars, forwarder

LEMMA NextGuarded == ASSUME IInv, [Next]_vars PROVE Guarded'
<1>1. RowsStep /\ IssuedStep
  BY NextRows, NextIssued
<1>2. /\ Len(rows') \in Nat /\ DOMAIN rows' = 1..Len(rows') /\ Len(rows) \in Nat
      /\ DOMAIN rows = 1..Len(rows) /\ Len(rows) <= Len(rows')
      /\ \A i \in 1..Len(rows) : /\ rows'[i].site = rows[i].site
                                 /\ rows'[i].st = "pending" => rows[i].st = "pending"
  BY <1>1, RowsAfter DEF IInv, RowsStep
<1>3. /\ Len(issued) \in Nat /\ Len(issued') \in Nat /\ Len(issued) <= Len(issued')
      /\ \A g \in 1..Len(issued) : issued'[g] = issued[g] /\ SiteOf(g)' = SiteOf(g)
      /\ \A g \in 1..Len(issued) : issued[g].rows \in Nat
      /\ job.rows \in Nat
  <2>1. job.rows \in 0..MaxRows /\ MaxRows \in Nat
    BY BoundsAssumption DEF IInv, TypeOK
  <2>2. \A g \in 1..Len(issued) : issued[g].rows \in Nat
    BY <2>1, Sequences DEF IInv
  <2> QED
    BY <1>1, <2>1, <2>2, IssuedAfter, Sequences DEF IInv
<1>4. enrol' \in {"guard", "drop", "post"} => job'.site \in Site /\ job'.said \in {NoSite, job'.site}
  <2>1. CASE \E u \in Url, said \in Site \cup {NoSite}, discard \in BOOLEAN :
               EnrolAsks(u, said, discard)
    <3> PICK u \in Url, said \in Site \cup {NoSite}, discard \in BOOLEAN :
              EnrolAsks(u, said, discard)
      BY <2>1
    <3>1. at[u] \in Site
      BY DEF IInv, TypeOK
    <3> QED
      BY <3>1 DEF EnrolAsks, SiteSaid
  <2>2. CASE GuardLooks
    <3>1. job \in [url : Url, site : Site \cup {NoSite}, said : Site \cup {NoSite},
                   discard : BOOLEAN, rows : 0..MaxRows]
      BY DEF IInv, TypeOK
    <3> QED
      BY <2>2, <3>1 DEF IInv, Guarded, GuardLooks
  <2>3. CASE GuardDrops
    <3>1. job \in [url : Url, site : Site \cup {NoSite}, said : Site \cup {NoSite},
                   discard : BOOLEAN, rows : 0..MaxRows]
      BY DEF IInv, TypeOK
    <3> QED
      BY <2>3, <3>1 DEF IInv, Guarded, GuardDrops
  <2>4. CASE EnrolPosts \/ EnrolWrites \/ EnrolFails
    BY <2>4 DEF EnrolPosts, EnrolWrites, EnrolFails, Files
  <2>5. CASE UNCHANGED operator
    BY <2>5 DEF IInv, Guarded, operator
  <2> QED
    BY <2>1, <2>2, <2>3, <2>4, <2>5
    DEF Next, Enroll, Agent, Revokes, SetUpAgain, EventStored, LoadReads, LoadSetsSite, LoadOpens,
        Sends, ServiceAnswers, Acks, ServiceRefuses, GivesUp, Restarts, vars, operator
<1>5. /\ \A i \in DOMAIN rows' :
           enrol' = "post" /\ i <= job'.rows /\ rows'[i].st = "pending"
             => rows'[i].site \in {NoSite, job'.site}
      /\ job'.rows <= Len(rows')
  <2>1. CASE GuardLooks
    <3>1. job \in [url : Url, site : Site \cup {NoSite}, said : Site \cup {NoSite},
                   discard : BOOLEAN, rows : 0..MaxRows]
      BY DEF IInv, TypeOK
    <3>2. rows' = rows /\ job.said \in {NoSite, job.site} /\ job.rows <= Len(rows)
      BY <2>1 DEF GuardLooks, IInv, Guarded
    <3>3. CASE OtherSiteRows = {}
      <4>1. enrol' = "post" /\ job' = [job EXCEPT !.rows = Len(rows)]
        BY <2>1, <3>3 DEF GuardLooks
      <4>2. \A i \in DOMAIN rows : rows[i].st = "pending" => rows[i].site \in {NoSite, job.said}
        BY <3>3 DEF OtherSiteRows
      <4> QED
        BY <1>2, <3>1, <3>2, <4>1, <4>2
    <3>4. CASE OtherSiteRows # {}
      BY <1>2, <2>1, <3>2, <3>4 DEF GuardLooks, NoJob
    <3> QED
      BY <3>3, <3>4
  <2>2. CASE GuardDrops
    <3>1. job \in [url : Url, site : Site \cup {NoSite}, said : Site \cup {NoSite},
                   discard : BOOLEAN, rows : 0..MaxRows]
      BY DEF IInv, TypeOK
    <3>2. job.said \in {NoSite, job.site} /\ job' = [job EXCEPT !.rows = Len(rows)]
      BY <2>2 DEF GuardDrops, IInv, Guarded
    <3>3. \A i \in DOMAIN rows : i \in OtherSiteRows => rows'[i].st = "dropped"
      <4>1. \A i \in DOMAIN rows : rows[i] \in Row
        BY Sequences DEF IInv
      <4> QED
        BY <2>2, <4>1 DEF GuardDrops, Row
    <3>4. \A i \in DOMAIN rows : rows'[i].st = "pending" => rows[i].site \in {NoSite, job.said}
      BY <1>2, <3>3 DEF OtherSiteRows
    <3> QED
      BY <1>2, <2>2, <3>1, <3>2, <3>4 DEF GuardDrops
  <2>3. CASE \E u \in Url, said \in Site \cup {NoSite}, discard \in BOOLEAN :
               EnrolAsks(u, said, discard)
    BY <1>2, <2>3 DEF EnrolAsks
  <2>4. CASE EnrolPosts \/ EnrolFails
    BY <1>2, <2>4 DEF EnrolPosts, EnrolFails, NoJob
  <2>5. CASE EnrolWrites
    BY <1>2, <2>5 DEF EnrolWrites, IInv, Guarded, Files
  <2>6. CASE UNCHANGED operator
    BY <1>2, <1>3, <2>6 DEF IInv, Guarded, operator
  <2> QED
    BY <2>1, <2>2, <2>3, <2>4, <2>5, <2>6
    DEF Next, Enroll, Agent, Revokes, SetUpAgain, EventStored, LoadReads, LoadSetsSite, LoadOpens,
        Sends, ServiceAnswers, Acks, ServiceRefuses, GivesUp, Restarts, vars, operator
\* A row in a request was pending when the request was made.
<1>6. \A g \in 1..Len(issued), i \in 1..Len(rows') :
        i \in batch' /\ transport'.cert = g =>
          i \in DOMAIN rows /\ (rows[i].st = "pending" \/ (i \in batch /\ transport.cert = g))
  <2>1. CASE Sends
    BY <2>1 DEF Sends, Pending
  <2>2. CASE Acks \/ ServiceRefuses \/ GivesUp \/ Restarts
    BY <2>2 DEF Acks, ServiceRefuses, GivesUp, Restarts
  <2>3. CASE LoadReads \/ LoadSetsSite \/ LoadOpens
    <3>1. batch' = {}
      BY <2>3 DEF LoadReads, LoadSetsSite, LoadOpens, IInv, TypeOK
    <3> QED
      BY <3>1
  <2>4. CASE UNCHANGED <<batch, transport>>
    BY <1>2, <2>4 DEF IInv, TypeOK
  <2> QED
    BY <2>1, <2>2, <2>3, <2>4
    DEF Next, Enroll, Agent, EnrolAsks, GuardLooks, GuardDrops, EnrolPosts, EnrolWrites, EnrolFails,
        Revokes, SetUpAgain, EventStored, ServiceAnswers, vars, forwarder
<1>7. \A g \in 1..Len(issued') : \A i \in DOMAIN rows' :
        /\ i <= issued'[g].rows
        /\ rows'[i].st = "pending" \/ (i \in batch' /\ transport'.cert = g)
        => rows'[i].site \in {NoSite, SiteOf(g)'}
  <2> SUFFICES ASSUME NEW g \in 1..Len(issued'), NEW i \in DOMAIN rows', i <= issued'[g].rows,
                      rows'[i].st = "pending" \/ (i \in batch' /\ transport'.cert = g)
               PROVE  rows'[i].site \in {NoSite, SiteOf(g)'}
    OBVIOUS
  <2>1. CASE g <= Len(issued)
    <3>1. g \in 1..Len(issued) /\ issued'[g] = issued[g] /\ SiteOf(g)' = SiteOf(g)
      BY <1>3, <2>1
    <3>2. i \in DOMAIN rows
      BY <1>2, <1>3, <3>1 DEF IInv, Guarded
    <3>3. rows[i].st = "pending" \/ (i \in batch /\ transport.cert = g)
      BY <1>2, <1>6, <3>1, <3>2
    <3> QED
      BY <1>2, <3>1, <3>2, <3>3 DEF IInv, Guarded
  <2>2. CASE g > Len(issued)
    <3>1. EnrolPosts /\ g = Len(issued) + 1 /\ issued'[g] = [site |-> job.site, rows |-> job.rows]
      BY <1>1, <1>3, <2>2 DEF IssuedStep
    <3>2. rows' = rows /\ transport' = transport /\ transport.cert <= Len(issued)
          /\ transport.cert \in Nat
      BY <1>3, <3>1 DEF EnrolPosts, forwarder, IInv, Loads, TypeOK, Gen
    <3>3. rows[i].st = "pending"
      BY <1>3, <2>2, <3>2
    <3>4. SiteOf(g)' = job.site /\ i <= job.rows /\ enrol = "post"
      BY <3>1 DEF SiteOf, EnrolPosts
    <3> QED
      BY <3>2, <3>3, <3>4 DEF IInv, Guarded
  <2> QED
    BY <1>3, <2>1, <2>2
<1>8. \A g \in 1..Len(issued') : issued'[g].rows <= Len(rows')
  <2> SUFFICES ASSUME NEW g \in 1..Len(issued') PROVE issued'[g].rows <= Len(rows')
    OBVIOUS
  <2>1. CASE g <= Len(issued)
    BY <1>2, <1>3, <2>1 DEF IInv, Guarded
  <2>2. CASE g > Len(issued)
    <3>1. EnrolPosts /\ g = Len(issued) + 1 /\ issued'[g] = [site |-> job.site, rows |-> job.rows]
      BY <1>1, <1>3, <2>2 DEF IssuedStep
    <3> QED
      BY <1>2, <1>3, <3>1 DEF IInv, Guarded
  <2> QED
    BY <1>3, <2>1, <2>2
<1> QED
  BY <1>4, <1>5, <1>7, <1>8 DEF Guarded

LEMMA NextInv == ASSUME IInv, [Next]_vars PROVE IInv'
  BY NextType, NextLoads, NextStamped, NextGuarded DEF IInv

-----------------------------------------------------------------------------
\* Types hold, whatever operator, services and agent do in whatever order.
THEOREM SpecTypeOK == Spec => []TypeOK
<1>1. IInv => TypeOK
  BY DEF IInv
<1> QED
  BY <1>1, InitInv, NextInv, PTL DEF Spec

\* The files in use are of enrolments that were made, events stored since a
\* load carry its site, and what the guard saw is settled (enroll, _load,
\* make_event).
THEOREM SpecInv == Spec => []IInv
<1> QED
  BY InitInv, NextInv, PTL DEF Spec

\* An event is rejected as one of another site only if it was stored between
\* the guard's look and the load of the new files, or if that load read files
\* of two enrolments (waiting_guard, set_site_id).
THEOREM SpecLostOnlyInTheGap == Spec => LostOnlyInTheGap
<1> DEFINE Lost == \A i \in DOMAIN rows :
                     rows[i].verdict = "none" /\ rows'[i].verdict = "mismatch" => InTheGap(i)
<1>1. ASSUME IInv, [Next]_vars PROVE Lost
  <2> SUFFICES ASSUME NEW i \in DOMAIN rows, rows[i].verdict = "none",
                      rows'[i].verdict = "mismatch"
               PROVE  InTheGap(i)
    OBVIOUS
  <2> USE <1>1
  <2>1. rows[i] \in Row /\ Len(rows) \in Nat /\ DOMAIN rows = 1..Len(rows)
    BY Sequences DEF IInv
  <2>2. ServiceAnswers
    <3>1. CASE UNCHANGED rows
      BY <3>1
    <3>2. CASE GuardDrops
      BY <2>1, <3>2 DEF GuardDrops, Row
    <3>3. CASE Acks
      BY <2>1, <3>3 DEF Acks, AckedBy, Row
    <3>4. CASE \E own \in BOOLEAN : EventStored(own)
      BY <2>1, <3>4 DEF EventStored, IInv, TypeOK
    <3> QED
      BY <3>1, <3>2, <3>3, <3>4
      DEF Next, Enroll, Agent, EnrolAsks, GuardLooks, EnrolPosts, EnrolWrites, EnrolFails, Revokes,
          SetUpAgain, LoadReads, LoadSetsSite, LoadOpens, Sends, ServiceRefuses, GivesUp, Restarts,
          vars
  <2>3. i \in batch /\ rows[i].site \notin {NoSite, at[url]}
    BY <2>1, <2>2 DEF ServiceAnswers, Verdict, Row
  <2>4. /\ fpc = "asked" /\ SiteOf(transport.cert) = at[url] /\ transport # NoTransport
        /\ transport.cert \in 1..Len(issued)
    BY <2>2, Sequences DEF ServiceAnswers, Trusted, IInv, Loads, TypeOK, Gen
  <2>5. issued[transport.cert].rows \in Nat /\ since \in Nat
    <3>1. issued[transport.cert] \in [site : Site, rows : 0..MaxRows] /\ MaxRows \in Nat
      BY <2>4, Sequences DEF IInv
    <3> QED
      BY <3>1 DEF IInv, TypeOK
  <2>6. ~(i <= issued[transport.cert].rows)
    BY <2>3, <2>4 DEF IInv, Guarded
  <2>7. i <= since \/ SiteOf(loaded) # SiteOf(transport.cert)
    BY <2>1, <2>3, <2>4, <2>5 DEF IInv, Stamped
  <2> QED
    BY <2>1, <2>5, <2>6, <2>7 DEF InTheGap
<1>2. ASSUME IInv, [Next]_vars PROVE [Lost]_vars
  BY <1>1, <1>2
<1> QED
  BY <1>2, SpecInv, PTL DEF Spec, LostOnlyInTheGap

\* A row that was dropped goes in no further request and is never taken for an
\* acknowledged one (drop_waiting_for_other_site beside mark_acked).
THEOREM SpecDroppedStaysDropped == Spec => DroppedStaysDropped
<1> DEFINE Stays == \A i \in DOMAIN rows :
                      rows[i].st = "dropped" => /\ rows'[i].st = "dropped"
                                                /\ i \in batch' => i \in batch
<1>1. ASSUME IInv, [Next]_vars PROVE Stays
  <2> SUFFICES ASSUME NEW i \in DOMAIN rows, rows[i].st = "dropped"
               PROVE  rows'[i].st = "dropped" /\ (i \in batch' => i \in batch)
    OBVIOUS
  <2> USE <1>1
  <2>1. rows[i] \in Row /\ Len(rows) \in Nat /\ DOMAIN rows = 1..Len(rows)
    BY Sequences DEF IInv
  <2>2. rows'[i].st = "dropped"
    <3>1. CASE UNCHANGED rows
      BY <3>1
    <3>2. CASE GuardDrops
      BY <2>1, <3>2 DEF GuardDrops, OtherSiteRows
    <3>3. CASE Acks
      BY <2>1, <3>3 DEF Acks, AckedBy
    <3>4. CASE ServiceAnswers
      BY <2>1, <3>4 DEF ServiceAnswers, Row
    <3>5. CASE \E own \in BOOLEAN : EventStored(own)
      BY <2>1, <3>5 DEF EventStored, IInv, TypeOK
    <3> QED
      BY <3>1, <3>2, <3>3, <3>4, <3>5
      DEF Next, Enroll, Agent, EnrolAsks, GuardLooks, EnrolPosts, EnrolWrites, EnrolFails, Revokes,
          SetUpAgain, LoadReads, LoadSetsSite, LoadOpens, Sends, ServiceRefuses, GivesUp, Restarts,
          vars
  <2>3. i \in batch' => i \in batch
    <3>1. CASE Sends
      BY <3>1 DEF Sends, Pending
    <3>2. CASE Acks \/ ServiceRefuses \/ GivesUp \/ Restarts
      BY <3>2 DEF Acks, ServiceRefuses, GivesUp, Restarts
    <3>3. CASE UNCHANGED batch
      BY <3>3
    <3> QED
      BY <3>1, <3>2, <3>3
      DEF Next, Enroll, Agent, EnrolAsks, GuardLooks, GuardDrops, EnrolPosts, EnrolWrites,
          EnrolFails, Revokes, SetUpAgain, EventStored, LoadReads, LoadSetsSite, LoadOpens,
          ServiceAnswers, vars, forwarder
  <2> QED
    BY <2>2, <2>3
<1>2. ASSUME IInv, [Next]_vars PROVE [Stays]_vars
  BY <1>1, <1>2
<1> QED
  BY <1>2, SpecInv, PTL DEF Spec, DroppedStaysDropped

=============================================================================
