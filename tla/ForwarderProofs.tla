------------------------- MODULE ForwarderProofs --------------------------
(***************************************************************************)
(* Proofs about the two modules of the forwarder: ForwarderLink, for all   *)
(* addresses, every LookAfter and any number of enrolments, moves and      *)
(* restarts, and ForwarderBatch, for all types, sizes and limits.          *)
(*                                                                         *)
(* ForwarderLink: that a certificate is refused twice at most hangs on the *)
(* stamp: a certificate in use is never older than it (Stamped); one that  *)
(* was refused before is in use only with its own stamp (OnceRefused); and *)
(* one refused with its own stamp rests until client.crt is a newer one    *)
(* (Rests).                                                                *)
(*                                                                         *)
(* ForwarderBatch: BatchTypeOK is inductive by itself.  The limits then    *)
(* follow from the last row of a batch: the rows before it are fewer than  *)
(* LIMIT, and what was counted up to it is the whole body.                 *)
(***************************************************************************)
EXTENDS ForwarderLink, ForwarderBatch, FiniteSetTheorems,
        WellFoundedInduction, TLAPS

\* client.crt only becomes newer; what is in use was read from it after the
\* stamp was taken.
Stamped ==
  /\ stamp <= cert /\ cert <= issued
  /\ transport <= cert
  /\ transport # 0 => stamp <= transport
  /\ fpc \in {"look", "switch"} => transport # 0
  /\ fpc \in {"read", "stamped"} => transport = 0
  /\ fpc = "switch" => transport <= cand.cert /\ cand.cert <= cert /\ refusals[cand.cert] = 0

OnceRefused ==
  \A g \in 1..MaxEnrol :
    refusals[g] # 0 =>
      /\ g \in revoked \cup expired
      /\ g <= cert
      /\ transport = g => stamp = g
      /\ fpc = "stamped" => g <= stamp

Resting(g) ==
  /\ stamp = g /\ transport = 0
  /\ state \in {"rejected", "cert_expired"} /\ fpc = "step"

Rests ==
  \A g \in 1..MaxEnrol :
    /\ refusals[g] <= 2
    /\ refusals[g] = 2 => transport # g /\ (cert > g \/ Resting(g))

\* The address about to be used has answered as well.
Proved ==
  /\ url \in {Configured} \cup proved
  /\ found \in {Configured, NoAddr} \cup proved
  /\ fpc = "switch" => cand.addr \in proved

IInv == TypeOK /\ Stamped /\ OnceRefused /\ Rests /\ Proved

LEMMA InitInv == Init => IInv
<1> SUFFICES ASSUME Init PROVE IInv
  OBVIOUS
<1>1. TypeOK
  BY AddrAssumption, BoundsAssumption DEF Init, TypeOK, Gen, NoCand
<1>2. Stamped
  BY DEF Init, Stamped
<1>3. OnceRefused /\ Rests
  BY DEF Init, OnceRefused, Rests
<1>4. Proved
  BY DEF Init, Proved
<1> QED
  BY <1>1, <1>2, <1>3, <1>4 DEF IInv

\* What an enrolment of this module's invariant needs of the types.
LEMMA Numbers ==
  ASSUME TypeOK
  PROVE  /\ \A g \in {key, cert, doc, issued, loaded, stamp, transport, cand.cert} :
              g \in Nat /\ g <= MaxEnrol
         /\ \A g \in 1..MaxEnrol : refusals[g] \in Nat
         /\ MaxEnrol \in Nat
  BY BoundsAssumption DEF TypeOK, Gen

-----------------------------------------------------------------------------
\* enroll() writes newer files.
LEMMA EnrolInv == ASSUME IInv, Enroll PROVE IInv'
<1> USE Numbers DEF IInv, files, service, loading, forwarder
<1>1. CASE EnrolIssues
  <2>1. issued' \in Gen /\ issued' = issued + 1
    <3>1. issued \in Nat /\ MaxEnrol \in Nat /\ issued < MaxEnrol /\ issued' = issued + 1
      BY <1>1 DEF EnrolIssues
    <3> QED
      BY <3>1 DEF Gen
  <2>2. TypeOK'
    <3>1. 1..issued \subseteq 1..issued'
      BY <2>1
    <3>2. revoked' \subseteq 1..issued' /\ expired' \subseteq 1..issued'
      BY <1>1, <3>1 DEF EnrolIssues, TypeOK
    <3> QED
      BY <1>1, <2>1, <3>2 DEF EnrolIssues, TypeOK
  <2>3. UNCHANGED <<cert, stamp, transport, fpc, state, url, found, cand, refusals, revoked,
                    expired, proved>>
    BY <1>1 DEF EnrolIssues
  <2>4. Stamped'
    BY <2>1, <2>3 DEF Stamped
  <2>5. OnceRefused'
    BY <2>3 DEF OnceRefused
  <2>6. Rests' /\ Proved'
    BY <2>3 DEF Rests, Resting, Proved
  <2> QED
    BY <2>2, <2>4, <2>5, <2>6
<1>2. CASE EnrolWritesKey
  <2>1. TypeOK'
    BY <1>2 DEF EnrolWritesKey, TypeOK
  <2> QED
    BY <1>2, <2>1 DEF EnrolWritesKey, Stamped, OnceRefused, Rests, Resting, Proved
<1>3. CASE EnrolWritesCert
  <2>1. TypeOK'
    BY <1>3 DEF EnrolWritesCert, TypeOK
  <2>2. cert' = issued /\ cert <= cert'
    BY <1>3 DEF EnrolWritesCert, Stamped
  <2>3. Stamped'
    BY <1>3, <2>2 DEF EnrolWritesCert, Stamped
  <2>4. OnceRefused'
    BY <1>3, <2>2 DEF EnrolWritesCert, OnceRefused
  <2>5. Rests'
    BY <1>3, <2>2 DEF EnrolWritesCert, Rests, Resting
  <2> QED
    BY <1>3, <2>1, <2>3, <2>4, <2>5 DEF EnrolWritesCert, Proved
<1>4. CASE EnrolWritesDoc
  <2>1. TypeOK'
    BY <1>4 DEF EnrolWritesDoc, TypeOK
  <2> QED
    BY <1>4, <2>1 DEF EnrolWritesDoc, Stamped, OnceRefused, Rests, Resting, Proved
<1>5. CASE EnrolForgetsFound
  <2>1. TypeOK'
    BY <1>5 DEF EnrolForgetsFound, TypeOK
  <2> QED
    BY <1>5, <2>1 DEF EnrolForgetsFound, Stamped, OnceRefused, Rests, Resting, Proved
<1>6. CASE EnrolFails
  <2>1. TypeOK'
    BY <1>6 DEF EnrolFails, TypeOK
  <2> QED
    BY <1>6, <2>1 DEF EnrolFails, Stamped, OnceRefused, Rests, Resting, Proved
<1> QED
  BY <1>1, <1>2, <1>3, <1>4, <1>5, <1>6 DEF Enroll

\* A certificate that is not good never becomes good again.
LEMMA ServiceInv == ASSUME IInv, Revokes \/ Expires \/ Moves PROVE IInv'
<1> USE Numbers DEF IInv, files, loading, forwarder
<1>1. CASE Revokes
  <2>1. TypeOK'
    BY <1>1 DEF Revokes, TypeOK
  <2> QED
    BY <1>1, <2>1 DEF Revokes, Stamped, OnceRefused, Rests, Resting, Proved
<1>2. CASE Expires
  <2>1. TypeOK'
    BY <1>2 DEF Expires, TypeOK
  <2> QED
    BY <1>2, <2>1 DEF Expires, Stamped, OnceRefused, Rests, Resting, Proved
<1>3. CASE Moves
  <2>1. TypeOK'
    BY <1>3 DEF Moves, TypeOK
  <2> QED
    BY <1>3, <2>1 DEF Moves, Stamped, OnceRefused, Rests, Resting, Proved
<1> QED
  BY <1>1, <1>2, <1>3

\* _load: a certificate that rests is not read; another one is read after its
\* stamp, or is newer than that.
LEMMA LoadInv == ASSUME IInv, LoadReads \/ LoadStamps \/ LoadOpens PROVE IInv'
<1> USE Numbers DEF IInv, files, service, loading
<1>1. CASE LoadReads
  <2>1. TypeOK'
    BY <1>1, AddrAssumption DEF LoadReads, FoundOrConfigured, TypeOK
  <2>2. Stamped' /\ OnceRefused'
    BY <1>1 DEF LoadReads, Stamped, OnceRefused
  <2>3. Rests'
    <3>1. ASSUME NEW g \in 1..MaxEnrol, refusals[g] = 2 PROVE cert > g
      BY <1>1, <3>1 DEF LoadReads, StillRefused, Rests, Resting, OnceRefused
    <3> QED
      BY <1>1, <3>1 DEF LoadReads, Rests
  <2>4. Proved'
    BY <1>1 DEF LoadReads, FoundOrConfigured, Proved
  <2> QED
    BY <2>1, <2>2, <2>3, <2>4
<1>2. CASE LoadStamps
  <2>1. TypeOK'
    BY <1>2 DEF LoadStamps, TypeOK
  <2>2. Stamped' /\ OnceRefused'
    BY <1>2 DEF LoadStamps, Stamped, OnceRefused
  <2>3. Rests'
    BY <1>2 DEF LoadStamps, Rests, Resting
  <2> QED
    BY <1>2, <2>1, <2>2, <2>3 DEF LoadStamps, Proved
<1>3. CASE LoadOpens
  <2>1. TypeOK'
    BY <1>3 DEF LoadOpens, TypeOK
  <2>2. Stamped'
    BY <1>3 DEF LoadOpens, Stamped
  <2>3. OnceRefused'
    BY <1>3 DEF LoadOpens, Stamped, OnceRefused
  <2>4. Rests'
    BY <1>3 DEF LoadOpens, Rests, Resting
  <2> QED
    BY <1>3, <2>1, <2>2, <2>3, <2>4 DEF LoadOpens, Proved
<1> QED
  BY <1>1, <1>2, <1>3

\* A request: only a refusal counts.
LEMMA RequestInv ==
  ASSUME IInv, RequestTaken \/ RequestRefused \/ RequestNotNow \/ RequestUnanswered
  PROVE  IInv'
<1> USE Numbers DEF IInv, files, service, loading, Requests
<1>1. CASE RequestTaken
  <2>1. TypeOK'
    <3>1. fails' \in 0..LookAfter
      BY <1>1, BoundsAssumption DEF RequestTaken
    <3>2. proved' \subseteq Addr
      BY <1>1 DEF RequestTaken, TypeOK
    <3> QED
      BY <1>1, <3>1, <3>2 DEF RequestTaken, TypeOK
  <2> QED
    BY <1>1, <2>1 DEF RequestTaken, Stamped, OnceRefused, Rests, Resting, Proved
<1>2. CASE RequestRefused
  <2> DEFINE t == transport
  <2>1. t \in 1..MaxEnrol /\ t \in revoked \cup expired
    BY <1>2 DEF RequestRefused, Good
  <2>2. /\ refusals'[t] = refusals[t] + 1
        /\ \A g \in 1..MaxEnrol : g # t => refusals'[g] = refusals[g]
    BY <1>2, <2>1 DEF RequestRefused, TypeOK
  <2>3. TypeOK'
    <3>1. refusals' \in [1..MaxEnrol -> Nat]
      BY <1>2, <2>1 DEF RequestRefused, TypeOK
    <3>2. fails' \in 0..LookAfter /\ transport' = 0 /\ 0 \in Gen
      BY <1>2, BoundsAssumption DEF RequestRefused, TypeOK, Gen
    <3> QED
      BY <1>2, <3>1, <3>2 DEF RequestRefused, TypeOK
  <2>4. Stamped'
    BY <1>2 DEF RequestRefused, Stamped
  <2>5. OnceRefused'
    BY <1>2, <2>1, <2>2 DEF RequestRefused, Stamped, OnceRefused
  <2>6. ASSUME NEW g \in 1..MaxEnrol
        PROVE  /\ refusals'[g] <= 2
               /\ refusals'[g] = 2 => transport' # g /\ (cert > g \/ Resting(g)')
    <3>1. CASE g # t
      BY <1>2, <2>2, <3>1 DEF RequestRefused, Rests, Resting
    <3>2. CASE g = t
      <4>1. refusals[g] <= 1
        BY <3>2 DEF Rests
      <4>2. refusals'[g] = 2 => stamp = g
        BY <2>2, <3>2, <4>1 DEF OnceRefused
      <4>3. /\ transport' = 0 /\ fpc' = "step" /\ stamp' = stamp
            /\ state' \in {"rejected", "cert_expired"}
        BY <1>2 DEF RequestRefused
      <4> QED
        BY <2>2, <3>2, <4>1, <4>2, <4>3 DEF Resting
    <3> QED
      BY <3>1, <3>2
  <2>7. cert' = cert
    BY <1>2 DEF RequestRefused
  <2>8. Rests'
    BY <2>6, <2>7 DEF Rests
  <2> QED
    BY <1>2, <2>3, <2>4, <2>5, <2>8 DEF RequestRefused, Proved
<1>3. CASE RequestNotNow
  <2>1. TypeOK'
    BY <1>3, BoundsAssumption DEF RequestNotNow, TypeOK
  <2> QED
    BY <1>3, <2>1 DEF RequestNotNow, Stamped, OnceRefused, Rests, Resting, Proved
<1>4. CASE RequestUnanswered
  <2>1. TypeOK'
    BY <1>4, BoundsAssumption DEF RequestUnanswered, TypeOK
  <2> QED
    BY <1>4, <2>1 DEF RequestUnanswered, Stamped, OnceRefused, Rests, Resting, Proved
<1> QED
  BY <1>1, <1>2, <1>3, <1>4

\* _look takes a certificate that is good, so it was never refused.
LEMMA LookInv ==
  ASSUME IInv, (\E a \in Addr : LookTries(a)) \/ LookFindsNothing \/ LookSwitches
  PROVE  IInv'
<1> USE Numbers DEF IInv, files, service, loading
<1>1. ASSUME NEW a \in Addr, LookTries(a) PROVE IInv'
  <2>1. TypeOK'
    <3>1. cand' \in [addr : Addr \cup {NoAddr}, cert : Gen]
      BY <1>1 DEF LookTries, TypeOK
    <3> QED
      BY <1>1, <3>1 DEF LookTries, TypeOK
  <2>2. a = at /\ Good(cert) /\ cand' = [addr |-> a, cert |-> cert] /\ proved' = proved \cup {a}
    BY <1>1 DEF LookTries, Answers
  <2>3. cert \in 1..MaxEnrol /\ refusals[cert] = 0
    BY <2>2 DEF Good, OnceRefused
  <2>4. Stamped'
    BY <1>1, <2>2, <2>3 DEF LookTries, Stamped
  <2>5. OnceRefused' /\ Rests'
    BY <1>1 DEF LookTries, OnceRefused, Rests, Resting
  <2>6. Proved'
    BY <1>1, <2>2 DEF LookTries, Proved
  <2> QED
    BY <2>1, <2>4, <2>5, <2>6
<1>2. CASE LookFindsNothing
  <2>1. TypeOK'
    BY <1>2 DEF LookFindsNothing, TypeOK
  <2> QED
    BY <1>2, <2>1 DEF LookFindsNothing, Stamped, OnceRefused, Rests, Resting, Proved
<1>3. CASE LookSwitches
  <2>1. cand.addr \in Addr
    <3>1. cand.addr \in proved
      BY <1>3 DEF LookSwitches, Proved
    <3> QED
      BY <3>1 DEF TypeOK
  <2>2. TypeOK'
    <3>1. /\ url' \in Addr /\ transport' \in Gen /\ found' \in Addr \cup {NoAddr}
          /\ fails' \in 0..LookAfter
      BY <1>3, <2>1, BoundsAssumption DEF LookSwitches, TypeOK
    <3>2. cand' \in [addr : Addr \cup {NoAddr}, cert : Gen]
      BY <1>3, BoundsAssumption DEF LookSwitches, NoCand, Gen
    <3> QED
      BY <1>3, <3>1, <3>2 DEF LookSwitches, TypeOK
  <2>3. /\ transport' = cand.cert /\ refusals[cand.cert] = 0 /\ fpc' = "step"
        /\ transport <= cand.cert /\ cand.cert <= cert /\ transport # 0
    BY <1>3 DEF LookSwitches, Stamped
  <2>4. Stamped'
    BY <1>3, <2>3 DEF LookSwitches, Stamped
  <2>5. OnceRefused'
    BY <1>3, <2>3 DEF LookSwitches, OnceRefused
  <2>6. Rests'
    BY <1>3, <2>3 DEF LookSwitches, Rests, Resting
  <2>7. Proved'
    BY <1>3 DEF LookSwitches, Proved
  <2> QED
    BY <2>2, <2>4, <2>5, <2>6, <2>7
<1> QED
  BY <1>1, <1>2, <1>3

\* A process that starts has refused nothing and holds nothing.
LEMMA RestartInv == ASSUME IInv, Restarts PROVE IInv'
<1> USE Numbers DEF IInv, Restarts, files, service
<1>1. TypeOK'
  <2>1. cand' \in [addr : Addr \cup {NoAddr}, cert : Gen] /\ 0 \in Gen
    BY BoundsAssumption DEF NoCand, Gen
  <2>2. refusals' \in [1..MaxEnrol -> Nat] /\ restarts' \in Nat
    BY DEF TypeOK
  <2> QED
    BY <2>1, <2>2, AddrAssumption, BoundsAssumption DEF TypeOK
<1>2. Stamped' /\ OnceRefused' /\ Rests'
  BY DEF Stamped, OnceRefused, Rests
<1>3. Proved'
  BY DEF Proved
<1> QED
  BY <1>1, <1>2, <1>3

-----------------------------------------------------------------------------
LEMMA InvStep == IInv /\ [Next]_vars => IInv'
<1> SUFFICES ASSUME IInv, [Next]_vars PROVE IInv'
  OBVIOUS
<1>1. CASE Next
  BY <1>1, EnrolInv, ServiceInv, LoadInv, RequestInv, LookInv, RestartInv DEF Next
<1>2. CASE UNCHANGED vars
  BY <1>2 DEF IInv, TypeOK, Stamped, OnceRefused, Rests, Resting, Proved, vars
<1> QED
  BY <1>1, <1>2

\* The forwarder, its files and the service keep their types.
THEOREM SpecTypeOK == Spec => []TypeOK
<1>1. IInv => TypeOK
  BY DEF IInv
<1> QED
  BY <1>1, InitInv, InvStep, PTL DEF Spec

\* The service refuses a certificate to one process twice at most, whatever
\* is enrolled, written and read beside it, and however long it waits.
THEOREM SpecRefusedCertificateRests == Spec => []RefusedCertificateRests
<1>1. IInv => RefusedCertificateRests
  BY DEF IInv, Rests, RefusedCertificateRests
<1> QED
  BY <1>1, InitInv, InvStep, PTL DEF Spec

\* Events only go to the configured address, or to one at which the service
\* itself has answered, after any moves, restarts and enrolments.
THEOREM SpecAddressIsProved == Spec => []AddressIsProved
<1>1. IInv => AddressIsProved
  BY DEF IInv, Proved, AddressIsProved
<1> QED
  BY <1>1, InitInv, InvStep, PTL DEF Spec

-----------------------------------------------------------------------------
\* ForwarderBatch

\* The rows are a finite number, and so is every set of them.
LEMMA RowsAreFinite ==
  ASSUME BatchTypeOK
  PROVE  /\ IsFiniteSet(pending) /\ pending \subseteq Nat
         /\ \A r \in pending : row[r].type \in Type /\ row[r].size \in Nat
<1>1. PICK n \in 0..MaxRow : row \in [1..n -> Row]
  BY DEF BatchTypeOK
<1>2. pending \subseteq 1..n
  BY <1>1 DEF BatchTypeOK
<1>3. IsFiniteSet(1..n)
  <2>1. 1 \in Int /\ n \in Int
    BY <1>1, NumbersAssumption
  <2> QED BY <2>1, FS_Interval
<1>4. \A r \in 1..n : row[r].type \in Type /\ row[r].size \in Nat
  BY <1>1, NumbersAssumption DEF Row
<1>5. IsFiniteSet(pending)
  BY <1>2, <1>3, FS_Subset
<1>6. pending \subseteq Nat
  <2>1. n \in Nat
    BY <1>1, NumbersAssumption
  <2> QED BY <1>2, <2>1
<1>7. \A r \in pending : row[r].type \in Type /\ row[r].size \in Nat
  BY <1>2, <1>4
<1> QED BY <1>5, <1>6, <1>7

\* A nonempty set of rows has a last one.
LEMMA SomeLast ==
  ASSUME BatchTypeOK, NEW S, S \subseteq pending, S # {}
  PROVE  \E m \in S : \A n \in S : n <= m
<1>1. PICK k \in 0..MaxRow : row \in [1..k -> Row]
  BY DEF BatchTypeOK
<1>2. S \subseteq 1..k /\ k \in Nat
  BY <1>1, NumbersAssumption DEF BatchTypeOK
<1> DEFINE T == {k - s : s \in S}
<1>3. T \subseteq Nat /\ T # {}
  <2>1. ASSUME NEW s \in S PROVE k - s \in Nat
    <3>1. s \in 1..k
      BY <1>2
    <3> QED BY <1>2, <3>1
  <2> QED BY <2>1
<1>4. \E t \in T : \A u \in T : <<u, t>> \notin OpToRel(<, Nat)
  BY <1>3, WFMin, NatLessThanWellFounded, Zenon
<1>5. PICK t \in T : \A u \in T : <<u, t>> \notin OpToRel(<, Nat)
  BY <1>4, Zenon
<1>6. PICK m \in S : t = k - m
  OBVIOUS
<1>a. \A u \in T : ~(u < t)
  BY <1>3, <1>5, Zenon DEF OpToRel
<1>7. ASSUME NEW n \in S PROVE n <= m
  <2>1. n \in 1..k /\ m \in 1..k /\ ~(k - n < k - m)
    BY <1>2, <1>a, <1>6
  <2> QED BY <1>2, <2>1
<1> QED BY <1>7

\* LIMIT of the query: as many rows as asked for, at most.
LEMMA WindowIsBounded ==
  ASSUME BatchTypeOK
  PROVE  /\ Window \subseteq pending /\ IsFiniteSet(Window)
         /\ Cardinality(Window) <= Lesser(cap, limits.events)
<1> DEFINE k == Lesser(cap, limits.events)
           before(r) == {s \in pending : Accepted(s) /\ s < r}
<1>1. k \in Nat
  BY DEF BatchTypeOK, Limits, Lesser
<1>2. Window = {r \in pending : Accepted(r) /\ Cardinality(before(r)) < k}
  BY DEF Window
<1> HIDE DEF k
<1>3. Window \subseteq pending /\ IsFiniteSet(Window) /\ IsFiniteSet(pending)
  BY <1>2, RowsAreFinite, FS_Subset
<1>4. CASE Window = {}
  <2>1. Cardinality(Window) = 0
    BY <1>4, FS_EmptySet
  <2> QED BY <1>1, <1>3, <2>1 DEF k
<1>5. CASE Window # {}
  <2>1. PICK m \in Window : \A n \in Window : n <= m
    BY <1>3, <1>5, SomeLast
  <2>2. before(m) \subseteq pending /\ m \notin before(m) /\ Cardinality(before(m)) < k
    BY <1>2, <2>1, <1>3, RowsAreFinite
  <2>3. IsFiniteSet(before(m)) /\ Cardinality(before(m)) \in Nat
    BY <1>3, <2>2, FS_Subset, FS_CardinalityType
  <2>4. Window \subseteq before(m) \cup {m}
    <3>1. ASSUME NEW n \in Window, n # m PROVE n \in before(m)
      <4>1. n <= m /\ n \in Nat /\ m \in Nat /\ n \in pending /\ Accepted(n)
        BY <1>2, <1>3, <2>1, RowsAreFinite
      <4> QED BY <3>1, <4>1
    <3> QED BY <3>1
  <2> HIDE DEF before
  <2>5. /\ IsFiniteSet(before(m) \cup {m})
        /\ Cardinality(before(m) \cup {m}) = Cardinality(before(m)) + 1
    BY <2>2, <2>3, FS_AddElement
  <2>6. Cardinality(Window) <= Cardinality(before(m)) + 1 /\ Cardinality(Window) \in Nat
    BY <1>3, <2>4, <2>5, FS_Subset, FS_CardinalityType
  <2> QED BY <1>1, <1>3, <2>2, <2>3, <2>6 DEF k
<1> QED BY <1>4, <1>5

\* A batch is the rows of the window up to its last one that fits.
LEMMA BatchIsBounded ==
  ASSUME BatchTypeOK
  PROVE  /\ Batch \subseteq Window /\ Batch \subseteq pending
         /\ IsFiniteSet(Batch) /\ Cardinality(Batch) \in Nat
         /\ Cardinality(Batch) <= Lesser(cap, limits.events)
         /\ Batch # {} => Bytes(Batch) <= limits.bytes
         /\ \A r \in Batch : Accepted(r) /\ ~Oversize(r)
<1>1. /\ Window \subseteq pending /\ IsFiniteSet(Window)
      /\ Cardinality(Window) <= Lesser(cap, limits.events)
  BY WindowIsBounded
<1>2. Batch = {r \in Fitting : \A s \in UpTo(Fitting, r) : Bytes(UpTo(Fitting, s)) <= limits.bytes}
  BY DEF Batch
<1>3. /\ Batch \subseteq Window /\ \A r \in Batch : Accepted(r) /\ ~Oversize(r)
  BY <1>2 DEF Fitting, Window
<1>4. IsFiniteSet(Batch) /\ Cardinality(Batch) \in Nat /\ Cardinality(Window) \in Nat
      /\ Cardinality(Batch) <= Cardinality(Window)
  BY <1>1, <1>3, FS_Subset, FS_CardinalityType
<1>5. Lesser(cap, limits.events) \in Nat
  BY DEF BatchTypeOK, Limits, Lesser
<1>6. ASSUME Batch # {} PROVE Bytes(Batch) <= limits.bytes
  <2>1. PICK m \in Batch : \A n \in Batch : n <= m
    BY <1>1, <1>3, <1>6, SomeLast
  <2>2. pending \subseteq Nat /\ Fitting \subseteq pending
    BY <1>1, RowsAreFinite DEF Fitting
  <2>3. Batch = UpTo(Fitting, m)
    <3>1. ASSUME NEW n \in Batch PROVE n \in UpTo(Fitting, m)
      BY <1>2, <2>1, <3>1 DEF UpTo
    <3>2. ASSUME NEW n \in UpTo(Fitting, m) PROVE n \in Batch
      <4>1. n \in Fitting /\ n <= m /\ m \in Fitting
        BY <1>2, <2>1 DEF UpTo
      <4>2. ASSUME NEW s \in UpTo(Fitting, n) PROVE s \in UpTo(Fitting, m)
        <5>1. s \in Fitting /\ s <= n
          BY DEF UpTo
        <5>2. s \in Nat /\ n \in Nat /\ m \in Nat
          BY <2>2, <4>1, <5>1
        <5> QED BY <4>1, <5>1, <5>2 DEF UpTo
      <4> QED BY <1>2, <4>1, <4>2
    <3> QED BY <3>1, <3>2
  <2>4. m \in UpTo(Fitting, m)
    BY <2>1, <2>3
  <2> QED BY <1>2, <2>1, <2>3, <2>4
<1> QED BY <1>1, <1>3, <1>4, <1>5, <1>6

LEMMA BatchInitInv == BatchInit => BatchTypeOK
<1> SUFFICES ASSUME BatchInit PROVE BatchTypeOK
  OBVIOUS
<1> USE DEF BatchInit
<1>1. row \in [1..0 -> Row] /\ 0 \in 0..MaxRow /\ 0 \in 0..MaxOffers
  BY NumbersAssumption
<1>2. cap \in Nat /\ limits \in Limits
  BY LimitsAssumption DEF Limits
<1> QED BY <1>1, <1>2 DEF BatchTypeOK

LEMMA BatchStepInv == BatchTypeOK /\ [BatchNext]_batchVars => BatchTypeOK'
<1> SUFFICES ASSUME BatchTypeOK, [BatchNext]_batchVars PROVE BatchTypeOK'
  OBVIOUS
<1> USE DEF spool, announced, knowledge
<1>1. CASE UNCHANGED batchVars
  BY <1>1 DEF batchVars, BatchTypeOK
<1>2. ASSUME NEW r \in Row, Arrives(r) PROVE BatchTypeOK'
  <2>1. PICK n \in 0..MaxRow : row \in [1..n -> Row]
    BY DEF BatchTypeOK
  <2>2. n \in Nat /\ DOMAIN row = 1..n
    BY <2>1, NumbersAssumption
  <2>3. Cardinality(DOMAIN row) = n
    <3>1. 1 \in Int /\ n \in Int
      BY <2>2
    <3>2. Cardinality(1..n) = IF 1 > n THEN 0 ELSE n - 1 + 1
      BY <3>1, FS_Interval
    <3> QED BY <2>2, <3>2
  <2>4. n + 1 \in 0..MaxRow
    BY <1>2, <2>2, <2>3, NumbersAssumption DEF Arrives
  <2>5. row' = [i \in 1..(n + 1) |-> IF i = n + 1 THEN r ELSE row[i]]
    BY <1>2, <2>3 DEF Arrives
  <2>6. row' \in [1..(n + 1) -> Row] /\ DOMAIN row' = 1..(n + 1)
    BY <2>1, <2>2, <2>5
  <2>7. pending' \subseteq DOMAIN row'
    <3>1. pending' = pending \cup {n + 1} /\ pending \subseteq 1..n
      BY <1>2, <2>2, <2>3 DEF Arrives, BatchTypeOK
    <3>2. 1..n \subseteq 1..(n + 1) /\ n + 1 \in 1..(n + 1)
      BY <2>2
    <3> QED BY <2>6, <3>1, <3>2
  <2> QED BY <1>2, <2>4, <2>6, <2>7 DEF Arrives, BatchTypeOK
<1>3. ASSUME NEW o \in Offer, ServiceChanges(o) PROVE BatchTypeOK'
  <2>1. offers' \in 0..MaxOffers
    BY <1>3, NumbersAssumption DEF ServiceChanges, BatchTypeOK
  <2> QED BY <1>3, <2>1 DEF ServiceChanges, BatchTypeOK
<1>4. CASE HourPasses
  BY <1>4 DEF HourPasses, BatchTypeOK
<1>5. CASE AsksCapabilities
  <2>1. offer \in [types : SUBSET Type, events : Nat, bytes : Nat, event : Nat]
    BY LimitsAssumption DEF BatchTypeOK
  <2>2. limits \in Limits /\ cap \in Nat
    BY DEF BatchTypeOK
  <2>3. limits' \in Limits
    BY <1>5, <2>1, <2>2 DEF AsksCapabilities, Learned, Limits
  <2>4. cap' \in Nat
    BY <1>5, <2>2, <2>3 DEF AsksCapabilities, NewCap, Lesser, Limits
  <2>5. types' \subseteq Type
    BY <1>5, <2>1 DEF AsksCapabilities
  <2> QED BY <1>5, <2>3, <2>4, <2>5 DEF AsksCapabilities, BatchTypeOK
<1>6. CASE SendTaken
  <2>1. cap' \in Nat
    BY <1>6 DEF SendTaken, GrownCap, Lesser, BatchTypeOK, Limits
  <2>2. pending' \subseteq pending
    BY <1>6 DEF SendTaken
  <2> QED BY <1>6, <2>1, <2>2 DEF SendTaken, BatchTypeOK
<1>7. HalvedCap \in Nat
  <2>1. Cardinality(Batch) \in Nat
    BY BatchIsBounded
  <2> QED BY <2>1 DEF HalvedCap
<1>8. CASE SendTooLarge
  BY <1>7, <1>8 DEF SendTooLarge, BatchTypeOK
<1>9. CASE SendMalformed
  BY <1>7, <1>9 DEF SendMalformed, BatchTypeOK
<1> QED BY <1>1, <1>2, <1>3, <1>4, <1>5, <1>6, <1>8, <1>9 DEF BatchNext

\* Rows, limits and the cap keep their types, through every answer.
THEOREM SpecBatchTypeOK == BatchSpec => []BatchTypeOK
  BY BatchInitInv, BatchStepInv, PTL DEF BatchSpec

\* A batch is within the number, the bytes with their commas, the size of an
\* event and the types the service announced last.
THEOREM SpecBatchWithinLimits == BatchSpec => []BatchWithinLimits
<1>1. BatchTypeOK => BatchWithinLimits
  <2> SUFFICES ASSUME BatchTypeOK PROVE BatchWithinLimits
    OBVIOUS
  <2>1. /\ Cardinality(Batch) \in Nat
        /\ Cardinality(Batch) <= Lesser(cap, limits.events)
        /\ Batch # {} => Bytes(Batch) <= limits.bytes
        /\ Batch \subseteq pending
        /\ \A r \in Batch : Accepted(r) /\ ~Oversize(r)
    BY BatchIsBounded
  <2>2. cap \in Nat /\ limits.events \in Nat /\ limits.event \in Nat
    BY DEF BatchTypeOK, Limits
  <2>3. Cardinality(Batch) <= limits.events
    BY <2>1, <2>2 DEF Lesser
  <2>4. ASSUME NEW r \in Batch PROVE row[r].size <= limits.event /\ row[r].type \in types
    <3>1. row[r].size \in Nat
      BY <2>1, RowsAreFinite
    <3> QED BY <2>1, <2>2, <3>1 DEF Accepted, Oversize
  <2> QED BY <2>1, <2>3, <2>4 DEF BatchWithinLimits
<1> QED BY <1>1, SpecBatchTypeOK, PTL
=============================================================================
