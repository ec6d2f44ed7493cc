-------------------------- MODULE QuarantineProofs --------------------------
(***************************************************************************)
(* Proofs about Quarantine, for any entries, users, addresses, retention   *)
(* and clock.                                                              *)
(***************************************************************************)
EXTENDS Quarantine, TLAPS

\* A release under way is for those its user may release to, was asked for, and
\* if it is about to say so, :10025 took the entry for one of them.
ReleaseOK(u) ==
    req[u] # NoRelease =>
        /\ req[u].to = ReleasedTo(u, req[u].entry)
        /\ u \in asked[req[u].entry]
        /\ req[u].at = "ok" => req[u].to \intersect got[req[u].entry] # {}

QuarantineInv ==
    /\ TypeOK
    /\ now # 0
    /\ \A u \in Users : ReleaseOK(u)
    /\ ListedHasBody
    /\ ReachesOwnersOnly
    /\ ReleasedWasDelivered

-----------------------------------------------------------------------------
(* Helpers *)

LEMMA ReleasedToRecipients ==
    ASSUME NEW u \in Users, NEW e \in Entries
    PROVE  /\ ReleasedTo(u, e) \subseteq Addresses
           /\ \A r \in ReleasedTo(u, e) : u \in Admins \/ r \in Owned[u]
BY DEF ReleasedTo, Addresses

\* A request that is not idle is a release.
LEMMA RequestIsRelease ==
    ASSUME TypeOK, NEW u \in Users, req[u] # NoRelease
    PROVE  /\ req[u] \in Release
           /\ req[u].entry \in Entries
           /\ req[u].to \subseteq Addresses
BY DEF TypeOK, Release

\* Marking changes the status of one entry, and never to "quarantined".
LEMMA MarkEffect ==
    ASSUME TypeOK, NEW e \in Entries, NEW status \in Tombstones, NEW n \in Steps,
           Mark(e, status, n)
    PROVE  /\ meta' \in [Entries -> {"none", "quarantined"} \union Tombstones]
           /\ body' \subseteq body
           /\ body \ body' \subseteq {e}
           /\ \A x \in Entries \ {e} : meta'[x] = meta[x]
           /\ meta'[e] \in {meta[e], status}
           /\ e \notin body' /\ e \in body => meta'[e] = status /\ n = 2
BY DEF TypeOK, Mark, Steps, Tombstones

LEMMA MarkKeepsListed ==
    ASSUME TypeOK, ListedHasBody, NEW e \in Entries, NEW status \in Tombstones, NEW n \in Steps,
           Mark(e, status, n)
    PROVE  ListedHasBody'
BY MarkEffect DEF ListedHasBody, Tombstones

-----------------------------------------------------------------------------
(* The invariant *)

LEMMA QuarantineInit == Init => QuarantineInv
BY DEF Init, QuarantineInv, TypeOK, ReleaseOK, ListedHasBody, ReachesOwnersOnly,
       ReleasedWasDelivered, Tombstones

LEMMA SaveStep ==
    ASSUME QuarantineInv, NEW e \in Entries, Save(e)
    PROVE  QuarantineInv'
<1>1. PICK n \in Steps, began \in {now, now - 1} \ {0} :
          /\ born' = [born EXCEPT ![e] = began]
          /\ meta' = IF n = 2 THEN [meta EXCEPT ![e] = "quarantined"] ELSE meta
          /\ body' = IF n >= 1 THEN body \union {e} ELSE body
          /\ UNCHANGED <<now, req, got, asked, told>>
  BY DEF Save, Saved
<1>2. began \in Nat
  BY DEF QuarantineInv, TypeOK
<1>3. TypeOK'
  BY <1>1, <1>2 DEF QuarantineInv, TypeOK, Steps
<1>4. ListedHasBody'
  BY <1>1 DEF QuarantineInv, TypeOK, ListedHasBody, Steps
<1>5. ReleasedWasDelivered'
  BY <1>1 DEF QuarantineInv, TypeOK, ReleasedWasDelivered, Steps
<1>6. now' # 0 /\ (\A u \in Users : ReleaseOK(u)') /\ ReachesOwnersOnly'
  BY <1>1 DEF QuarantineInv, ReleaseOK, ReachesOwnersOnly
<1> QED
  BY <1>3, <1>4, <1>5, <1>6 DEF QuarantineInv

LEMMA ReleaseStartStep ==
    ASSUME QuarantineInv, NEW u \in Users, NEW e \in Entries, ReleaseStart(u, e)
    PROVE  QuarantineInv'
<1> DEFINE new == [at |-> "running", entry |-> e, to |-> ReleasedTo(u, e)]
<1>1. new \in Release
  BY ReleasedToRecipients DEF Release
<1>2. TypeOK'
  BY <1>1 DEF QuarantineInv, TypeOK, ReleaseStart
<1>3. ASSUME NEW v \in Users PROVE ReleaseOK(v)'
  <2>1. CASE v = u
    BY <2>1, <1>1 DEF QuarantineInv, TypeOK, ReleaseStart, ReleaseOK
  <2>2. CASE v # u
    <3>1. req'[v] = req[v] /\ got' = got
      BY <2>2 DEF QuarantineInv, TypeOK, ReleaseStart
    <3>2. \A x \in Entries : asked[x] \subseteq asked'[x]
      BY DEF QuarantineInv, TypeOK, ReleaseStart
    <3> QED
      BY <3>1, <3>2, RequestIsRelease DEF QuarantineInv, ReleaseOK
  <2> QED
    BY <2>1, <2>2
<1>4. ReachesOwnersOnly'
  BY DEF QuarantineInv, TypeOK, ReleaseStart, ReachesOwnersOnly
<1>5. ListedHasBody' /\ ReleasedWasDelivered' /\ now' # 0
  BY DEF QuarantineInv, ReleaseStart, ListedHasBody, ReleasedWasDelivered
<1> QED
  BY <1>2, <1>3, <1>4, <1>5 DEF QuarantineInv

LEMMA ReinjectStep ==
    ASSUME QuarantineInv, NEW u \in Users, Reinject(u)
    PROVE  QuarantineInv'
<1> DEFINE e == req[u].entry
<1>1. req[u] # NoRelease
  BY DEF Reinject, NoRelease
<1>2. /\ req[u] \in Release /\ e \in Entries
      /\ req[u].to = ReleasedTo(u, e) /\ u \in asked[e]
  BY <1>1, RequestIsRelease DEF QuarantineInv, ReleaseOK
<1>3. PICK R \in SUBSET req[u].to, lost \in BOOLEAN :
          /\ got' = [got EXCEPT ![e] = @ \union R]
          /\ req' = [req EXCEPT ![u].at = IF Raises(R, lost) THEN "failed" ELSE "ok"]
          /\ UNCHANGED <<meta, body, born, now, asked, told>>
  BY DEF Reinject
<1>4. /\ req'[u].at = IF Raises(R, lost) THEN "failed" ELSE "ok"
      /\ req'[u].entry = e /\ req'[u].to = req[u].to /\ req'[u] \in Release
      /\ req' \in [Users -> Release \union {NoRelease}]
      /\ \A v \in Users \ {u} : req'[v] = req[v]
  BY <1>2, <1>3 DEF QuarantineInv, TypeOK, Release
<1>5. /\ got' \in [Entries -> SUBSET Addresses]
      /\ got'[e] = got[e] \union R
      /\ \A x \in Entries : got[x] \subseteq got'[x]
      /\ \A x \in Entries \ {e} : got'[x] = got[x]
  BY <1>2, <1>3, RequestIsRelease, <1>1 DEF QuarantineInv, TypeOK
<1>6. TypeOK'
  BY <1>3, <1>4, <1>5 DEF QuarantineInv, TypeOK
<1>7. ASSUME NEW v \in Users PROVE ReleaseOK(v)'
  <2>1. CASE v = u
    BY <2>1, <1>2, <1>3, <1>4, <1>5 DEF ReleaseOK, Raises, ReleasedTo
  <2>2. CASE v # u
    <3>1. req[v] # NoRelease => req[v].entry \in Entries
      BY RequestIsRelease DEF QuarantineInv
    <3> QED
      BY <2>2, <3>1, <1>3, <1>4, <1>5 DEF QuarantineInv, ReleaseOK, ReleasedTo
  <2> QED
    BY <2>1, <2>2
<1>8. ReachesOwnersOnly'
  BY <1>2, <1>3, <1>5, ReleasedToRecipients DEF QuarantineInv, ReachesOwnersOnly
<1>9. ListedHasBody' /\ now' # 0 /\ ReleasedWasDelivered'
  BY <1>3, <1>5 DEF QuarantineInv, ListedHasBody, ReleasedWasDelivered
<1> QED
  BY <1>6, <1>7, <1>8, <1>9 DEF QuarantineInv

LEMMA ReleaseEndStep ==
    ASSUME QuarantineInv, NEW u \in Users, ReleaseEnd(u)
    PROVE  QuarantineInv'
<1> DEFINE e == req[u].entry
<1>1. req[u] # NoRelease /\ e \in Entries
  BY RequestIsRelease DEF ReleaseEnd, NoRelease, QuarantineInv
<1>2. req' = [req EXCEPT ![u] = NoRelease] /\ UNCHANGED <<born, now, got, asked, told>>
  BY DEF ReleaseEnd
<1>3. \/ UNCHANGED <<meta, body>>
      \/ req[u].at = "ok" /\ \E n \in Steps : Mark(e, "released", n)
  BY DEF ReleaseEnd, Marks
<1>4. \A v \in Users : ReleaseOK(v)'
  BY <1>2 DEF QuarantineInv, TypeOK, ReleaseOK, ReleasedTo
<1>5. ReachesOwnersOnly' /\ now' # 0
  BY <1>2 DEF QuarantineInv, ReachesOwnersOnly
<1>6. req' \in [Users -> Release \union {NoRelease}]
  BY <1>2 DEF QuarantineInv, TypeOK
<1>7. CASE UNCHANGED <<meta, body>>
  BY <1>2, <1>4, <1>5, <1>6, <1>7
     DEF QuarantineInv, TypeOK, ListedHasBody, ReleasedWasDelivered
<1>8. CASE req[u].at = "ok" /\ \E n \in Steps : Mark(e, "released", n)
  <2>1. got[e] # {}
    BY <1>1, <1>8 DEF QuarantineInv, ReleaseOK
  <2>2. PICK n \in Steps : Mark(e, "released", n)
    BY <1>8
  <2>3. "released" \in Tombstones
    BY DEF Tombstones
  <2>4. TypeOK'
    BY <1>1, <1>2, <1>6, <2>2, <2>3, MarkEffect DEF QuarantineInv, TypeOK
  <2>5. ListedHasBody'
    BY <1>1, <2>2, <2>3, MarkKeepsListed DEF QuarantineInv
  <2>6. ReleasedWasDelivered'
    BY <1>1, <1>2, <2>1, <2>2, <2>3, MarkEffect DEF QuarantineInv, ReleasedWasDelivered
  <2> QED
    BY <1>4, <1>5, <2>4, <2>5, <2>6 DEF QuarantineInv
<1> QED
  BY <1>3, <1>7, <1>8

LEMMA DeleteStep ==
    ASSUME QuarantineInv, NEW u \in Users, NEW e \in Entries, Delete(u, e)
    PROVE  QuarantineInv'
<1>1. PICK n \in Steps :
          /\ Mark(e, "deleted", n)
          /\ told' = IF n = 2 THEN told \union {e} ELSE told
          /\ UNCHANGED <<born, now, req, got, asked>>
  BY DEF Delete
<1>2. "deleted" \in Tombstones
  BY DEF Tombstones
<1>3. TypeOK'
  BY <1>1, <1>2, MarkEffect DEF QuarantineInv, TypeOK
<1>4. ListedHasBody'
  BY <1>1, <1>2, MarkKeepsListed DEF QuarantineInv
<1>5. ReleasedWasDelivered'
  BY <1>1, <1>2, MarkEffect DEF QuarantineInv, ReleasedWasDelivered
<1>6. now' # 0 /\ (\A v \in Users : ReleaseOK(v)') /\ ReachesOwnersOnly'
  BY <1>1 DEF QuarantineInv, ReleaseOK, ReachesOwnersOnly
<1> QED
  BY <1>3, <1>4, <1>5, <1>6 DEF QuarantineInv

\* What a prune leaves: no status changes but to none, and an entry whose body
\* is removed is not listed any more.
LEMMA PruneEffect ==
    ASSUME TypeOK, Prune
    PROVE  /\ \A e \in Entries : meta'[e] \in {meta[e], "none"}
           /\ \A e \in body \ body' :
                 meta'[e] = "none" /\ \E d \in Days : Expired(d) /\ e \in BodiesOf(d)
           /\ meta' \in [Entries -> {"none", "quarantined"} \union Tombstones]
           /\ body' \subseteq body
           /\ UNCHANGED <<born, now, req, got, asked, told>>
<1> DEFINE days == {d \in Days : Expired(d)}
<1>1. /\ meta' = [e \in Entries |-> IF \E d \in days : e \in MetasOf(d)
                                    THEN "none" ELSE meta[e]]
      /\ body' = body \ UNION {BodiesOf(d) : d \in days}
      /\ UNCHANGED <<born, now, req, got, asked, told>>
  BY DEF Prune
<1>2. ASSUME NEW e \in body \ body'
      PROVE  meta'[e] = "none" /\ \E d \in Days : Expired(d) /\ e \in BodiesOf(d)
  <2>1. PICK d \in days : e \in BodiesOf(d)
    BY <1>1, <1>2
  <2>2. e \in Entries
    BY <1>2 DEF TypeOK
  <2>3. meta[e] = "none" \/ e \in MetasOf(d)
    BY <2>1, <2>2 DEF BodiesOf, MetasOf
  <2> QED
    BY <1>1, <2>1, <2>2, <2>3
<1>3. \A e \in Entries : meta'[e] \in {meta[e], "none"}
  BY <1>1
<1>4. meta' \in [Entries -> {"none", "quarantined"} \union Tombstones]
  BY <1>1 DEF TypeOK
<1> QED
  BY <1>1, <1>2, <1>3, <1>4

LEMMA PruneFailsEffect ==
    ASSUME TypeOK, PruneFails
    PROVE  /\ \A e \in Entries : meta'[e] \in {meta[e], "none"}
           /\ \A e \in body \ body' :
                 meta'[e] = "none" /\ \E d \in Days : Expired(d) /\ e \in BodiesOf(d)
           /\ meta' \in [Entries -> {"none", "quarantined"} \union Tombstones]
           /\ body' \subseteq body
           /\ UNCHANGED <<born, now, req, got, asked, told>>
<1> DEFINE days == {d \in Days : Expired(d)}
<1>1. PICK done \in SUBSET days : \E d \in days \ done :
          \E M \in SUBSET MetasOf(d), B \in SUBSET BodiesOf(d) :
              /\ MetasFirst(d, M, B)
              /\ meta' = [e \in Entries |-> IF e \in M \/ \E x \in done : e \in MetasOf(x)
                                            THEN "none" ELSE meta[e]]
              /\ body' = body \ (B \union UNION {BodiesOf(x) : x \in done})
              /\ UNCHANGED <<born, now, req, got, asked, told>>
  BY DEF PruneFails
<1>2. PICK d \in days \ done : \E M \in SUBSET MetasOf(d), B \in SUBSET BodiesOf(d) :
              /\ MetasFirst(d, M, B)
              /\ meta' = [e \in Entries |-> IF e \in M \/ \E x \in done : e \in MetasOf(x)
                                            THEN "none" ELSE meta[e]]
              /\ body' = body \ (B \union UNION {BodiesOf(x) : x \in done})
              /\ UNCHANGED <<born, now, req, got, asked, told>>
  BY <1>1
<1>3. PICK M \in SUBSET MetasOf(d), B \in SUBSET BodiesOf(d) :
              /\ MetasFirst(d, M, B)
              /\ meta' = [e \in Entries |-> IF e \in M \/ \E x \in done : e \in MetasOf(x)
                                            THEN "none" ELSE meta[e]]
              /\ body' = body \ (B \union UNION {BodiesOf(x) : x \in done})
              /\ UNCHANGED <<born, now, req, got, asked, told>>
  BY <1>2
<1>4. ASSUME NEW e \in body \ body'
      PROVE  meta'[e] = "none" /\ \E x \in Days : Expired(x) /\ e \in BodiesOf(x)
  <2>1. e \in Entries
    BY <1>4 DEF TypeOK
  <2>2. CASE e \in B
    <3>1. M = MetasOf(d)
      BY <2>2, <1>3 DEF MetasFirst
    <3>2. e \in BodiesOf(d) /\ (meta[e] = "none" \/ e \in MetasOf(d))
      BY <2>1, <2>2 DEF BodiesOf, MetasOf
    <3> QED
      BY <1>3, <2>1, <3>1, <3>2
  <2>3. CASE e \notin B
    <3>1. PICK x \in done : e \in BodiesOf(x)
      BY <2>3, <1>3, <1>4
    <3>2. meta[e] = "none" \/ e \in MetasOf(x)
      BY <2>1, <3>1 DEF BodiesOf, MetasOf
    <3> QED
      BY <1>3, <2>1, <3>1, <3>2
  <2> QED
    BY <2>2, <2>3
<1>5. \A e \in Entries : meta'[e] \in {meta[e], "none"}
  BY <1>3
<1>6. meta' \in [Entries -> {"none", "quarantined"} \union Tombstones]
  BY <1>3 DEF TypeOK
<1> QED
  BY <1>3, <1>4, <1>5, <1>6

LEMMA PruneStep ==
    ASSUME QuarantineInv, Prune \/ PruneFails
    PROVE  QuarantineInv'
<1>1. /\ \A e \in Entries : meta'[e] \in {meta[e], "none"}
      /\ \A e \in body \ body' : meta'[e] = "none"
      /\ meta' \in [Entries -> {"none", "quarantined"} \union Tombstones]
      /\ body' \subseteq body
      /\ UNCHANGED <<born, now, req, got, asked, told>>
  BY PruneEffect, PruneFailsEffect DEF QuarantineInv
<1>2. TypeOK'
  BY <1>1 DEF QuarantineInv, TypeOK
<1>3. ListedHasBody' /\ ReleasedWasDelivered'
  BY <1>1 DEF QuarantineInv, ListedHasBody, ReleasedWasDelivered
<1>4. now' # 0 /\ (\A u \in Users : ReleaseOK(u)') /\ ReachesOwnersOnly'
  BY <1>1 DEF QuarantineInv, ReleaseOK, ReachesOwnersOnly
<1> QED
  BY <1>2, <1>3, <1>4 DEF QuarantineInv

LEMMA QuarantineStep == QuarantineInv /\ [Next]_vars => QuarantineInv'
<1> SUFFICES ASSUME QuarantineInv, [Next]_vars PROVE QuarantineInv'
  OBVIOUS
<1>1. CASE \E e \in Entries : Save(e)
  BY <1>1, SaveStep
<1>2. CASE \E u \in Users, e \in Entries : ReleaseStart(u, e) \/ Delete(u, e)
  BY <1>2, ReleaseStartStep, DeleteStep
<1>3. CASE \E u \in Users : Reinject(u) \/ ReleaseEnd(u)
  BY <1>3, ReinjectStep, ReleaseEndStep
<1>4. CASE Prune \/ PruneFails
  BY <1>4, PruneStep
<1>5. CASE Tick
  BY <1>5 DEF Tick, QuarantineInv, TypeOK, ReleaseOK, ListedHasBody, ReachesOwnersOnly,
              ReleasedWasDelivered
<1>6. CASE Crash
  BY <1>6 DEF Crash, QuarantineInv, TypeOK, ReleaseOK, ListedHasBody, ReachesOwnersOnly,
              ReleasedWasDelivered
<1>7. CASE UNCHANGED vars
  BY <1>7 DEF vars, QuarantineInv, TypeOK, ReleaseOK, ListedHasBody, ReachesOwnersOnly,
              ReleasedWasDelivered
<1> QED
  BY <1>1, <1>2, <1>3, <1>4, <1>5, <1>6, <1>7 DEF Next

LEMMA QuarantineInvariant == Spec => []QuarantineInv
BY QuarantineInit, QuarantineStep, PTL DEF Spec

-----------------------------------------------------------------------------
(* The properties *)

\* The store's two files, the clock and the requests stay well formed.
THEOREM QuarantineType == Spec => []TypeOK
BY QuarantineInvariant, PTL DEF QuarantineInv

\* Whatever is the last file operation of a save, a mark or a prune, a listed
\* message has its body.
THEOREM ListedIsReleasable == Spec => []ListedHasBody
BY QuarantineInvariant, PTL DEF QuarantineInv

\* Releases of several users at once reach no address whose owner, or an
\* administrator, did not ask.
THEOREM ReleasesReachOwners == Spec => []ReachesOwnersOnly
BY QuarantineInvariant, PTL DEF QuarantineInv

\* An entry is shown as released only after :10025 took it.
THEOREM ReleasedIsDelivered == Spec => []ReleasedWasDelivered
BY QuarantineInvariant, PTL DEF QuarantineInv

-----------------------------------------------------------------------------
(* Bodies *)

\* A time lies within a day of its day's midnight.
LEMMA DayBounds ==
    ASSUME NEW t \in Nat
    PROVE  DayOf(t) \in Nat /\ t < DayOf(t) * TicksPerDay + TicksPerDay
BY QuarantineAssumption, SMTT(30) DEF DayOf

\* A day that is expired began more than the retention ago.
LEMMA ExpiredIsOld ==
    ASSUME NEW t \in Nat, now \in Nat, Expired(DayOf(t))
    PROVE  now - t > (Retention - 1) * TicksPerDay
<1> DEFINE d == DayOf(t)
<1>1. d * TicksPerDay + Retention * TicksPerDay < now
  BY DEF Expired
<1>2. d \in Nat /\ t < d * TicksPerDay + TicksPerDay
  BY DayBounds
<1>3. /\ d * TicksPerDay \in Nat /\ Retention * TicksPerDay \in Nat
      /\ (Retention - 1) * TicksPerDay = Retention * TicksPerDay - TicksPerDay
  BY <1>2, QuarantineAssumption
<1> HIDE DEF d
<1> QED
  BY <1>1, <1>2, <1>3, QuarantineAssumption

\* The only copy of a held message goes when a user was told that it is deleted,
\* when it was kept for its time less the part of a day, or when a release ends
\* that :10025 took for one of its recipients: whoever acts on the message at the
\* same time, and whatever is the last operation of a save, a mark or a prune.
THEOREM BodiesKept == Spec => BodyNotLost
<1> DEFINE Reason(e) ==
               \/ e \in told'
               \/ now - born[e] > (Retention - 1) * TicksPerDay
               \/ \E u \in Users :
                      /\ req[u].at = "ok" /\ req[u].entry = e /\ req[u].to = ReleasedTo(u, e)
                      /\ req[u].to \intersect got[e] # {}
           Kept == \A e \in body \ body' : Reason(e)
<1>1. ASSUME QuarantineInv, [Next]_vars PROVE Kept
  <2> SUFFICES ASSUME NEW e \in body \ body' PROVE Reason(e)
    OBVIOUS
  <2>1. TypeOK /\ e \in Entries
    BY <1>1 DEF QuarantineInv, TypeOK
  <2>2. CASE \E x \in Entries : Save(x)
    BY <2>2 DEF Save
  <2>3. CASE \E u \in Users, x \in Entries : ReleaseStart(u, x)
    BY <2>3 DEF ReleaseStart
  <2>4. CASE \E u \in Users, x \in Entries : Delete(u, x)
    <3>1. PICK u \in Users, x \in Entries, n \in Steps :
              /\ Mark(x, "deleted", n)
              /\ told' = IF n = 2 THEN told \union {x} ELSE told
      BY <2>4 DEF Delete
    <3>2. x = e /\ n = 2
      BY <2>1, <3>1, MarkEffect DEF Tombstones
    <3> QED
      BY <3>1, <3>2
  <2>5. CASE \E u \in Users : Reinject(u)
    BY <2>5 DEF Reinject
  <2>6. CASE \E u \in Users : ReleaseEnd(u)
    <3>1. PICK u \in Users : ReleaseEnd(u)
      BY <2>6
    <3>2. req[u] # NoRelease /\ req[u].entry \in Entries
      BY <2>1, <3>1, RequestIsRelease DEF ReleaseEnd, NoRelease
    <3>3. PICK n \in Steps : req[u].at = "ok" /\ Mark(req[u].entry, "released", n)
      BY <3>1 DEF ReleaseEnd, Marks
    <3>4. req[u].entry = e
      BY <2>1, <3>2, <3>3, MarkEffect DEF Tombstones
    <3> QED
      BY <1>1, <3>2, <3>3, <3>4 DEF QuarantineInv, ReleaseOK
  <2>7. CASE Prune \/ PruneFails
    <3>1. PICK d \in Days : Expired(d) /\ e \in BodiesOf(d)
      BY <2>1, <2>7, PruneEffect, PruneFailsEffect
    <3>2. d = DayOf(born[e]) /\ born[e] \in Nat /\ now \in Nat
      BY <2>1, <3>1 DEF BodiesOf, TypeOK
    <3> QED
      BY <3>1, <3>2, ExpiredIsOld
  <2>8. CASE Tick \/ Crash \/ UNCHANGED vars
    BY <2>8 DEF Tick, Crash, vars
  <2> QED
    BY <1>1, <2>2, <2>3, <2>4, <2>5, <2>6, <2>7, <2>8 DEF Next
<1>2. QuarantineInv /\ [Next]_vars => [Kept]_vars
  BY <1>1
<1> QED
  BY QuarantineInvariant, <1>2, PTL DEF Spec, BodyNotLost, Kept

-----------------------------------------------------------------------------
(* Erasure *)

\* A file, or the word of a deletion, is of a message that was dropped, and a
\* message deleted for good has no body.
ErasureInv ==
    /\ \A e \in Entries : (meta[e] # "none" \/ e \in body \/ e \in told) => born[e] # 0
    /\ told \intersect body = {}

\* The bodies that the next prune removes.
Overdue == {e \in body : Expired(DayOf(born[e]))}

\* Every body becomes overdue at the end of its retention; while one is, the
\* loop has work, its prune leaves none, no other step takes one off the list
\* but by its removal, and no body comes back that was removed.
ErasureGoesOn ==
    /\ \A e \in body : now > born[e] + Retention * TicksPerDay => e \in Overdue
    /\ Overdue # {} => \E d \in Days : Expired(d) /\ MetasOf(d) \union BodiesOf(d) # {}
    /\ Prune => Overdue' = {}
    /\ \A e \in Overdue : e \in body' => e \in Overdue'
    /\ \A e \in body' \ body : born[e] = 0 /\ born'[e] # 0 /\ e \notin Overdue'

\* A release of an entry whose thread has yet to talk to :10025.
UnderWay(u, e) == req[u].at = "running" /\ req[u].entry = e

\* What a deletion promises, and what it does not.
NoLateRelease ==
    \A e \in told :
        /\ e \notin body'
        /\ \A u \in Users : UnderWay(u, e)' => UnderWay(u, e) /\ req'[u] = req[u]
        /\ got'[e] # got[e] => \E u \in Users : UnderWay(u, e) /\ got'[e] \subseteq got[e] \union req[u].to

LEMMA FreshIsNotExpired ==
    ASSUME NEW t \in Nat, now \in Nat, now <= t + 1
    PROVE  ~Expired(DayOf(t))
<1> SUFFICES ASSUME Expired(DayOf(t)) PROVE FALSE
  OBVIOUS
<1>1. now - t > (Retention - 1) * TicksPerDay
  BY ExpiredIsOld
<1>2. CASE Retention = 1
  <2>1. DayOf(t) * TicksPerDay + TicksPerDay < now
    BY <1>2, QuarantineAssumption DEF Expired
  <2>2. t < DayOf(t) * TicksPerDay + TicksPerDay /\ DayOf(t) * TicksPerDay \in Nat
    BY DayBounds, QuarantineAssumption
  <2> QED
    BY <2>1, <2>2, QuarantineAssumption
<1>3. CASE Retention # 1
  <2>1. (Retention - 1) * TicksPerDay >= 1
    BY <1>3, QuarantineAssumption
  <2> QED
    BY <1>1, <2>1, QuarantineAssumption
<1> QED
  BY <1>2, <1>3

LEMMA OldIsExpired ==
    ASSUME NEW t \in Nat, now \in Nat, now > t + Retention * TicksPerDay
    PROVE  Expired(DayOf(t))
<1>1. DayOf(t) * TicksPerDay <= t /\ DayOf(t) * TicksPerDay \in Nat
  BY QuarantineAssumption, SMTT(30) DEF DayOf
<1>2. Retention * TicksPerDay \in Nat
  BY QuarantineAssumption
<1> QED
  BY <1>1, <1>2 DEF Expired

\* What a step does to the bodies, the birthdays and the deletions.
LEMMA BodiesStep ==
    ASSUME QuarantineInv, ErasureInv, [Next]_vars
    PROVE  \/ /\ \E e \in Entries, n \in Steps, began \in {now, now - 1} \ {0} :
                    /\ born[e] = 0 /\ born' = [born EXCEPT ![e] = began]
                    /\ body' \in {body, body \union {e}}
                    /\ \A x \in Entries \ {e} : meta'[x] = meta[x]
              /\ UNCHANGED <<now, req, got, told>>
           \/ /\ body' \subseteq body /\ born' = born /\ now' \in {now, now + 1}
              /\ \A e \in Entries : meta[e] = "none" => meta'[e] = "none"
              /\ told \subseteq told'
              /\ \A e \in told' \ told : e \notin body' /\ meta[e] # "none"
<1> DEFINE A == \E e \in Entries, n \in Steps, began \in {now, now - 1} \ {0} :
                    /\ born[e] = 0 /\ born' = [born EXCEPT ![e] = began]
                    /\ body' \in {body, body \union {e}}
                    /\ \A x \in Entries \ {e} : meta'[x] = meta[x]
           B == /\ body' \subseteq body /\ born' = born /\ now' \in {now, now + 1}
                /\ \A e \in Entries : meta[e] = "none" => meta'[e] = "none"
                /\ told \subseteq told'
                /\ \A e \in told' \ told : e \notin body' /\ meta[e] # "none"
<1>1. TypeOK
  BY DEF QuarantineInv
<1>2. ASSUME NEW e \in Entries, Save(e) PROVE A /\ UNCHANGED <<now, req, got, told>>
  <2>1. PICK n \in Steps, began \in {now, now - 1} \ {0} :
            /\ born[e] = 0
            /\ born' = [born EXCEPT ![e] = began]
            /\ meta' = IF n = 2 THEN [meta EXCEPT ![e] = "quarantined"] ELSE meta
            /\ body' = IF n >= 1 THEN body \union {e} ELSE body
            /\ UNCHANGED <<now, req, got, told>>
    BY <1>2 DEF Save, Saved
  <2> QED
    BY <1>1, <2>1 DEF TypeOK
<1>3. ASSUME NEW u \in Users, NEW e \in Entries, ReleaseStart(u, e) PROVE B
  BY <1>3 DEF ReleaseStart
<1>4. ASSUME NEW u \in Users, NEW e \in Entries, Delete(u, e) PROVE B
  <2>1. PICK n \in Steps : /\ CanAct(u, e) /\ Mark(e, "deleted", n)
                           /\ told' = IF n = 2 THEN told \union {e} ELSE told
                           /\ UNCHANGED <<born, now, req, got>>
    BY <1>4 DEF Delete
  <2>2. /\ body' \subseteq body /\ \A x \in Entries \ {e} : meta'[x] = meta[x]
        /\ meta[e] # "none"
    BY <1>1, <2>1, MarkEffect DEF CanAct, Tombstones
  <2>3. n = 2 => e \notin body'
    BY <2>1, <2>2 DEF Mark
  <2> QED
    BY <1>1, <2>1, <2>2, <2>3 DEF TypeOK
<1>5. ASSUME NEW u \in Users, Reinject(u) PROVE B
  BY <1>5 DEF Reinject
<1>6. ASSUME NEW u \in Users, ReleaseEnd(u) PROVE B
  <2>1. req[u] # NoRelease
    BY <1>6 DEF ReleaseEnd, NoRelease
  <2> DEFINE e == req[u].entry
  <2>2. e \in Entries
    BY <1>1, <2>1, RequestIsRelease
  <2>3. body' \subseteq body /\ \A x \in Entries : meta[x] = "none" => meta'[x] = "none"
    <3>1. CASE \E n \in Steps : Mark(e, "released", n)
      <4>1. PICK n \in Steps : Mark(e, "released", n)
        BY <3>1
      <4>2. body' \subseteq body /\ \A x \in Entries \ {e} : meta'[x] = meta[x]
        BY <1>1, <2>2, <4>1, MarkEffect DEF Tombstones
      <4>3. meta[e] = "none" => meta'[e] = "none"
        BY <4>1 DEF Mark
      <4> QED
        BY <4>2, <4>3
    <3>2. CASE UNCHANGED <<meta, body>>
      BY <3>2
    <3> QED
      BY <1>6, <3>1, <3>2 DEF ReleaseEnd
  <2> QED
    BY <1>6, <2>3 DEF ReleaseEnd
<1>7. CASE Prune \/ PruneFails
  BY <1>1, <1>7, PruneEffect, PruneFailsEffect
<1>8. CASE Tick
  BY <1>8 DEF Tick
<1>9. CASE Crash
  BY <1>9 DEF Crash
<1>10. CASE UNCHANGED vars
  BY <1>10 DEF vars
<1> QED
  BY <1>2, <1>3, <1>4, <1>5, <1>6, <1>7, <1>8, <1>9, <1>10 DEF Next

LEMMA ErasureStep == QuarantineInv /\ ErasureInv /\ [Next]_vars => ErasureInv'
<1> SUFFICES ASSUME QuarantineInv, ErasureInv, [Next]_vars PROVE ErasureInv'
  OBVIOUS
<1>1. TypeOK
  BY DEF QuarantineInv
<1>2. CASE \E e \in Entries, began \in {now, now - 1} \ {0} :
               /\ born[e] = 0 /\ born' = [born EXCEPT ![e] = began]
               /\ body' \in {body, body \union {e}}
               /\ \A x \in Entries \ {e} : meta'[x] = meta[x]
               /\ told' = told
  <2>1. PICK e \in Entries, began \in {now, now - 1} \ {0} :
               /\ born[e] = 0 /\ born' = [born EXCEPT ![e] = began]
               /\ body' \in {body, body \union {e}}
               /\ \A x \in Entries \ {e} : meta'[x] = meta[x]
               /\ told' = told
    BY <1>2
  <2>2. born'[e] # 0 /\ e \notin told /\ \A x \in Entries \ {e} : born'[x] = born[x]
    BY <1>1, <2>1 DEF TypeOK, ErasureInv
  <2> QED
    BY <2>1, <2>2 DEF ErasureInv
<1>3. CASE /\ body' \subseteq body /\ born' = born
           /\ \A e \in Entries : meta[e] = "none" => meta'[e] = "none"
           /\ \A e \in told' \ told : e \notin body' /\ meta[e] # "none"
  BY <1>3 DEF ErasureInv
<1> QED
  BY <1>2, <1>3, BodiesStep

\* A prune removes all that is overdue.
LEMMA PruneErases ==
    ASSUME TypeOK, Prune
    PROVE  \A e \in body' : e \in body /\ (born[e] # 0 => ~Expired(DayOf(born[e])))
<1> DEFINE days == {d \in Days : Expired(d)}
<1>1. body' = body \ UNION {BodiesOf(d) : d \in days}
  BY DEF Prune
<1>2. ASSUME NEW e \in body, born[e] # 0, Expired(DayOf(born[e])) PROVE e \notin body'
  <2>1. e \in Entries
    BY DEF TypeOK
  <2>2. DayOf(born[e]) \in days /\ e \in BodiesOf(DayOf(born[e]))
    BY <1>2, <2>1 DEF Days, BodiesOf
  <2> QED
    BY <1>1, <2>2
<1> QED
  BY <1>1, <1>2

\* The retention loop's part in erasing every body (main.py, quarantine.py:
\* 164-190): its fair turns are all that EveryBodyErased needs besides.
THEOREM BodiesAreErased == Spec => [][ErasureGoesOn]_vars
<1>1. ASSUME QuarantineInv, ErasureInv, [Next]_vars PROVE ErasureGoesOn
  <2>1. /\ TypeOK /\ now \in Nat /\ body \subseteq Entries
        /\ \A e \in body : born[e] \in Nat /\ born[e] # 0
    BY <1>1 DEF QuarantineInv, TypeOK, ErasureInv
  <2>2. \A e \in body : now > born[e] + Retention * TicksPerDay => e \in Overdue
    BY <2>1, OldIsExpired DEF Overdue
  <2>3. Overdue # {} => \E d \in Days : Expired(d) /\ MetasOf(d) \union BodiesOf(d) # {}
    BY <2>1 DEF Overdue, Days, BodiesOf
  <2>4. Prune => Overdue' = {}
    <3> SUFFICES ASSUME Prune, NEW e \in body', Expired(DayOf(born[e]))' PROVE FALSE
      BY DEF Overdue
    <3>1. born' = born /\ now' = now
      BY DEF Prune
    <3>2. e \in body /\ Expired(DayOf(born[e]))
      BY <2>1, <3>1, PruneErases DEF Expired, DayOf
    <3> QED
      BY <2>1, <3>2, PruneErases
  <2>5. ASSUME NEW e \in Overdue, e \in body' PROVE e \in Overdue'
    <3>1. born'[e] = born[e] /\ now' \in {now, now + 1}
      BY <1>1, <2>1, <2>5, BodiesStep DEF Overdue, TypeOK
    <3>2. DayOf(born[e]) * TicksPerDay + Retention * TicksPerDay < now
      BY <2>5 DEF Overdue, Expired
    <3>3. DayOf(born[e]) \in Nat
      BY <2>1, <2>5, DayBounds DEF Overdue
    <3>4. DayOf(born[e]) * TicksPerDay + Retention * TicksPerDay \in Nat
      BY <3>3, QuarantineAssumption
    <3>5. DayOf(born[e]) * TicksPerDay + Retention * TicksPerDay < now'
      BY <2>1, <3>1, <3>2, <3>4
    <3> QED
      BY <2>5, <3>1, <3>5 DEF Overdue, Expired, DayOf
  <2>6. ASSUME NEW e \in body' \ body
        PROVE  born[e] = 0 /\ born'[e] # 0 /\ e \notin Overdue'
    <3>1. PICK x \in Entries, began \in {now, now - 1} \ {0} :
              /\ born[x] = 0 /\ born' = [born EXCEPT ![x] = began]
              /\ body' \in {body, body \union {x}} /\ now' = now
      BY <1>1, <2>6, BodiesStep
    <3>2. x = e /\ born'[e] = began
      BY <2>1, <2>6, <3>1 DEF TypeOK
    <3>3. began \in Nat /\ now <= began + 1
      BY <1>1, <2>1, <3>1 DEF QuarantineInv
    <3>4. ~Expired(DayOf(began))
      BY <2>1, <3>3, FreshIsNotExpired
    <3>5. ~Expired(DayOf(born[e]))'
      BY <3>1, <3>2, <3>4 DEF Expired, DayOf
    <3> QED
      BY <3>1, <3>2, <3>5 DEF Overdue
  <2> QED
    BY <2>2, <2>3, <2>4, <2>5, <2>6 DEF ErasureGoesOn
<1>2. Init => ErasureInv
  BY DEF Init, ErasureInv
<1> QED
  BY <1>1, <1>2, ErasureStep, QuarantineInvariant, PTL DEF Spec

\* The extent of DeletedNeverDelivered's violation (app.py:834-870): what is
\* deleted for good has lost its body, no release of it begins, and only one
\* that was under way, to the addresses it was asked for, delivers it still.
THEOREM LateReleasesOnly == Spec => [][NoLateRelease]_vars
<1>1. ASSUME QuarantineInv, ErasureInv, ErasureInv', [Next]_vars PROVE NoLateRelease
  <2> SUFFICES ASSUME NEW e \in told
               PROVE  /\ e \notin body'
                      /\ \A u \in Users : UnderWay(u, e)' => UnderWay(u, e) /\ req'[u] = req[u]
                      /\ got'[e] # got[e] => \E u \in Users :
                            UnderWay(u, e) /\ got'[e] \subseteq got[e] \union req[u].to
    BY DEF NoLateRelease
  <2>1. TypeOK /\ e \in Entries /\ e \notin body
    BY <1>1 DEF QuarantineInv, TypeOK, ErasureInv
  <2>2. e \notin body'
    BY <1>1, BodiesStep DEF ErasureInv
  <2> DEFINE Same == UNCHANGED <<req, got>>
             Goal == /\ \A u \in Users : UnderWay(u, e)' => UnderWay(u, e) /\ req'[u] = req[u]
                     /\ got'[e] # got[e] => \E u \in Users :
                            UnderWay(u, e) /\ got'[e] \subseteq got[e] \union req[u].to
  <2>3. Same => Goal
    BY DEF UnderWay
  <2>4. ASSUME NEW u \in Users, NEW x \in Entries, ReleaseStart(u, x) PROVE Goal
    <3>1. x # e /\ got' = got /\ (\A v \in Users \ {u} : req'[v] = req[v]) /\ req'[u].entry = x
      BY <2>1, <2>4 DEF ReleaseStart, TypeOK
    <3> QED
      BY <3>1 DEF UnderWay
  <2>5. ASSUME NEW u \in Users, Reinject(u) PROVE Goal
    <3>1. /\ req[u].at = "running" /\ req'[u].at \in {"failed", "ok"}
          /\ \A v \in Users \ {u} : req'[v] = req[v]
      BY <2>1, <2>5 DEF Reinject, TypeOK
    <3>2. PICK R \in SUBSET req[u].to : got' = [got EXCEPT ![req[u].entry] = @ \union R]
      BY <2>5 DEF Reinject
    <3>3. got'[e] # got[e] => req[u].entry = e /\ got'[e] \subseteq got[e] \union req[u].to
      BY <2>1, <3>2 DEF TypeOK
    <3> QED
      BY <3>1, <3>3 DEF UnderWay
  <2>6. ASSUME NEW u \in Users, ReleaseEnd(u) PROVE Goal
    <3>1. got' = got /\ req'[u].at = "idle" /\ \A v \in Users \ {u} : req'[v] = req[v]
      BY <2>1, <2>6 DEF ReleaseEnd, TypeOK, NoRelease
    <3> QED
      BY <3>1 DEF UnderWay
  <2>7. ASSUME Crash PROVE Goal
    <3>1. got' = got /\ \A v \in Users : req'[v].at = "idle"
      BY <2>7 DEF Crash, NoRelease
    <3> QED
      BY <3>1 DEF UnderWay
  <2>8. ASSUME \/ \E x \in Entries : Save(x)
               \/ \E u \in Users, x \in Entries : Delete(u, x)
               \/ Prune \/ PruneFails \/ Tick \/ UNCHANGED vars
        PROVE  Goal
    <3>1. Same
      BY <2>8 DEF Save, Delete, Prune, PruneFails, Tick, vars
    <3> QED
      BY <2>3, <3>1
  <2>9. Goal
    BY <1>1, <2>4, <2>5, <2>6, <2>7, <2>8 DEF Next
  <2> QED
    BY <2>2, <2>9
<1>2. Init => ErasureInv
  BY DEF Init, ErasureInv
<1> QED
  BY <1>1, <1>2, ErasureStep, QuarantineInvariant, PTL DEF Spec
=============================================================================
