----------------------------- MODULE Quarantine -----------------------------
(***************************************************************************)
(* The quarantine of dropped mail: the store (store/quarantine.py), its    *)
(* release and delete handlers (admin/app.py) and the retention loop       *)
(* (main.py).                                                              *)
(*                                                                         *)
(* An entry is two files in the directory of its day: the metadata and the *)
(* encrypted body.  The store's functions run to their end on the event    *)
(* loop, but any of their file operations can be the last (an I/O error,   *)
(* or the end of the program).  A release alone gives up the loop, while   *)
(* its re-injection runs on a thread.                                      *)
(***************************************************************************)
EXTENDS Naturals

CONSTANTS
    Entries,      \* dropped messages, by trace id
    Users,        \* users of the admin UI, one release at a time each
    Admins,       \* those who are administrators
    Rcpts,        \* the envelope recipients of a message
    Owned,        \* the addresses of a user
    Retention,    \* quarantine.retention_days
    TicksPerDay,  \* grain of the clock
    LastSave,     \* bound: no message is dropped after this tick
    Horizon       \* bound: the clock stops here

ASSUME QuarantineAssumption ==
    /\ Admins \subseteq Users
    /\ Retention \in Nat \ {0}
    /\ TicksPerDay \in Nat \ {0}
    /\ LastSave \in Nat
    /\ Horizon \in Nat

Addresses == UNION {Rcpts[e] : e \in Entries}

VARIABLES
    meta,   \* the status in the metadata file, "none" without a file
    body,   \* the entries whose .enc file exists
    born,   \* when the analysis of a dropped message began, 0 before the drop
    now,    \* the clock
    req,    \* a user's release request
    got,    \* the recipients that :10025 accepted an entry for
    asked,  \* history: the users who asked for an entry's release
    told    \* history: entries a user was told are permanently deleted

vars == <<meta, body, born, now, req, got, asked, told>>

Tombstones == {"released", "deleted"}
NoRelease == [at |-> "idle"]
Release == [at : {"running", "ok", "failed"}, entry : Entries, to : SUBSET Addresses]

TypeOK ==
    /\ meta \in [Entries -> {"none", "quarantined"} \union Tombstones]
    /\ body \subseteq Entries
    /\ born \in [Entries -> Nat]
    /\ now \in Nat
    /\ req \in [Users -> Release \union {NoRelease}]
    /\ got \in [Entries -> SUBSET Addresses]
    /\ asked \in [Entries -> SUBSET Users]
    /\ told \subseteq Entries

Init ==
    /\ meta = [e \in Entries |-> "none"]
    /\ body = {}
    /\ born = [e \in Entries |-> 0]
    /\ now = 1
    /\ req = [u \in Users |-> NoRelease]
    /\ got = [e \in Entries |-> {}]
    /\ asked = [e \in Entries |-> {}]
    /\ told = {}

-----------------------------------------------------------------------------
(* The store *)

\* How many of a call's two file operations are done when it ends or fails.
Steps == 0..2

\* save: the body, then the metadata; Pipeline._save_quarantine swallows any
\* error.
Saved(n) == [meta |-> n = 2, body |-> n >= 1]

Save(e) ==
    \E n \in Steps, began \in {now, now - 1} \ {0} :
        /\ born[e] = 0
        /\ now <= LastSave
        /\ born' = [born EXCEPT ![e] = began]
        /\ meta' = IF Saved(n).meta THEN [meta EXCEPT ![e] = "quarantined"] ELSE meta
        /\ body' = IF Saved(n).body THEN body \union {e} ELSE body
        /\ UNCHANGED <<now, req, got, asked, told>>

\* mark: nothing for an entry that is gone; else the metadata is rewritten,
\* then the body is unlinked.
Mark(e, status, n) ==
    IF meta[e] = "none" THEN UNCHANGED <<meta, body>>
    ELSE /\ meta' = IF n >= 1 THEN [meta EXCEPT ![e] = status] ELSE meta
         /\ body' = IF n = 2 THEN body \ {e} ELSE body

-----------------------------------------------------------------------------
(* The handlers *)

\* _load_entry_for_action: the entry exists and is the user's to see.  Its
\* status is not looked at.
CanAct(u, e) ==
    /\ meta[e] # "none"
    /\ u \in Admins \/ Rcpts[e] \intersect Owned[u] # {}

\* Two wrong handlers: every release goes to all recipients; a release goes to
\* the user's addresses, recipients or not.
ReleasedToAll(u, e) == Rcpts[e]
ReleasedToOwned(u, e) == IF u \in Admins THEN Rcpts[e] ELSE Owned[u]

\* Whom a user's release of an entry reaches.
ReleasedTo(u, e) == IF u \in Admins THEN Rcpts[e] ELSE Rcpts[e] \intersect Owned[u]

\* quarantine_release up to its await.
ReleaseStart(u, e) ==
    /\ req[u] = NoRelease
    /\ CanAct(u, e)
    /\ e \in body
    /\ ReleasedTo(u, e) # {}
    /\ req' = [req EXCEPT ![u] = [at |-> "running", entry |-> e, to |-> ReleasedTo(u, e)]]
    /\ asked' = [asked EXCEPT ![e] = @ \union {u}]
    /\ UNCHANGED <<meta, body, born, now, got, told>>

\* A wrong re-injection: a refusal of every recipient goes unnoticed.
RaisesOnLossOnly(R, lost) == lost

\* smtplib raises if no recipient is accepted, or if the answer is lost.
Raises(R, lost) == R = {} \/ lost

\* The thread of a release.
Reinject(u) ==
    /\ req[u].at = "running"
    /\ \E R \in SUBSET req[u].to, lost \in BOOLEAN :
          /\ got' = [got EXCEPT ![req[u].entry] = @ \union R]
          /\ req' = [req EXCEPT ![u].at = IF Raises(R, lost) THEN "failed" ELSE "ok"]
    /\ UNCHANGED <<meta, body, born, now, asked, told>>

\* Only a re-injection that did not raise lets the entry be marked.
Marks(state) == state = "ok"

\* quarantine_release after its await.
ReleaseEnd(u) ==
    /\ req[u].at \in {"ok", "failed"}
    /\ IF Marks(req[u].at) THEN \E n \in Steps : Mark(req[u].entry, "released", n)
       ELSE UNCHANGED <<meta, body>>
    /\ req' = [req EXCEPT ![u] = NoRelease]
    /\ UNCHANGED <<born, now, got, asked, told>>

\* quarantine_delete: "Message permanently deleted."
Delete(u, e) ==
    \E n \in Steps :
        /\ CanAct(u, e)
        /\ Mark(e, "deleted", n)
        /\ told' = IF n = 2 THEN told \union {e} ELSE told
        /\ UNCHANGED <<born, now, req, got, asked>>

-----------------------------------------------------------------------------
(* Retention *)

DayOf(t) == t \div TicksPerDay

\* A wrong cutoff: the end of the day, whatever the retention.
ExpiredOvernight(d) == d < DayOf(now)

\* A day is expired when its midnight is before now - Retention.
Expired(d) == d * TicksPerDay + Retention * TicksPerDay < now

Days == {DayOf(born[e]) : e \in {x \in Entries : born[x] # 0}}
MetasOf(d) == {e \in Entries : meta[e] # "none" /\ DayOf(born[e]) = d}

\* A wrong prune: it looks for the bodies by their metadata.
ListedBodiesOf(d) == {e \in body : meta[e] # "none" /\ DayOf(born[e]) = d}

BodiesOf(d) == {e \in body : DayOf(born[e]) = d}

\* prune: for each expired day all metadata, then all bodies.
Prune ==
    LET days == {d \in Days : Expired(d)}
    IN  /\ \E d \in days : MetasOf(d) \union BodiesOf(d) # {}
        /\ meta' = [e \in Entries |-> IF \E d \in days : e \in MetasOf(d)
                                      THEN "none" ELSE meta[e]]
        /\ body' = body \ UNION {BodiesOf(d) : d \in days}
        /\ UNCHANGED <<born, now, req, got, asked, told>>

\* A wrong order: the bodies of a day first.
BodiesFirst(d, M, B) == M # {} => B = BodiesOf(d)

\* What a prune that fails in the middle of a day has removed of it.
MetasFirst(d, M, B) == B # {} => M = MetasOf(d)

\* prune stopped by an error, or by the end of the program: some days are done,
\* one in part.
PruneFails ==
    \E done \in SUBSET {d \in Days : Expired(d)} :
        \E d \in {x \in Days : Expired(x)} \ done :
            \E M \in SUBSET MetasOf(d), B \in SUBSET BodiesOf(d) :
                /\ MetasFirst(d, M, B)
                /\ meta' = [e \in Entries |->
                               IF e \in M \/ \E x \in done : e \in MetasOf(x)
                               THEN "none" ELSE meta[e]]
                /\ body' = body \ (B \union UNION {BodiesOf(x) : x \in done})
                /\ UNCHANGED <<born, now, req, got, asked, told>>

\* Time passes.
Tick ==
    /\ now < Horizon
    /\ now' = now + 1
    /\ UNCHANGED <<meta, body, born, req, got, asked, told>>

\* The program ends and starts again.
Crash ==
    /\ \E u \in Users : req[u] # NoRelease
    /\ req' = [u \in Users |-> NoRelease]
    /\ UNCHANGED <<meta, body, born, now, got, asked, told>>

Next ==
    \/ \E e \in Entries : Save(e)
    \/ \E u \in Users, e \in Entries : ReleaseStart(u, e) \/ Delete(u, e)
    \/ \E u \in Users : Reinject(u) \/ ReleaseEnd(u)
    \/ Prune \/ PruneFails \/ Tick \/ Crash

Spec == Init /\ [][Next]_vars

\* The clock runs; the retention loop comes back every day and after every
\* start, and does not fail for ever.
FairSpec == Spec /\ WF_vars(Tick) /\ WF_vars(Prune)

-----------------------------------------------------------------------------
(* Properties *)

\* What the Quarantine page lists can be previewed and released: its body is
\* there, whichever file operation was the last one before an error or a crash,
\* and whatever another user does (quarantine.py:95-98, 157-160, 181-186).
ListedHasBody == \A e \in Entries : meta[e] = "quarantined" => e \in body

\* A held message reaches an address only if its owner or an administrator
\* asked for it, also when several users release the same message at once
\* (app.py:834-841).
ReachesOwnersOnly ==
    \A e \in Entries : \A r \in got[e] :
        \E u \in asked[e] : u \in Admins \/ r \in Owned[u]

\* An entry shown as released was accepted by :10025 for someone: the mark is
\* never ahead of the re-injection (app.py:850-857).
ReleasedWasDelivered ==
    \A e \in Entries : meta[e] = "released" => got[e] # {}

\* What erases the only copy of a held message: a user is told that it is
\* deleted; its retention, counted from the start of its day and so up to a day
\* short, is over; or a release ends that :10025 accepted for at least one of
\* those whom its user may release it to.  The code does not keep to "delivered
\* to the original envelope recipients" (docs/QUARANTINE.md:33) before it: those
\* whom :10025 refused, and those who are not the user's, lose the message
\* (quarantine.py:148-161, 164-190).
BodyNotLost ==
    [][\A e \in body \ body' :
          \/ e \in told'
          \/ now - born[e] > (Retention - 1) * TicksPerDay
          \/ \E u \in Users :
                 /\ req[u].at = "ok" /\ req[u].entry = e /\ req[u].to = ReleasedTo(u, e)
                 /\ req[u].to \intersect got[e] # {}]_vars

\* Every stored body is erased in the end, the ones of failed saves and failed
\* marks included (quarantine.py:183-187).
EveryBodyErased == \A e \in Entries : (e \in body) ~> (e \notin body)

\* "Permanently delete this message? This cannot be undone." (quarantine.html:
\* 80): a message a user was told is deleted is not delivered afterwards.  A
\* release that was under way when it was deleted still delivers it.
DeletedNeverDelivered ==
    [][\A e \in told : got'[e] = got[e]]_vars
=============================================================================
