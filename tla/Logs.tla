-------------------------------- MODULE Logs --------------------------------
(***************************************************************************)
(* What is kept of the messages: a trace of each in a file per day, with   *)
(* the last ones in memory (store/tracelog.py), a raw copy of a dropped    *)
(* one in a directory per day (store/rawlog.py), and the daily pass that   *)
(* removes old days (main.py, retention_loop).                             *)
(*                                                                         *)
(* Writer, pages and retention run on one event loop, and none of them     *)
(* awaits anything between its first file operation and its last.          *)
(***************************************************************************)
EXTENDS Naturals, Sequences, FiniteSets, Functions, Ordering

CONSTANTS
    Traces,     \* messages
    CacheMax,   \* _CACHE_MAX, traces kept in memory
    Limits,     \* how many of them the pages ask for
    Horizon     \* bound: the last day

ASSUME LogsAssumption ==
    /\ IsFiniteSet(Traces)
    /\ CacheMax \in Nat \ {0}
    /\ Limits \subseteq 1..CacheMax
    /\ Horizon \in Nat

VARIABLES
    today,
    begun,      \* messages that have arrived
    day,        \* the day on which one did
    open,       \* messages being processed
    disk,       \* messages/<day>.jsonl: the traces in it
    raw,        \* raw/<day>: the copies in it
    cached,     \* _cache, newest first
    loaded,     \* _cache_loaded
    copied,     \* history: traces which say that a raw copy was saved
    nth,        \* history: a trace was the nth one written
    unread,     \* history: the days that the load of the cache could not read
    straddled   \* history: days that expired in the middle of a retention pass

logsVars ==
    <<today, begun, day, open, disk, raw, cached, loaded, copied, nth, unread, straddled>>

Days == 0..Horizon

LogsTypeOK ==
    /\ today \in Days
    /\ day \in [Traces -> Days]
    /\ open \subseteq begun /\ begun \subseteq Traces
    /\ disk \in [Days -> Seq(Traces)]
    /\ raw \in [Days -> SUBSET Traces]
    /\ cached \in Seq(Traces) /\ Len(cached) <= CacheMax
    /\ loaded \in BOOLEAN
    /\ copied \subseteq Traces
    /\ nth \in [Traces -> 0..Cardinality(Traces)]
    /\ unread \subseteq Days /\ straddled \subseteq Days

LogsInit ==
    /\ today = 0
    /\ begun = {}
    /\ day = [t \in Traces |-> 0]
    /\ open = {}
    /\ disk = [d \in Days |-> <<>>]
    /\ raw = [d \in Days |-> {}]
    /\ cached = <<>>
    /\ loaded = FALSE
    /\ copied = {}
    /\ nth = [t \in Traces |-> 0]
    /\ unread = {} /\ straddled = {}

-----------------------------------------------------------------------------
(* Writing *)

Arrive(t) ==
    /\ t \notin begun
    /\ begun' = begun \union {t}
    /\ day' = [day EXCEPT ![t] = today]
    /\ open' = open \union {t}
    /\ UNCHANGED <<today, disk, raw, cached, loaded, copied, nth, unread, straddled>>

FirstN(s, n) == SubSeq(s, 1, IF Len(s) <= n THEN Len(s) ELSE n)

\* The cache after finish: a trace is put in front if the cache was loaded.
Remembered(t) == IF loaded THEN FirstN(<<t>> \o cached, CacheMax) ELSE cached

\* A raw copy is saved if the message is dropped and the copy can be written.
Finish(t, copy, ok) ==
    /\ t \in open
    /\ open' = open \ {t}
    /\ raw' = IF copy THEN [raw EXCEPT ![day[t]] = @ \union {t}] ELSE raw
    /\ copied' = IF copy THEN copied \union {t} ELSE copied
    /\ IF ok
       THEN /\ disk' = [disk EXCEPT ![day[t]] = Append(@, t)]
            /\ cached' = Remembered(t)
            /\ nth' = [nth EXCEPT ![t] = 1 + Cardinality({u \in Traces : nth[u] > 0})]
       ELSE UNCHANGED <<disk, cached, nth>>
    /\ UNCHANGED <<today, begun, day, loaded, unread, straddled>>

\* The program ends and is started again; what was open is not finished.
Restart ==
    /\ open' = {}
    /\ cached' = <<>>
    /\ loaded' = FALSE
    /\ unread' = {}
    /\ UNCHANGED <<today, begun, day, disk, raw, copied, nth, straddled>>

-----------------------------------------------------------------------------
(* Reading *)

\* The lines of the days that can be read, and which of two comes first: the
\* newest day's, and of a day the last one.
DiskLines(bad) == UNION {{d} \X DOMAIN disk[d] : d \in Days \ bad}
NewestFirst(lines) ==
    {pair \in lines \X lines :
        \/ pair[1][1] > pair[2][1]
        \/ pair[1][1] = pair[2][1] /\ pair[1][2] > pair[2][2]}

\* _read_from_disk: the n newest traces; a file that cannot be read is passed over.
FromDisk(n, bad) ==
    LET order == InOrder(DiskLines(bad), NewestFirst(DiskLines(bad)))
    IN FirstN([i \in DOMAIN order |-> disk[order[i][1]][order[i][2]]], n)

\* A wrong load: no more than the page asks for.
AsAsked(limit) == limit
ToLoad(limit) == CacheMax

\* read_recent of any day: the first page loads the cache.
View(limit) ==
    /\ ~loaded
    /\ loaded' = TRUE
    /\ \E bad \in SUBSET {d \in Days : disk[d] # <<>>} :
          /\ cached' = FromDisk(ToLoad(limit), bad)
          /\ unread' = bad
    /\ UNCHANGED <<today, begun, day, open, disk, raw, copied, nth, straddled>>

-----------------------------------------------------------------------------
(* Retention *)

\* A day's midnight lies before the cutoff.
Expired(d, moment, retention) == d + retention <= moment

\* What a prune may leave: without the days that expired, or, if it fails, with
\* some of them.
Pruned(stored, moment, retention, none) ==
    [d \in Days |-> IF Expired(d, moment, retention) THEN none ELSE stored[d]]

TracesPruned(moment, retention) == disk' = Pruned(disk, moment, retention, <<>>)
TracePruneFails(moment, retention) ==
    \E left \in SUBSET {d \in Days : Expired(d, moment, retention)} :
        disk' = [d \in Days |-> IF Expired(d, moment, retention) /\ d \notin left
                                THEN <<>> ELSE disk[d]]
RawPruned(moment, retention) == raw' = Pruned(raw, moment, retention, {})
RawPruneFails(moment, retention) ==
    \E left \in [Days -> SUBSET Traces] :
        /\ \A d \in Days : IF Expired(d, moment, retention) THEN left[d] \subseteq raw[d]
                           ELSE left[d] = raw[d]
        /\ raw' = left

\* A wrong order: raw copies first, so that a failure leaves their traces.
RawFirst(retention) ==
    \/ RawPruned(today, retention) /\ TracesPruned(today, retention)
    \/ RawPruned(today, retention) /\ UNCHANGED disk

\* The traces, then the copies, each with the time it finds; an exception ends
\* the pass.
Prune(retention) ==
    \/ TracesPruned(today, retention) /\ RawPruned(today', retention)
    \/ TracesPruned(today, retention) /\ RawPruneFails(today', retention)
    \/ TracePruneFails(today, retention) /\ UNCHANGED raw

\* retention_loop's pass; midnight may come while it runs.
Retain(retention) ==
    /\ today' \in {today} \union {d \in Days : d = today + 1 /\ \A t \in open : day[t] = today}
    /\ Prune(retention)
    /\ straddled' = straddled \union
           {d \in Days : Expired(d, today', retention) /\ ~Expired(d, today, retention)}
    /\ UNCHANGED <<begun, day, open, cached, loaded, copied, nth, unread>>

\* A message is processed within a day.
Tick ==
    /\ today < Horizon
    /\ \A t \in open : day[t] = today
    /\ today' = today + 1
    /\ UNCHANGED <<begun, day, open, disk, raw, cached, loaded, copied, nth, unread, straddled>>

-----------------------------------------------------------------------------
(* Properties *)

OnDisk == {t \in Traces : \E d \in Days : t \in Range(disk[d])}

\* tracelog.py:25-29 "In-memory cache of the most recent trace entries ...
\* every finish() keeps this list in sync": once it is loaded, a trace that is
\* on disk is missing from it only if it is full of traces that are of a later
\* day or were written later, or if its day could not be read.
CacheMissesNothing ==
    loaded => \A t \in OnDisk \ Range(cached) :
        \/ day[t] \in unread
        \/ /\ Len(cached) = CacheMax
           /\ \A u \in Range(cached) : day[t] < day[u] \/ nth[t] < nth[u]

\* A trace in the log whose message's raw copy was saved can be followed to the
\* copy: retention never removes the copy before the trace, whatever fails,
\* unless midnight comes between the two.
TraceKeepsRaw ==
    \A t \in OnDisk \intersect copied : t \in raw[day[t]] \/ day[t] \in straddled
=============================================================================
