-------------------------- MODULE AggregateReports --------------------------
(***************************************************************************)
(* The daily reports to other sites: DMARC aggregates in a database, sent   *)
(* through the mail queue (dmarcreport/store.go), and TLS results in a file *)
(* with a copy in memory, posted to the site (tlsreport/manager.go).        *)
(* Sessions add observations while a flush of finished days is on its way.  *)
(***************************************************************************)
EXTENDS Integers, Sequences, FiniteSets
LOCAL INSTANCE FiniteSetsExt

CONSTANTS
    Days,           \* 0..n: UTC days
    Tuples,         \* 1..n: tuples of an observation in the order of the database
    Group,          \* Group[t]: policy domain, policy and destination of a tuple
    maxTuples, maxRowsPerReport,
    MaxAdds,        \* bound: observations
    Sites,          \* policy domains of TLS observations
    MaxRecords, ChannelSize,
    MaxPosted       \* bound: counts received, at least MaxAdds

VARIABLES
    today,
    rows,       \* rows[d][t]: message_count
    flush,      \* the day that Flush works on, its snapshot and the reports left to enqueue
    queued,     \* reports in the mail queue; one with the same content has the same id
    added, late,\* history: observations of a day before and after its first snapshot
    snapshots,  \* history: days with a snapshot
    cut,        \* history: days with a flush that did not get to its end
    waiting,    \* Manager.observations: a day and a site each
    state,      \* state[d][s]: the counts of Manager.state
    saved,      \* the file of the manager
    sending,    \* the day, the site and the counts of a report of flush, and the groups left
    posted,     \* history: counts received by a site for a day
    counted     \* history: observations counted and not lost with unsaved state

rvars == <<rows, flush, queued, added, late, snapshots, cut>>
yvars == <<waiting, state, saved, sending, posted, counted>>

PerDay(S) == [d \in Days |-> [t \in S |-> 0]]
NoFlush == [day |-> -1, snap |-> [t \in Tuples |-> 0], todo |-> {}]
NotSending == [group |-> <<>>, left |-> {}]

RInit ==
    /\ rows = PerDay(Tuples) /\ flush = NoFlush /\ queued = {}
    /\ added = PerDay(Tuples) /\ late = PerDay(Tuples) /\ snapshots = {} /\ cut = {}
YInit ==
    /\ waiting = <<>> /\ state = PerDay(Sites) /\ saved = PerDay(Sites) /\ sending = NotSending
    /\ posted = PerDay(Sites) /\ counted = PerDay(Sites)

Total(f) == MapThenSumSet(LAMBDA d : MapThenSumSet(LAMBDA t : f[d][t], DOMAIN f[d]), DOMAIN f)
Used(f) == {k \in Days \X DOMAIN f[0] : f[k[1]][k[2]] > 0}
Plus(f, d, t) == [f EXCEPT ![d][t] = @ + 1]
-----------------------------------------------------------------------------
(* Add: one transaction; a new tuple needs room.  The day is that of the     *)
(* observation, which may be over when the transaction runs.                 *)
Add(d, t) ==
    /\ d \in {today, today - 1} /\ Total(added) + Total(late) < MaxAdds
    /\ rows[d][t] > 0 \/ Cardinality(Used(rows)) < maxTuples
    /\ rows' = Plus(rows, d, t)
    /\ IF d \in snapshots THEN late' = Plus(late, d, t) /\ UNCHANGED added
                          ELSE added' = Plus(added, d, t) /\ UNCHANGED late
    /\ UNCHANGED <<flush, queued, snapshots, cut>>

(* The rows of a group in order, at most maxRowsPerReport to a report. *)
Rank(snap, t) == Cardinality({u \in Tuples : u < t /\ snap[u] > 0 /\ Group[u] = Group[t]})
enqueueGroup(snap) ==
    LET chunk(t) == <<Group[t], Rank(snap, t) \div maxRowsPerReport>>
        present == {t \in Tuples : snap[t] > 0}
    IN {{t \in present : chunk(t) = c} : c \in {chunk(t) : t \in present}}

(* Flush takes the finished days one by one: Snapshot, one report per group, *)
(* then DeletePeriod.                                                        *)
Snapshot(d) ==
    /\ flush = NoFlush /\ d < today /\ \E t \in Tuples : rows[d][t] > 0
    /\ flush' = [day |-> d, snap |-> rows[d], todo |-> enqueueGroup(rows[d])]
    /\ snapshots' = snapshots \cup {d}
    /\ UNCHANGED <<rows, queued, added, late, cut>>

(* enqueueChunk: the id of the message derives from its content, and the     *)
(* local queue ignores an id that it has.                                    *)
enqueueChunk(c) ==
    /\ c \in flush.todo
    /\ queued' = queued \cup {[day |-> flush.day, rows |-> [t \in c |-> flush.snap[t]]]}
    /\ flush' = [flush EXCEPT !.todo = @ \ {c}]
    /\ UNCHANGED <<rows, added, late, snapshots, cut>>

(* enqueueChunk on rows whose report is too large: one half, then the other. *)
SplitChunk(c) ==
    /\ c \in flush.todo /\ Cardinality(c) > 1
    /\ LET first == {t \in c : 2 * Cardinality({u \in c : u <= t}) <= Cardinality(c)} IN
       flush' = [flush EXCEPT !.todo = (@ \ {c}) \cup {first, c \ first}]
    /\ UNCHANGED <<rows, queued, added, late, snapshots, cut>>

(* An error of Enqueue or of the database, a single row whose report is too  *)
(* large, or a crash: the day stays for the next Flush.                      *)
FlushStops ==
    /\ flush # NoFlush /\ flush' = NoFlush /\ cut' = cut \cup {flush.day}
    /\ UNCHANGED <<rows, queued, added, late, snapshots>>

(* Mutant: the period is deleted although a report could not be enqueued. *)
DeletePeriodAlways ==
    /\ flush # NoFlush
    /\ rows' = [rows EXCEPT ![flush.day] = [t \in Tuples |-> 0]] /\ flush' = NoFlush
    /\ UNCHANGED <<queued, added, late, snapshots, cut>>

DeletePeriod ==
    /\ flush # NoFlush /\ flush.todo = {}
    /\ rows' = [rows EXCEPT ![flush.day] = [t \in Tuples |-> 0]] /\ flush' = NoFlush
    /\ UNCHANGED <<queued, added, late, snapshots, cut>>

(* PeriodsBefore returns no day. *)
FlushFindsNothing == flush = NoFlush /\ \A k \in Used(rows) : k[1] >= today

RNext ==
    \/ /\ UNCHANGED today
       /\ \/ \E d \in Days, t \in Tuples : Add(d, t)
          \/ \E d \in Days : Snapshot(d)
          \/ \E c \in SUBSET Tuples : enqueueChunk(c) \/ SplitChunk(c)
          \/ FlushStops \/ DeletePeriod
    \/ today + 1 \in Days /\ today' = today + 1 /\ UNCHANGED rvars
    \/ FlushFindsNothing /\ UNCHANGED <<today, rvars>>
-----------------------------------------------------------------------------
(* Observe never blocks: an observation is dropped when the channel is full. *)
Observe(s) ==
    /\ Total(counted) + Len(waiting) < MaxAdds
    /\ waiting' = IF Len(waiting) < ChannelSize THEN Append(waiting, <<today, s>>) ELSE waiting
    /\ UNCHANGED <<state, saved, sending, posted, counted>>

(* persistLocked; the rename may have happened although an error is returned. *)
persistLocked(next, ok) == saved' = next \/ (~ok /\ UNCHANGED saved)

(* add, by the one goroutine of Run: counted in memory even if not saved. *)
ManagerAdds ==
    /\ sending = NotSending /\ waiting # <<>> /\ waiting' = Tail(waiting)
    /\ LET d == Head(waiting)[1]
           s == Head(waiting)[2] IN
       IF state[d][s] = 0 /\ Cardinality(Used(state)) >= MaxRecords
       THEN UNCHANGED <<state, saved, counted>>
       ELSE /\ state' = Plus(state, d, s) /\ counted' = Plus(counted, d, s)
            /\ \E ok \in BOOLEAN : persistLocked(Plus(state, d, s), ok)
    /\ UNCHANGED <<sending, posted>>

(* flush of Manager: the groups of finished days. *)
ManagerFlushes ==
    LET groups == {k \in Used(state) : k[1] < today} IN
    /\ sending = NotSending /\ groups # {}
    /\ \E k \in groups : sending' = [group |-> k, left |-> groups \ {k}]
    /\ UNCHANGED <<waiting, state, saved, posted, counted>>

NextGroup == IF sending.left = {} THEN NotSending
             ELSE LET k == CHOOSE g \in sending.left : TRUE IN [group |-> k, left |-> sending.left \ {k}]

(* The site takes the report; counts beyond the bound are not told apart. *)
Received ==
    LET k == sending.group IN [posted EXCEPT ![k[1]][k[2]] = Min({@ + state[k[1]][k[2]], MaxPosted})]

(* No endpoint, or post fails: the group stays.  The site may have taken a   *)
(* report whose answer is lost.                                              *)
PostFails ==
    /\ sending # NotSending /\ sending' = NextGroup
    /\ posted' \in {posted, Received}
    /\ UNCHANGED <<waiting, state, saved, counted>>

(* The group is deleted after a success; an error of the save ends flush. *)
Posted ==
    /\ sending # NotSending
    /\ LET k == sending.group
           next == [state EXCEPT ![k[1]][k[2]] = 0] IN
       /\ posted' = Received
       /\ state' = next
       /\ \E ok \in BOOLEAN : persistLocked(next, ok) /\ sending' = IF ok THEN NextGroup ELSE NotSending
    /\ UNCHANGED <<waiting, counted>>

(* A crash between post and the save: the report is sent again. *)
ManagerRestarts ==
    /\ waiting' = <<>> /\ state' = saved /\ sending' = NotSending
    /\ posted' \in IF sending = NotSending THEN {posted} ELSE {posted, Received}
    /\ counted' = [d \in Days |-> [s \in Sites |-> counted[d][s] - Max({0, state[d][s] - saved[d][s]})]]
    /\ UNCHANGED saved

YNext ==
    \/ /\ UNCHANGED today
       /\ \/ \E s \in Sites : Observe(s)
          \/ ManagerAdds \/ ManagerFlushes \/ PostFails \/ Posted \/ ManagerRestarts
    \/ today + 1 \in Days /\ today' = today + 1 /\ UNCHANGED yvars
-----------------------------------------------------------------------------
Reported(d, t) == MapThenSumSet(LAMBDA r : IF r.day = d /\ t \in DOMAIN r.rows THEN r.rows[t] ELSE 0, queued)

(* What was observed before the first snapshot of its day is in the store or *)
(* in a report, whatever fails or stops in between; and it is reported once  *)
(* if no flush of the day was cut short and nothing came late.               *)
ReportedOrKept ==
    /\ \A d \in Days, t \in Tuples :
          /\ rows[d][t] + Reported(d, t) >= added[d][t]
          /\ d \notin cut /\ flush.day # d /\ late[d][t] = 0 => rows[d][t] + Reported(d, t) = added[d][t]
    /\ \A d \in Days, s \in Sites : state[d][s] + posted[d][s] >= counted[d][s]
=============================================================================
