------------------------------ MODULE Feedback ------------------------------
(***************************************************************************)
(* What is learnt about domains and recipients and survives a restart: the   *)
(* reputation tracker (reputation/tracker.go, persistence.go), for one       *)
(* domain, and the suppression list (bounce/suppression.go).  Both work      *)
(* under a lock; writing the file may fail at any call, and the process may  *)
(* stop at any time.                                                         *)
(***************************************************************************)
EXTENDS Integers

CONSTANTS
    ReportIds, Admitters, Addresses,
    SeenDays,           \* 30 in Ingest
    WarmupLimit,
    UMaxDay, UMaxComplaints  \* bounds

VARIABLES
    uDay,       \* the day by the clock
    uMem,       \* the tracker's state
    uFile,      \* reputation.json
    uDirty,
    uAsking,    \* uAsking[w]: the day that worker w passes to Admit, or -1
    uTold,      \* history: uTold[r], when the report that r was answered for was seen, or -1
    uThanked,   \* history: complaints answered without an error
    uAdmitted,  \* history: uAdmitted[d], attempts admitted on day d unless d is upset
    uUpset      \* history: days whose attempts a restart or a late caller has lost

uvars == <<uDay, uMem, uFile, uDirty, uAsking, uTold, uThanked, uAdmitted, uUpset>>
uhist == <<uTold, uThanked, uAdmitted, uUpset>>

(* counts[r]: how often report r was added since its marker was last         *)
(* dropped; the counters of deliveries are left out, so Admit may refuse for *)
(* their rates at any time.                                                  *)
Empty == [day |-> -1, attempts |-> 0, complaints |-> 0,
          counts |-> [r \in ReportIds |-> 0], seen |-> [r \in ReportIds |-> -1]]

UInit ==
    /\ uDay = 0 /\ uMem = Empty /\ uFile = Empty /\ uDirty = FALSE /\ uAsking = [w \in Admitters |-> -1]
    /\ uTold = [r \in ReportIds |-> -1] /\ uThanked = 0
    /\ uAdmitted = [d \in 0 .. UMaxDay |-> 0] /\ uUpset = {}

(* getLocked: the first look at another day starts its count. *)
getLocked(m, day) == IF m.day = day THEN m ELSE [m EXCEPT !.day = day, !.attempts = 0]
Upset(day) == uUpset' = IF uMem.day > day THEN uUpset \cup (day .. uDay) ELSE uUpset

(* flushLocked: written; an error before the rename; an error after it.      *)
Saved(m) == uFile' = m /\ uDirty' = FALSE
NotSaved(m) == uFile' \in {uFile, m} /\ uDirty' = TRUE

(* A worker reads the clock and calls Admit, which takes the lock later. *)
Ask(w) ==
    /\ uAsking[w] = -1 /\ uAsking' = [uAsking EXCEPT ![w] = uDay]
    /\ UNCHANGED <<uDay, uMem, uFile, uDirty, uhist>>
Admit(w) ==
    LET d == uAsking[w]  m == getLocked(uMem, d) IN
    /\ d >= 0 /\ uAsking' = [uAsking EXCEPT ![w] = -1] /\ Upset(d)
    /\ \/ /\ m.attempts < WarmupLimit /\ uMem' = [m EXCEPT !.attempts = @ + 1] /\ uDirty' = TRUE
          /\ uAdmitted' = [t \in DOMAIN uAdmitted |-> IF t \in uUpset' THEN 0 ELSE IF t = d THEN uAdmitted[t] + 1 ELSE uAdmitted[t]]
       \/ uMem' = m /\ uDirty' = (uDirty \/ m # uMem) /\ UNCHANGED uAdmitted
    /\ UNCHANGED <<uDay, uFile, uTold, uThanked>>

(* ObserveDelivery and Snapshot. *)
Touch ==
    /\ uMem' = getLocked(uMem, uDay) /\ uDirty' \in {TRUE, uDirty \/ uMem' # uMem} /\ Upset(uDay)
    /\ UNCHANGED <<uDay, uFile, uAsking, uTold, uThanked, uAdmitted>>

(* RecordComplaint, RecordTLSReport: rolled back when they are not saved. *)
RecordComplaint ==
    LET m == [getLocked(uMem, uDay) EXCEPT !.complaints = @ + 1] IN
    /\ m.complaints <= UMaxComplaints /\ UNCHANGED <<uDay, uAsking, uTold, uAdmitted>>
    /\ \/ Saved(m) /\ uMem' = m /\ uThanked' = uThanked + 1 /\ Upset(uDay)
       \/ NotSaved(m) /\ UNCHANGED <<uMem, uThanked, uUpset>>

WithoutOld(m) ==
    LET old == {r \in ReportIds : m.seen[r] >= 0 /\ uDay - m.seen[r] > SeenDays} IN
    [m EXCEPT !.seen = [r \in ReportIds |-> IF r \in old THEN -1 ELSE @[r]],
              !.counts = [r \in ReportIds |-> IF r \in old THEN 0 ELSE @[r]]]

(* Mutant: the marker of a report stays when the report is rolled back. *)
rolledBackButSeen(m, r) == [m EXCEPT !.seen[r] = uDay]

rolledBack(m, r) == m

(* Ingest: old markers are dropped; a known report is a duplicate; otherwise *)
(* counts and marker are saved together or both rolled back.                 *)
Ingest(r) ==
    LET base == WithoutOld(uMem)
        m == [getLocked(base, uDay) EXCEPT !.counts[r] = @ + 1, !.seen[r] = uDay]
    IN
    /\ UNCHANGED <<uDay, uAsking, uThanked, uAdmitted>>
    /\ \/ /\ base.seen[r] >= 0 /\ uMem' = base /\ uDirty' = (uDirty \/ base # uMem)
          /\ uTold' = [uTold EXCEPT ![r] = base.seen[r]] /\ UNCHANGED <<uFile, uUpset>>
       \/ /\ base.seen[r] < 0
          /\ \/ Saved(m) /\ uMem' = m /\ uTold' = [uTold EXCEPT ![r] = uDay] /\ Upset(uDay)
             \/ NotSaved(m) /\ uMem' = rolledBack(base, r) /\ UNCHANGED <<uTold, uUpset>>

(* RunPersistence; an error stops the process, which flushes once more. *)
Flush == uDirty /\ Saved(uMem) /\ UNCHANGED <<uDay, uMem, uAsking, uhist>>

(* The process stops, after a last flush or not, and starts. *)
URestart ==
    /\ uFile' \in {uFile, IF uDirty THEN uMem ELSE uFile}
    /\ uMem' = uFile' /\ uDirty' = FALSE /\ uAsking' = [w \in Admitters |-> -1]
    /\ uUpset' = IF uMem.day = uFile'.day /\ uMem.attempts = uFile'.attempts THEN uUpset
                 ELSE uUpset \cup ({uMem.day, uFile'.day} \ {-1})
    /\ UNCHANGED <<uDay, uTold, uThanked, uAdmitted>>

Midnight == uDay < UMaxDay /\ uDay' = uDay + 1 /\ UNCHANGED <<uMem, uFile, uDirty, uAsking, uhist>>

UNext ==
    \/ \E w \in Admitters : Ask(w) \/ Admit(w)
    \/ Touch \/ RecordComplaint \/ Flush \/ URestart \/ Midnight \/ \E r \in ReportIds : Ingest(r)
-----------------------------------------------------------------------------
VARIABLES
    vMem, vFile,    \* the suppressed addresses in memory and in the file
    vUnsaved,       \* history: a save has failed and none succeeded since
    vTold           \* history: vTold[a], "in" or "out": the last change answered without an error

vvars == <<vMem, vFile, vUnsaved, vTold>>

VInit == vMem = {} /\ vFile = {} /\ vUnsaved = FALSE /\ vTold = [a \in Addresses |-> "none"]

(* saveLocked, after the change of the memory. *)
saveLocked(mem, a, answer) ==
    /\ vMem' = mem
    /\ \/ vFile' = mem /\ vUnsaved' = FALSE /\ vTold' = [vTold EXCEPT ![a] = answer]
       \/ vUnsaved' = TRUE /\ vTold' = [vTold EXCEPT ![a] = "none"] /\ UNCHANGED vFile

(* SuppressionStore.Add and Remove: an address that is there, or not, is not *)
(* saved again.                                                              *)
AddSuppression(a) ==
    IF a \in vMem THEN vTold' = [vTold EXCEPT ![a] = "in"] /\ UNCHANGED <<vMem, vFile, vUnsaved>>
    ELSE saveLocked(vMem \cup {a}, a, "in")
RemoveSuppression(a) ==
    IF a \notin vMem THEN vTold' = [vTold EXCEPT ![a] = "out"] /\ UNCHANGED <<vMem, vFile, vUnsaved>>
    ELSE saveLocked(vMem \ {a}, a, "out")

(* NewSuppressionStore: what was not saved is forgotten. *)
VRestart ==
    /\ vMem' = vFile /\ vUnsaved' = FALSE /\ UNCHANGED vFile
    /\ vTold' = IF vUnsaved THEN [a \in Addresses |-> "none"] ELSE vTold

VNext == VRestart \/ \E a \in Addresses : AddSuppression(a) \/ RemoveSuppression(a)
-----------------------------------------------------------------------------
(* A report that was answered as accepted or as a duplicate is counted once, *)
(* in memory and in the file, for as long as its marker lasts, and so is     *)
(* every complaint answered without an error, whatever was rolled back,      *)
(* failed after its rename or was cut off by a restart.  No day has more     *)
(* attempts than the warm-up limit unless a restart or a caller with the     *)
(* time of the day before lost its count.  An address answered as suppressed *)
(* is suppressed, also after a restart if no save had failed.                *)
FeedbackKept ==
    /\ \A r \in ReportIds : uTold[r] >= 0 /\ uDay - uTold[r] <= SeenDays => uMem.counts[r] = 1 /\ uFile.counts[r] = 1
    /\ uMem.complaints >= uThanked /\ uFile.complaints >= uThanked
    /\ \A d \in 0 .. UMaxDay : d \notin uUpset => uAdmitted[d] <= WarmupLimit
    /\ \A a \in Addresses : (vTold[a] = "in" => a \in vMem) /\ (vTold[a] = "out" => a \notin vMem)
=============================================================================
