---------------------------- MODULE ScheduledScan ----------------------------
(***************************************************************************)
(* The scheduled scan of one lane, a universe in one timeframe:            *)
(*   application/scheduled_scan.py       (ScheduledScanService.run)        *)
(*   cli.py                              (_scan_due, _scan_worker)         *)
(*   application/scan_frame.py           (ScanFrameCoordinator.run)        *)
(*   persistence/postgres/runtime.py     (watermarks, cycles)              *)
(*   scheduling/xist.py, watermarks.py   (the bars that are due)           *)
(*                                                                         *)
(* Processes of two kinds serve a lane, one at a time as long as the       *)
(* session that holds its advisory lock lives: the live worker, which      *)
(* takes the newest bar that is 15 minutes old and stops starting          *)
(* instruments after 12 minutes, and scan-due --workers n, n > 1, which    *)
(* takes every due bar and retries failed instruments.  Instruments are    *)
(* scanned in parallel, each over its own connection: one evaluation per   *)
(* scanner, then a confluence report if they cover two families.           *)
(*                                                                         *)
(* What a scanner finds, the messages and the state store are left out     *)
(* (StateStore models them); bars are numbered in the order they close.    *)
(***************************************************************************)
EXTENDS Integers, FiniteSets

CONSTANTS
    N,              \* size of the universe
    Scanners,       \* scanners that may be enabled, numbered in catalogue order
    Family,         \* of a scanner: signal, technical, ma, decision
    First,          \* those enabled from the start
    Procs, NoProc,  \* processes that serve the lane
    Live,           \* those that are scan-workers
    Parallel,       \* instruments submitted at a time
    Retries,        \* retry_failed_rounds of scan-due
    Complete,       \* require_complete of scan-due
    Lookback,       \* maximum_lookback_days, in bars
    Start,          \* the bar the first run of the lane completed, 0 if none ran
    MaxBar,         \* bound: bars 1..MaxBar close
    MaxFaults       \* bound: so many faults happen

Instruments == 1 .. N
Bars == 1 .. MaxBar
FaultKinds == {"instrument", "crash", "disconnect"}

ASSUME ScanAssumption ==
    /\ N \in Nat \ {0} /\ First \subseteq Scanners
    /\ Scanners \subseteq Nat /\ IsFiniteSet(Scanners) /\ DOMAIN Family = Scanners
    /\ NoProc \notin Procs /\ Live \subseteq Procs
    /\ Parallel \in Nat \ {0} /\ Retries \in Nat /\ Complete \in BOOLEAN
    /\ Lookback \in Nat \ {0} /\ MaxBar \in Nat /\ Start \in 0 .. MaxBar
    /\ MaxFaults \in Nat

VARIABLES
    closed,         \* the newest closed bar
    settled,        \* the newest bar that closed 15 minutes ago
    catalogue,      \* enabled scanners (config/scanners.toml)
    watermark,      \* scan_watermarks per scanner, 0 when there is no row
    cycle,          \* scan_cycles.status per bar
    done,           \* scan_evaluations: scanners per bar and instrument
    reports,        \* confluence_reports: <<bar, instrument>>
    owner,          \* session that holds the advisory lock of the lane
    step,           \* of a process: "idle", "cycle", "work" or "mark"
    plan,           \* due bars it has left; it works on the first one
    kit,            \* scanners of its catalogue
    todo,           \* instruments of the round it has not started
    flight,         \* scans under way: bar, instrument, scanners and those left
    orphans,        \* scans of the live worker whose run was given up
    ok, bad, spent, \* instruments that succeeded, failed, ran out of time
    rounds,         \* retry rounds left for the bar
    late,           \* the time of a live turn is over
    offset,         \* lane_state: where a live turn starts in the universe
    since,          \* history: the first watermark of a scanner
    skipped,        \* history: bars that were left out when a run was planned
    failed,         \* history: <<bar, instrument>> recorded as failed on their own
    unreported,     \* history: <<bar, instrument>> whose evaluations got no report
    faults          \* faults so far, per kind

tables == <<watermark, cycle, done, reports>>
local == <<step, plan, kit, todo, flight, orphans, ok, bad, spent, rounds, late, offset>>
history == <<since, skipped, failed, unreported>>
clock == <<closed, settled, catalogue>>
vars == <<clock, tables, owner, local, history, faults>>

Lowest(S) == CHOOSE x \in S : \A y \in S : x <= y

\* The bar a process works on: the due bars are taken in their order.
Bar(p) == Lowest(plan[p])

FaultAllowed == faults["instrument"] + faults["crash"] + faults["disconnect"] < MaxFaults
Count(f) == faults' = [faults EXCEPT ![f] = @ + 1]

-----------------------------------------------------------------------------
\* What is due.

\* earliest_watermark: none unless every scanner has one.
EarliestWatermark(K) ==
    IF \E s \in K : watermark[s] = 0 THEN 0 ELSE Lowest({watermark[s] : s \in K})

\* The newest bar a process plans with: a live one waits for the data.
Horizon(p) == IF p \in Live THEN settled ELSE closed

\* ScheduledBarPlanner.due and latest_only: a lane without watermark and a
\* live worker take the newest bar only.
DueBars(p) ==
    LET mark == EarliestWatermark(catalogue)
        missing == {b \in 1 .. Horizon(p) : b > mark /\ b > Horizon(p) - Lookback}
    IN  IF catalogue = {} \/ missing = {} THEN {}
        ELSE IF mark = 0 \/ p \in Live THEN {Horizon(p)} ELSE missing

\* The bars that a run leaves out: they are too old, or it takes the newest only.
\* What is not due yet when it plans is not left out.
LeftOut(p) ==
    {b \in (1 .. Horizon(p)) \ DueBars(p) :
        /\ \E s \in catalogue : 0 < watermark[s] /\ watermark[s] < b
        /\ \/ p \in Live \/ EarliestWatermark(catalogue) = 0
           \/ b <= Horizon(p) - Lookback}

\* The evaluations cover at least two families of scanners.
Covers(K) == \E s, t \in K : Family[s] # Family[t]

\* The universe, rotated by the offset of the lane: an instrument and its turn.
Turn(p, i) == (i - 1 + N - offset[p]) % N

Init ==
    /\ closed = Start /\ settled = Start /\ catalogue = First
    /\ watermark = [s \in Scanners |-> IF s \in First THEN Start ELSE 0]
    /\ cycle = [b \in Bars |-> IF b = Start THEN "completed" ELSE "none"]
    /\ done = [b \in Bars |-> [i \in Instruments |-> IF b = Start THEN First ELSE {}]]
    /\ reports = IF Covers(First) THEN (Bars \cap {Start}) \X Instruments ELSE {}
    /\ owner = NoProc
    /\ step = [p \in Procs |-> "idle"]
    /\ plan = [p \in Procs |-> {}]
    /\ kit = [p \in Procs |-> {}]
    /\ todo = [p \in Procs |-> {}]
    /\ flight = [p \in Procs |-> {}] /\ orphans = {}
    /\ ok = [p \in Procs |-> {}] /\ bad = [p \in Procs |-> {}]
    /\ spent = [p \in Procs |-> {}]
    /\ rounds = [p \in Procs |-> 0]
    /\ late = [p \in Procs |-> FALSE]
    /\ offset = [p \in Procs |-> 0]
    /\ since = watermark /\ skipped = {} /\ failed = {} /\ unreported = {}
    /\ faults = [f \in FaultKinds |-> 0]

CloseBar ==
    /\ closed < MaxBar
    /\ closed' = closed + 1
    /\ UNCHANGED <<settled, catalogue, tables, owner, local, history, faults>>

\* Fifteen minutes after the close: the live worker may take the bar.
Settle ==
    /\ settled < closed
    /\ settled' = settled + 1
    /\ UNCHANGED <<closed, catalogue, tables, owner, local, history, faults>>

\* A scanner is enabled; the catalogue is read anew by every run.
EnableScanner(s) ==
    /\ s \in Scanners \ catalogue
    /\ catalogue' = catalogue \cup {s}
    /\ UNCHANGED <<closed, settled, tables, owner, local, history, faults>>

-----------------------------------------------------------------------------
\* One run of a process.

\* Mistake: the lock is not looked at.
StartRun_Unlocked(p) ==
    /\ step[p] = "idle" /\ DueBars(p) # {}
    /\ owner' = p
    /\ step' = [step EXCEPT ![p] = "cycle"]
    /\ plan' = [plan EXCEPT ![p] = DueBars(p)]
    /\ kit' = [kit EXCEPT ![p] = catalogue]
    /\ skipped' = skipped \cup LeftOut(p)
    /\ UNCHANGED <<clock, tables, todo, flight, orphans, ok, bad, spent,
                   rounds, late, offset, since, failed, unreported, faults>>

\* pg_try_advisory_lock, the watermark and the bars that are due.  Without the
\* lock or without a due bar the run is over at once.
StartRun(p) ==
    /\ step[p] = "idle" /\ DueBars(p) # {}
    /\ owner = NoProc /\ owner' = p
    /\ step' = [step EXCEPT ![p] = "cycle"]
    /\ plan' = [plan EXCEPT ![p] = DueBars(p)]
    /\ kit' = [kit EXCEPT ![p] = catalogue]
    /\ skipped' = skipped \cup LeftOut(p)
    /\ UNCHANGED <<clock, tables, todo, flight, orphans, ok, bad, spent,
                   rounds, late, offset, since, failed, unreported, faults>>

\* start_cycle for the next due bar.
StartCycle(p) ==
    /\ step[p] = "cycle" /\ owner = p
    /\ cycle' = [cycle EXCEPT ![Bar(p)] = "running"]
    /\ step' = [step EXCEPT ![p] = "work"]
    /\ todo' = [todo EXCEPT ![p] = Instruments]
    /\ ok' = [ok EXCEPT ![p] = {}]
    /\ bad' = [bad EXCEPT ![p] = {}]
    /\ spent' = [spent EXCEPT ![p] = {}]
    /\ rounds' = [rounds EXCEPT ![p] = IF p \in Live THEN 0 ELSE Retries]
    /\ late' = [late EXCEPT ![p] = FALSE]
    /\ UNCHANGED <<clock, watermark, done, reports, owner, plan, kit,
                   flight, orphans, offset, history, faults>>

\* The evaluations of an interrupted run are complete.
Resumed(p, i) == kit[p] \subseteq done[Bar(p)][i]

\* Mistake: an interrupted instrument is scanned with the missing scanners only.
NewScan_Missing(p, i) ==
    LET K == kit[p] \ done[Bar(p)][i]
    IN  [bar |-> Bar(p), inst |-> i, kit |-> K, left |-> K]

NewScan(p, i) == [bar |-> Bar(p), inst |-> i, kit |-> kit[p], left |-> kit[p]]

\* The next instrument: out of time, complete already, or scanned.
Begin(p) ==
    /\ step[p] = "work"
    /\ Cardinality(flight[p]) < Parallel
    /\ \E i \in todo[p] :
        /\ \A j \in todo[p] : Turn(p, i) <= Turn(p, j)
        /\ todo' = [todo EXCEPT ![p] = @ \ {i}]
        /\ \/ /\ late[p]
              /\ bad' = [bad EXCEPT ![p] = @ \cup {i}]
              /\ spent' = [spent EXCEPT ![p] = @ \cup {i}]
              /\ UNCHANGED <<ok, flight>>
           \/ /\ ~late[p] /\ Resumed(p, i)
              /\ ok' = [ok EXCEPT ![p] = @ \cup {i}]
              /\ UNCHANGED <<bad, spent, flight>>
           \/ /\ ~late[p] /\ ~Resumed(p, i)
              /\ flight' = [flight EXCEPT ![p] = @ \cup {NewScan(p, i)}]
              /\ UNCHANGED <<ok, bad, spent>>
    /\ UNCHANGED <<clock, tables, owner, step, plan, kit, orphans, rounds, late, offset,
                   history, faults>>

\* A scan after the evaluation of its next scanner.
Advanced(w) == [w EXCEPT !.left = @ \ {Lowest(@)}]
Persist(w) == done' = [done EXCEPT ![w.bar][w.inst] = @ \cup {Lowest(w.left)}]

\* The evaluation of the next scanner is persisted.
Evaluate(p) ==
    /\ \E w \in flight[p] :
        /\ w.left # {}
        /\ Persist(w)
        /\ flight' = [flight EXCEPT ![p] = (@ \ {w}) \cup {Advanced(w)}]
    /\ UNCHANGED <<clock, watermark, cycle, reports, owner, step, plan, kit, todo, orphans,
                   ok, bad, spent, rounds, late, offset, history, faults>>

\* The confluence report, after the last scanner, if its scanners cover two
\* families.  A scan that was overtaken by a later run may have fewer scanners:
\* what it adds to the evaluations of the other gets no report.
EndOfScan(w, overtaken) ==
    LET pair == {<<w.bar, w.inst>>}
    IN  IF Covers(w.kit)
        THEN reports' = reports \cup pair /\ UNCHANGED unreported
        ELSE /\ unreported' = unreported \cup
                    (IF overtaken /\ Covers(done[w.bar][w.inst]) THEN pair ELSE {})
             /\ UNCHANGED reports

Report(p) ==
    /\ \E w \in flight[p] :
        /\ w.left = {}
        /\ EndOfScan(w, owner # p)
        /\ ok' = [ok EXCEPT ![p] = @ \cup {w.inst}]
        /\ flight' = [flight EXCEPT ![p] = @ \ {w}]
    /\ UNCHANGED <<clock, watermark, cycle, done, owner, step, plan, kit, todo, orphans,
                   bad, spent, rounds, late, offset, since, skipped, failed, faults>>

\* A scan goes on although the run that submitted it was given up.
OrphanScan ==
    /\ \E w \in orphans :
        \/ /\ w.left # {}
           /\ Persist(w)
           /\ orphans' = (orphans \ {w}) \cup {Advanced(w)}
           /\ UNCHANGED <<reports, unreported>>
        \/ /\ w.left = {}
           /\ EndOfScan(w, TRUE)
           /\ orphans' = orphans \ {w}
           /\ UNCHANGED done
    /\ UNCHANGED <<clock, watermark, cycle, owner, step, plan, kit, todo, flight, ok, bad,
                   spent, rounds, late, offset, since, skipped, failed, faults>>

\* Of the scans W, those whose evaluations are complete, perhaps by a run before.
AwaitReport(W) ==
    {<<w.bar, w.inst>> : w \in {v \in W : v.kit \subseteq done[v.bar][v.inst]}}

\* The provider fails, is late with the bar, or a statement fails.
FailInstrument(p) ==
    /\ FaultAllowed
    /\ \E w \in flight[p] :
        /\ bad' = [bad EXCEPT ![p] = @ \cup {w.inst}]
        /\ flight' = [flight EXCEPT ![p] = @ \ {w}]
        /\ unreported' = unreported \cup AwaitReport({w})
    /\ Count("instrument")
    /\ UNCHANGED <<clock, tables, owner, step, plan, kit, todo, orphans, ok, spent, rounds,
                   late, offset, since, skipped, failed>>

\* The twelve minutes of a live turn are over; some instrument was started.
Expire(p) ==
    /\ p \in Live /\ step[p] = "work" /\ ~late[p]
    /\ todo[p] # Instruments
    /\ late' = [late EXCEPT ![p] = TRUE]
    /\ UNCHANGED <<clock, tables, owner, step, plan, kit, todo, flight, orphans,
                   ok, bad, spent, rounds, offset, history, faults>>

RoundOver(p) == step[p] = "work" /\ todo[p] = {} /\ flight[p] = {}

\* Mistake: the failures of the round before are kept.
Retry_Keep(p) ==
    /\ RoundOver(p) /\ bad[p] # {} /\ rounds[p] > 0
    /\ todo' = [todo EXCEPT ![p] = bad[p]]
    /\ rounds' = [rounds EXCEPT ![p] = @ - 1]
    /\ UNCHANGED <<clock, tables, owner, step, plan, kit, flight, orphans, ok, bad,
                   spent, late, offset, history, faults>>

\* Another round for the instruments that failed.
Retry(p) ==
    /\ RoundOver(p) /\ bad[p] # {} /\ rounds[p] > 0
    /\ todo' = [todo EXCEPT ![p] = bad[p]]
    /\ bad' = [bad EXCEPT ![p] = {}]
    /\ rounds' = [rounds EXCEPT ![p] = @ - 1]
    /\ UNCHANGED <<clock, tables, owner, step, plan, kit, flight, orphans, ok,
                   spent, late, offset, history, faults>>

\* finish_cycle, with the instruments that failed.
FinishCycle(p) ==
    /\ RoundOver(p) /\ (bad[p] = {} \/ rounds[p] = 0)
    /\ owner = p
    /\ cycle' = [cycle EXCEPT ![Bar(p)] =
                   IF bad[p] = {} THEN "completed" ELSE "completed_with_errors"]
    /\ failed' = failed \cup {<<Bar(p), i>> : i \in bad[p] \ spent[p]}
    /\ step' = [step EXCEPT ![p] = "mark"]
    /\ UNCHANGED <<clock, watermark, done, reports, owner, plan, kit, todo,
                   flight, orphans, ok, bad, spent, rounds, late, offset, since,
                   skipped, unreported, faults>>

\* Mistake: a turn that ran out of time moves the watermark.
Advances_Late(p) == ok[p] # {} /\ (Complete /\ p \notin Live => bad[p] = {})

Advances(p) ==
    /\ ok[p] # {} /\ spent[p] = {}
    /\ Complete /\ p \notin Live => bad[p] = {}

\* Mistake: every turn starts with the same instrument.
NextOffset_Fixed(p) == offset[p]

NextOffset(p) ==
    IF p \in Live THEN (offset[p] + Cardinality(ok[p]) + Cardinality(bad[p] \ spent[p])) % N
    ELSE 0

\* update_watermarks, then the next bar or the end of the run.
Mark(p) ==
    /\ step[p] = "mark" /\ owner = p
    /\ watermark' = [s \in Scanners |->
            IF Advances(p) /\ s \in kit[p] /\ Bar(p) > watermark[s]
            THEN Bar(p) ELSE watermark[s]]
    /\ since' = [s \in Scanners |-> IF since[s] = 0 THEN watermark'[s] ELSE since[s]]
    /\ plan' = [plan EXCEPT ![p] = @ \ {Bar(p)}]
    /\ IF plan[p] # {Bar(p)}
       THEN /\ step' = [step EXCEPT ![p] = "cycle"]
            /\ UNCHANGED <<owner, kit, offset, late>>
       ELSE /\ step' = [step EXCEPT ![p] = "idle"]
            /\ owner' = NoProc
            /\ kit' = [kit EXCEPT ![p] = {}]
            /\ late' = [late EXCEPT ![p] = FALSE]
            /\ offset' = [offset EXCEPT ![p] = NextOffset(p)]
    /\ ok' = [ok EXCEPT ![p] = {}]
    /\ bad' = [bad EXCEPT ![p] = {}]
    /\ spent' = [spent EXCEPT ![p] = {}]
    /\ UNCHANGED <<clock, cycle, done, reports, todo, flight, orphans, rounds, skipped, failed,
                   unreported, faults>>

\* What is left of a process that gives its run up.
Forget(p, k) ==
    /\ step' = [step EXCEPT ![p] = "idle"]
    /\ plan' = [plan EXCEPT ![p] = {}]
    /\ kit' = [kit EXCEPT ![p] = {}]
    /\ todo' = [todo EXCEPT ![p] = {}]
    /\ flight' = [flight EXCEPT ![p] = {}]
    /\ ok' = [ok EXCEPT ![p] = {}]
    /\ bad' = [bad EXCEPT ![p] = {}]
    /\ spent' = [spent EXCEPT ![p] = {}]
    /\ rounds' = [rounds EXCEPT ![p] = 0]
    /\ late' = [late EXCEPT ![p] = FALSE]
    /\ offset' = [offset EXCEPT ![p] = k]
    /\ owner' = IF owner = p THEN NoProc ELSE owner

\* The process dies with all its sessions; it starts again later.
Crash(p) ==
    /\ step[p] # "idle" /\ FaultAllowed
    /\ LET lost == flight[p] \cup (IF p \in Live THEN orphans ELSE {})
       IN  /\ unreported' = unreported \cup AwaitReport(lost)
           /\ orphans' = orphans \ lost
    /\ Forget(p, 0)
    /\ Count("crash")
    /\ UNCHANGED <<clock, tables, since, skipped, failed>>

\* The session that holds the lock is lost; the scans have their own.
Disconnect(p) ==
    /\ owner = p /\ FaultAllowed
    /\ owner' = NoProc
    /\ Count("disconnect")
    /\ UNCHANGED <<clock, tables, local, history>>

\* The next statement over the lost session raises: progress, finish_cycle, ...
\* The executor of the live worker outlives the run, and with it the scans;
\* that of scan-due waits for them.
Abort(p) ==
    /\ step[p] # "idle" /\ owner # p
    /\ p \in Live \/ flight[p] = {}
    /\ orphans' = orphans \cup flight[p]
    /\ Forget(p, offset[p])
    /\ UNCHANGED <<clock, tables, history, faults>>

Scan(p) ==
    \/ StartRun(p) \/ StartCycle(p) \/ Begin(p) \/ Evaluate(p) \/ Report(p)
    \/ Retry(p) \/ FinishCycle(p) \/ Mark(p) \/ Abort(p)

\* The bounds are used up and nothing is due.
Quiet ==
    /\ settled = MaxBar /\ orphans = {}
    /\ \A p \in Procs : step[p] = "idle" /\ DueBars(p) = {}
    /\ UNCHANGED vars

Next ==
    \/ CloseBar \/ Settle \/ OrphanScan
    \/ \E s \in Scanners : EnableScanner(s)
    \/ \E p \in Procs : \/ Scan(p) \/ FailInstrument(p)
                        \/ Expire(p) \/ Crash(p) \/ Disconnect(p)
    \/ Quiet

Spec == Init /\ [][Next]_vars

\* The lanes of scan-worker poll for ever, scan-due is scheduled, both are
\* started again when they die; fifteen minutes pass.
Fairness == WF_vars(Settle) /\ \A p \in Procs : WF_vars(Scan(p))

FairSpec == Spec /\ Fairness

-----------------------------------------------------------------------------
Scans == [bar : Bars, inst : Instruments, kit : SUBSET Scanners, left : SUBSET Scanners]

UnderWay == orphans \cup UNION {flight[p] : p \in Procs}

Types ==
    /\ closed \in 0 .. MaxBar /\ settled \in 0 .. closed /\ catalogue \subseteq Scanners
    /\ watermark \in [Scanners -> 0 .. closed]
    /\ cycle \in [Bars -> {"none", "running", "completed", "completed_with_errors"}]
    /\ done \in [Bars -> [Instruments -> SUBSET Scanners]]
    /\ reports \subseteq Bars \X Instruments
    /\ owner \in Procs \cup {NoProc}
    /\ step \in [Procs -> {"idle", "cycle", "work", "mark"}]
    /\ plan \in [Procs -> SUBSET Bars] /\ kit \in [Procs -> SUBSET Scanners]
    /\ todo \in [Procs -> SUBSET Instruments]
    /\ flight \in [Procs -> SUBSET Scans] /\ orphans \subseteq Scans
    /\ ok \in [Procs -> SUBSET Instruments] /\ bad \in [Procs -> SUBSET Instruments]
    /\ spent \in [Procs -> SUBSET Instruments]
    /\ rounds \in [Procs -> 0 .. Retries] /\ late \in [Procs -> BOOLEAN]
    /\ offset \in [Procs -> 0 .. N - 1]
    /\ since \in [Scanners -> 0 .. closed]
    /\ skipped \subseteq Bars
    /\ failed \subseteq Bars \X Instruments /\ unreported \subseteq Bars \X Instruments
    /\ faults \in [FaultKinds -> 0 .. MaxFaults]

\* A process is idle when it has no bar left; an instrument has one outcome.
WellFormed(p) ==
    /\ (plan[p] = {}) = (step[p] = "idle")
    /\ ok[p] \cap bad[p] = {} /\ spent[p] \subseteq bad[p]

\* The state is well formed.
TypeOK == Types /\ \A p \in Procs : WellFormed(p)

\* The advisory lock: unless a session is lost, the lane is served by one
\* process at a time, whatever crashed before.
RunsDoNotOverlap ==
    faults["disconnect"] = 0 =>
        \A p, q \in Procs : step[p] # "idle" /\ step[q] # "idle" => p = q

\* docs/live-scan-flow.md, docs/setup/operations.md: from the first watermark of a
\* scanner to its present one every instrument of every bar has its evaluation or a
\* failure of its own on record, but for the bars that a live turn, or a run without
\* watermark, left out when it took the newest one, and those older than the lookback.
PassedBarsAccountForAll ==
    \A s \in Scanners, b \in Bars :
        0 < since[s] /\ since[s] <= b /\ b <= watermark[s] /\ b \notin skipped =>
            \A i \in Instruments : s \in done[b][i] \/ <<b, i>> \in failed

\* A cycle that is completed has the confluence report of every instrument whose
\* evaluations cover two families, or it is still to come, but for those that were
\* interrupted between their last evaluation and the report, which a later run takes
\* for complete, and those that a scan of an overtaken run completed.
CompletedAreReported ==
    \A b \in Bars : cycle[b] = "completed" =>
        \A i \in Instruments : Covers(done[b][i]) =>
            \/ <<b, i>> \in reports \cup unreported
            \/ \E w \in UnderWay : w.bar = b /\ w.inst = i

\* Every instrument is evaluated on the newest bar in the end, or fails on its
\* own, although every turn may run out of time after its first instrument.
NewestBarIsCovered ==
    <>[](closed > 0 => \A i \in Instruments : \/ catalogue \subseteq done[closed][i]
                                              \/ <<closed, i>> \in failed)

\* Contract clause 18: from the first watermark of a scanner to its present one
\* no bar is missing.
MissedBarsAreCompleted ==
    \A s \in Scanners, b \in Bars :
        0 < since[s] /\ since[s] < b /\ b <= watermark[s] =>
            \E i \in Instruments : s \in done[b][i]

=============================================================================
