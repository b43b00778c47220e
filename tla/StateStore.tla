----------------------------- MODULE StateStore -----------------------------
(***************************************************************************)
(* Persistence of STATE scanner runs:                                      *)
(* src/market_intelligence/persistence/postgres/state_store.py.            *)
(*                                                                         *)
(* One slice (instrument, scanner, timeframe) of active_states, its        *)
(* transition log and the notifications it puts into the outbox.  Several  *)
(* workers (the lane of the timeframe, a manual scan, a second deployment) *)
(* evaluate bars of the slice; each runs persist_state_run as one READ     *)
(* COMMITTED transaction: it reads the rows FOR UPDATE, which waits for    *)
(* the rows other transactions hold but does not see the rows they insert  *)
(* meanwhile, and then writes everything or, when it fails, nothing.       *)
(***************************************************************************)
EXTENDS StateMachine

CONSTANTS
    Keys,           \* state keys of the slice, e.g. the levels of ma.near_zone
    Versions,       \* producers: (scanner_version, ruleset_hash)
    NoVersion,      \* the version of an absent row
    Workers,        \* processes that may persist runs of this slice
    Notifying,      \* values of can_notify the workers pass, a subset of BOOLEAN
    Halting,        \* values of instrument_halted the workers pass
    MaxBar,         \* bound: bars 1..MaxBar close
    Replays         \* bound: evaluations of a bar not newer than the newest one

ASSUME StoreAssumption ==
    /\ NoVersion \notin Versions
    /\ Notifying \subseteq BOOLEAN /\ Halting \subseteq BOOLEAN
    /\ MaxBar \in Nat /\ Replays \in Nat

Bars == 1 .. MaxBar

\* active_states; an absent row has status "NONE".  valid_until and metrics,
\* which no decision reads, are left out.
Rows == [status : Statuses \cup {"NONE"}, unknown : Nat,
         version : Versions \cup {NoVersion}, from : Nat, seen : Nat]
AbsentRow == [status |-> "NONE", unknown |-> 0, version |-> NoVersion,
              from |-> 0, seen |-> 0]

\* A ScanRun with the flags persist_state_run is called with.  The engine
\* answers MATCH exactly when there are findings.
Runs == {r \in [bar : Bars, version : Versions, verdict : Verdicts,
                matched : SUBSET Keys, halted : Halting, notify : Notifying] :
            r.verdict = "MATCH" <=> r.matched # {}}
NoRun == [bar |-> 0, version |-> NoVersion, verdict |-> "UNKNOWN",
          matched |-> {}, halted |-> FALSE, notify |-> FALSE]

LogEntries == [key : Keys, kind : Transitions, prior : BOOLEAN, next : BOOLEAN,
               bar : Bars, version : Versions]
Messages == [key : Keys, kind : Transitions, bar : Bars]

VARIABLES
    rows,           \* active_states of the slice
    log,            \* state_transitions, identified by transition_key
    outbox,         \* telegram_outbox, identified by semantic_key
    newest,         \* newest bar a committed run evaluated
    replays,        \* evaluations of older or repeated bars so far
    pc,             \* "idle", "reading" or "locked", per worker
    run,            \* the run a worker persists
    visible,        \* keys in the snapshot of its SELECT ... FOR UPDATE
    stored,         \* the rows it read
    told,           \* history: what the last message said of a key
    doubtBars,      \* history: bars of the current UNKNOWN spell of a key
    matchBars       \* history: bars on which a key was observed as MATCH

tables == <<rows, log, outbox>>
work == <<pc, run, visible, stored>>
history == <<told, doubtBars, matchBars>>
vars == <<rows, log, outbox, newest, replays, pc, run, visible, stored,
          told, doubtBars, matchBars>>

CurrentStatuses == {"ACTIVE", "UNKNOWN", "HALTED"}
Present(k) == rows[k].status # "NONE"

\* The messages that say a state began, and that it ended.
InKinds == {"ENTER", "RESUMED", "CHANGE"}
OutKinds == {"EXIT", "EXIT_INFERRED"}

-----------------------------------------------------------------------------
\* The pure part of persist_state_run, for the rows old it read.

\* Mistake: rows that are no longer current are evaluated as well.
Work_AllRows(r, old) == r.matched \cup {k \in Keys : old[k].status # "NONE"}

Work(r, old) == r.matched \cup {k \in Keys : old[k].status \in CurrentStatuses}

\* Mistake: a failed evaluation counts as the absence of a finding.
ObservedVerdict_Certain(r, k) == IF k \in r.matched THEN "MATCH" ELSE "NO_MATCH"

ObservedVerdict(r, k) ==
    IF k \in r.matched THEN "MATCH"
    ELSE IF r.halted \/ r.verdict = "UNKNOWN" THEN "UNKNOWN"
    ELSE "NO_MATCH"

\* Mistake: rows that ended are adopted as well.
ProducerChanged_Ended(row, r) == row.status # "NONE" /\ row.version # r.version

\* Mistake: only active rows are adopted.
ProducerChanged_Active(row, r) == row.status = "ACTIVE" /\ row.version # r.version

ProducerChanged(row, r) ==
    /\ row.status \notin {"NONE", "INACTIVE", "ABANDONED"}
    /\ row.version # r.version

\* A row is looked up by its state_key, so the two keys always agree.
DecisionFor(r, old, k) ==
    Reconcile([status |-> old[k].status, unknown |-> old[k].unknown],
              ObservedVerdict(r, k), TRUE, ProducerChanged(old[k], r), r.halted)

\* Both scanners that produce states set valid_from to the close of the bar.
UpsertedRow(r, row, d) ==
    [status |-> d.status, unknown |-> d.unknown, version |-> r.version,
     from |-> IF row.status # "NONE" /\ d.status \in CurrentStatuses
              THEN row.from ELSE r.bar,
     seen |-> r.bar]

\* Mistake: entries carry the bar of the stored row.
NewTransitions_StoredBar(r, old) ==
    UNION {{[key |-> k, kind |-> t, prior |-> old[k].status # "NONE",
             next |-> DecisionFor(r, old, k).status \in CurrentStatuses,
             bar |-> old[k].from, version |-> r.version]
              : t \in DecisionFor(r, old, k).transitions} : k \in Work(r, old)}

\* Mistake: the first transition of a key finds no row to refer to.
NewTransitions_KnownRows(r, old) ==
    UNION {{[key |-> k, kind |-> t, prior |-> TRUE,
             next |-> DecisionFor(r, old, k).status \in CurrentStatuses,
             bar |-> r.bar, version |-> r.version]
              : t \in DecisionFor(r, old, k).transitions}
           : k \in {j \in Work(r, old) : old[j].status # "NONE"}}

NewTransitions(r, old) ==
    UNION {{[key |-> k, kind |-> t, prior |-> old[k].status # "NONE",
             next |-> DecisionFor(r, old, k).status \in CurrentStatuses,
             bar |-> r.bar, version |-> r.version]
              : t \in DecisionFor(r, old, k).transitions} : k \in Work(r, old)}

\* A decision that notifies has one transition: the last of the code's tuple.
NewMessages(r, old) ==
    UNION {{[key |-> k, kind |-> t, bar |-> r.bar]
              : t \in DecisionFor(r, old, k).transitions}
           : k \in {j \in Work(r, old) : DecisionFor(r, old, j).notify /\ r.notify}}

-----------------------------------------------------------------------------
Init ==
    /\ rows = [k \in Keys |-> AbsentRow]
    /\ log = {} /\ outbox = {}
    /\ newest = 0 /\ replays = 0
    /\ pc = [w \in Workers |-> "idle"]
    /\ run = [w \in Workers |-> NoRun]
    /\ visible = [w \in Workers |-> {}]
    /\ stored = [w \in Workers |-> [k \in Keys |-> AbsentRow]]
    /\ told = [k \in Keys |-> "nothing"]
    /\ doubtBars = [k \in Keys |-> {}]
    /\ matchBars = [k \in Keys |-> {}]

\* The engine evaluated a bar and the transaction takes its statement
\* snapshot: rows inserted from here on by others stay invisible to it.  The
\* upsert of the evaluation comes first and makes runs of one price snapshot
\* wait for each other; the model does not count on it.
OpenSnapshot(w, r) ==
    /\ pc[w] = "idle"
    /\ \/ r.bar > newest /\ replays' = replays
       \/ r.bar <= newest /\ replays < Replays /\ replays' = replays + 1
    /\ pc' = [pc EXCEPT ![w] = "reading"]
    /\ run' = [run EXCEPT ![w] = r]
    /\ visible' = [visible EXCEPT ![w] = {k \in Keys : Present(k)}]
    /\ UNCHANGED <<tables, newest, stored, history>>

Locked(k) == \E w \in Workers : pc[w] = "locked" /\ k \in visible[w]

\* Mistake: SELECT without FOR UPDATE.
LockRows_Unlocked(w) ==
    /\ pc[w] = "reading"
    /\ pc' = [pc EXCEPT ![w] = "locked"]
    /\ stored' = [stored EXCEPT ![w] =
                    [k \in Keys |-> IF k \in visible[w] THEN rows[k] ELSE AbsentRow]]
    /\ UNCHANGED <<tables, newest, replays, run, visible, history>>

\* FOR UPDATE: waits until no other transaction holds one of the rows and
\* reads their latest committed version.
LockRows(w) ==
    /\ pc[w] = "reading"
    /\ \A k \in visible[w] : ~Locked(k)
    /\ pc' = [pc EXCEPT ![w] = "locked"]
    /\ stored' = [stored EXCEPT ![w] =
                    [k \in Keys |-> IF k \in visible[w] THEN rows[k] ELSE AbsentRow]]
    /\ UNCHANGED <<tables, newest, replays, run, visible, history>>

EndTransaction(w) ==
    /\ pc' = [pc EXCEPT ![w] = "idle"]
    /\ run' = [run EXCEPT ![w] = NoRun]
    /\ visible' = [visible EXCEPT ![w] = {}]
    /\ stored' = [stored EXCEPT ![w] = [k \in Keys |-> AbsentRow]]

\* What the messages of a run that are new to the outbox tell of each key.
ToldAfter(r, old) ==
    LET said(k, kinds) == \E m \in NewMessages(r, old) \ outbox :
                             m.key = k /\ m.kind \in kinds
    IN  [k \in Keys |-> IF said(k, InKinds) THEN "in"
                        ELSE IF said(k, OutKinds) THEN "out" ELSE told[k]]

HistoryAfter(r, old) ==
    /\ told' = ToldAfter(r, old)
    /\ doubtBars' = [k \in Keys |->
            IF k \notin Work(r, old) THEN doubtBars[k]
            ELSE IF ObservedVerdict(r, k) # "UNKNOWN" \/ r.halted THEN {}
            ELSE IF old[k].status = "UNKNOWN" /\ ~ProducerChanged(old[k], r)
            THEN doubtBars[k] \cup {r.bar} ELSE {r.bar}]
    /\ matchBars' = [k \in Keys |->
            IF k \in r.matched THEN matchBars[k] \cup {r.bar} ELSE matchBars[k]]

\* The writes of persist_state_run and its COMMIT.  An upsert of a row some
\* other transaction holds waits for it.  ON CONFLICT DO NOTHING on the
\* transition and semantic keys is set union.
Commit(w) ==
    LET r == run[w]
        old == stored[w]
    IN  /\ pc[w] = "locked"
        /\ \A k \in Work(r, old) \ visible[w] : ~Locked(k)
        /\ rows' = [k \in Keys |-> IF k \in Work(r, old)
                                   THEN UpsertedRow(r, old[k], DecisionFor(r, old, k))
                                   ELSE rows[k]]
        /\ log' = log \cup NewTransitions(r, old)
        /\ outbox' = outbox \cup NewMessages(r, old)
        /\ newest' = IF r.bar > newest THEN r.bar ELSE newest
        /\ HistoryAfter(r, old)
        /\ EndTransaction(w)
        /\ UNCHANGED replays

\* An exception, a lost connection, a killed process or the deadlock detector:
\* the transaction is rolled back.
Rollback(w) ==
    /\ pc[w] # "idle"
    /\ EndTransaction(w)
    /\ UNCHANGED <<tables, newest, replays, history>>

\* The bounds are used up: nothing is left to evaluate.
MarketOver ==
    /\ newest = MaxBar /\ replays = Replays
    /\ \A w \in Workers : pc[w] = "idle"
    /\ UNCHANGED vars

Next ==
    \/ \E w \in Workers : \E r \in Runs : OpenSnapshot(w, r)
    \/ \E w \in Workers : LockRows(w) \/ Commit(w) \/ Rollback(w)
    \/ MarketOver

Spec == Init /\ [][Next]_vars

-----------------------------------------------------------------------------
TypeOK ==
    /\ rows \in [Keys -> Rows]
    /\ log \subseteq LogEntries /\ outbox \subseteq Messages
    /\ newest \in 0 .. MaxBar /\ replays \in 0 .. Replays
    /\ pc \in [Workers -> {"idle", "reading", "locked"}]
    /\ run \in [Workers -> Runs \cup {NoRun}]
    /\ \A w \in Workers : pc[w] # "idle" => run[w] \in Runs
    /\ visible \in [Workers -> SUBSET Keys]
    /\ stored \in [Workers -> [Keys -> Rows]]
    /\ told \in [Keys -> {"nothing", "in", "out"}]
    /\ doubtBars \in [Keys -> SUBSET Bars]
    /\ matchBars \in [Keys -> SUBSET Bars]

(***************************************************************************)
(* Properties that hold whatever the workers interleave.                   *)
(***************************************************************************)

\* Between its FOR UPDATE and its COMMIT a transaction decides on rows that
\* nobody else holds or has changed: no update of an existing row is lost.
LockedRowsAreCurrent ==
    \A w \in Workers : pc[w] = "locked" =>
        /\ \A v \in Workers \ {w} : pc[v] = "locked" => visible[v] \cap visible[w] = {}
        /\ \A k \in Keys : stored[w][k] = IF k \in visible[w] THEN rows[k] ELSE AbsentRow

\* Contract clause 24: a message in the outbox has its transition in the log,
\* recorded for the same bar, although both tables drop repeated keys.
MessagesAreLogged ==
    \A m \in outbox : \E e \in log : e.key = m.key /\ e.kind = m.kind /\ e.bar = m.bar

\* A doubtful row stays below the threshold: the count that reaches it makes
\* the row ABANDONED in the same transaction.
DoubtIsBounded ==
    \A k \in Keys : rows[k].status = "UNKNOWN" => rows[k].unknown \in 1 .. Threshold - 1

\* Contract clauses 8 and 9: only a transaction that evaluated the bar
\* successfully, and did not find the key, ends an active or doubtful state.
EndOnEvidence ==
    \A k \in Keys :
        (rows[k].status \in {"ACTIVE", "UNKNOWN"} /\ rows'[k].status = "INACTIVE") =>
            \E w \in Workers : /\ pc[w] = "locked" /\ pc'[w] = "idle"
                              /\ run[w].verdict # "UNKNOWN" /\ ~run[w].halted
                              /\ k \notin run[w].matched
EndsOnlyOnEvidence == [][EndOnEvidence]_vars

\* Contract clause 10: ABANDONED is terminal.  Only a new match, announced as
\* a new entry unless the run is silent, or a halt takes the row out of it.
LeavesAbandonedByMatch ==
    \A k \in Keys :
        (rows[k].status = "ABANDONED" /\ rows'[k].status # "ABANDONED") =>
            \/ rows'[k].status = "HALTED"
            \/ /\ rows'[k].status = "ACTIVE"
               /\ \E e \in log' : /\ e.key = k /\ e.bar = rows'[k].seen
                                  /\ e.kind = "ENTER"
AbandonedIsTerminal == [][LeavesAbandonedByMatch]_vars

(***************************************************************************)
(* Properties of the scheduled feed: one worker, every bar at most once    *)
(* and in order (Replays = 0), all runs notify, no halts.                  *)
(***************************************************************************)

\* unknown_bars counts the distinct bars of the UNKNOWN spell.
DoubtCountsBars ==
    \A k \in Keys : rows[k].status \in {"UNKNOWN", "ABANDONED"} =>
        \E f \in [1 .. rows[k].unknown -> doubtBars[k]] :
            /\ \A b \in doubtBars[k] : \E i \in DOMAIN f : f[i] = b
            /\ \A i, j \in DOMAIN f : f[i] = f[j] => i = j

\* Who follows the messages believes every active state to be active.
ActiveIsTold == \A k \in Keys : rows[k].status = "ACTIVE" => told[k] = "in"

\* Nobody is told that a state ended that was never announced.
EndsAreOfAnnouncedStates ==
    \A m \in outbox : m.kind \in OutKinds =>
        \E n \in outbox : n.key = m.key /\ n.kind \in InKinds /\ n.bar < m.bar

\* Between two announced entries the log shows how the first one ended.
OneEntryPerEpisode ==
    \A m, n \in outbox :
        (m.key = n.key /\ m.kind = "ENTER" /\ n.kind = "ENTER" /\ m.bar < n.bar) =>
            \E e \in log : /\ e.key = m.key /\ m.bar < e.bar /\ e.bar < n.bar
                           /\ e.kind \in OutKinds \cup {"ABANDONED", "SUPERSEDED"}

\* The status that the log entries of the last bar with entries leave a key in.
EntriesAt(k, b) == {e \in log : e.key = k /\ e.bar = b}
LoggedBars(k) == {e.bar : e \in {x \in log : x.key = k}}
KindsLeading == [ACTIVE |-> {"ENTER", "RESUMED", "CHANGE", "ADOPTED"},
                 INACTIVE |-> OutKinds, UNKNOWN |-> {"UNKNOWN"},
                 ABANDONED |-> {"ABANDONED"}, HALTED |-> {"INSTRUMENT_HALTED"}]
LeavesIn(E, status) ==
    \/ \E e \in E : e.kind \in KindsLeading[status]
    \/ /\ \A e \in E : e.kind = "SUPERSEDED"
       /\ \E e \in E : status = IF e.next THEN "UNKNOWN" ELSE "INACTIVE"

\* The log alone rebuilds the projection: the entries of the last bar with
\* entries say the status of the row.
LogRebuildsRows ==
    \A k \in Keys :
        IF LoggedBars(k) = {} THEN rows[k] = AbsentRow
        ELSE \E b \in LoggedBars(k) : /\ \A c \in LoggedBars(k) : c <= b
                                      /\ rows[k].status # "NONE"
                                      /\ LeavesIn(EntriesAt(k, b), rows[k].status)

\* Contract clause 12: the step that moves a running state to another version
\* or ruleset announces nothing about it.
UpgradeIsSilent ==
    [][\A k \in Keys :
         (rows[k].status \in CurrentStatuses /\ rows'[k].version # rows[k].version) =>
            \A m \in outbox' \ outbox : m.key # k]_vars

(***************************************************************************)
(* Refinement: a single worker that evaluates bars in any order, repeats   *)
(* them, is silent or halts, implements the life cycle.                    *)
(***************************************************************************)
PhaseOf(status) ==
    IF status \in {"NONE", "INACTIVE"} THEN "outside"
    ELSE IF status = "ACTIVE" THEN "in"
    ELSE IF status = "UNKNOWN" THEN "doubt"
    ELSE IF status = "ABANDONED" THEN "lost" ELSE "halted"

Lifecycle == INSTANCE StateLifecycle WITH
    phase <- [k \in Keys |-> PhaseOf(rows[k].status)], news <- outbox

\* Every commit moves the keys as the contract allows and announces only the
\* moves it makes.
ImplementsLifecycle == Lifecycle!Spec

(***************************************************************************)
(* What the code's own words promise and repeated evaluation breaks.       *)
(***************************************************************************)

\* The valid_from of an active state is a bar on which it matched.
ActiveSinceMatch ==
    \A k \in Keys : rows[k].status = "ACTIVE" => rows[k].from \in matchBars[k]

=============================================================================
