-------------------------- MODULE StateStore_proofs --------------------------
(***************************************************************************)
(* Theorems about StateStore for any number of keys, versions, workers,    *)
(* bars and any threshold.                                                 *)
(*                                                                         *)
(* The argument for the rows: the transactions that hold locks hold        *)
(* different rows, hence what one of them read is still what is stored     *)
(* when it commits (both are LockedRowsAreCurrent), hence its decisions    *)
(* are about the current state of the key.                                 *)
(***************************************************************************)
EXTENDS StateStore, TLAPS

-----------------------------------------------------------------------------
(* What one reconciliation returns.                                        *)

\* Every decision of reconcile_state is a decision of its result type.
LEMMA ReconcileType ==
    ASSUME NEW prev \in Snapshots, NEW verdict \in Verdicts,
           NEW sameKey \in BOOLEAN, NEW changed \in BOOLEAN, NEW halted \in BOOLEAN
    PROVE  Reconcile(prev, verdict, sameKey, changed, halted) \in Decisions
<1>0. prev.unknown \in Nat /\ prev.unknown + 1 \in Nat
  BY DEF Snapshots
<1>1. CASE halted
  BY <1>1 DEF Reconcile, HaltDecision, Decision, Decisions, Statuses, Transitions
<1>2. CASE ~halted /\ changed
  <2>1. UpgradeDecision(prev, verdict) \in Decisions
    BY DEF UpgradeDecision, Decision, Decisions, Statuses, Transitions, Verdicts
  <2>2. QED BY <1>2, <2>1 DEF Reconcile
<1>3. CASE ~halted /\ ~changed /\ verdict = "UNKNOWN"
  <2>1. UnknownCount(prev) \in Nat
    BY <1>0 DEF UnknownCount
  <2>2. DoubtDecision(prev) \in Decisions
    BY <2>1 DEF DoubtDecision, Decision, Decisions, Statuses, Transitions
  <2>3. QED BY <1>3, <2>2 DEF Reconcile
<1>4. CASE ~halted /\ ~changed /\ verdict = "MATCH"
  <2>1. MatchDecision(prev, sameKey) \in Decisions
    BY DEF MatchDecision, Decision, Decisions, Statuses, Transitions
  <2>2. QED BY <1>4, <2>1 DEF Reconcile
<1>5. CASE ~halted /\ ~changed /\ verdict = "NO_MATCH"
  <2>1. NoMatchDecision(prev) \in Decisions
    BY DEF NoMatchDecision, Decision, Decisions, Statuses, Transitions
  <2>2. QED BY <1>5, <2>1 DEF Reconcile
<1>6. QED BY <1>1, <1>2, <1>3, <1>4, <1>5 DEF Verdicts

\* The inputs that persist_state_run gives it are of its argument types.
LEMMA DecisionType ==
    ASSUME NEW r \in Runs, NEW old \in [Keys -> Rows], NEW k \in Keys
    PROVE  /\ ObservedVerdict(r, k) \in Verdicts
           /\ r.bar \in Bars /\ r.version \in Versions /\ r.halted \in BOOLEAN
           /\ DecisionFor(r, old, k) \in Decisions
<1>1. /\ r.bar \in Bars /\ r.version \in Versions /\ r.halted \in BOOLEAN
  BY StoreAssumption DEF Runs
<1>2. ObservedVerdict(r, k) \in Verdicts
  BY DEF ObservedVerdict, Verdicts
<1>3. [status |-> old[k].status, unknown |-> old[k].unknown] \in Snapshots
  BY DEF Rows, Snapshots
<1>4. ProducerChanged(old[k], r) \in BOOLEAN
  BY DEF ProducerChanged
<1>5. QED BY <1>1, <1>2, <1>3, <1>4, ReconcileType DEF DecisionFor

\* STATE_UPSERT_SQL writes a row of the table's type.
LEMMA UpsertType ==
    ASSUME NEW r \in Runs, NEW old \in [Keys -> Rows], NEW k \in Keys
    PROVE  UpsertedRow(r, old[k], DecisionFor(r, old, k)) \in Rows
<1>1. /\ r.bar \in Nat /\ r.version \in Versions
      /\ DecisionFor(r, old, k) \in Decisions
  BY DecisionType DEF Bars
<1>2. old[k].from \in Nat
  BY DEF Rows
<1>3. QED BY <1>1, <1>2 DEF UpsertedRow, Rows, Decisions

-----------------------------------------------------------------------------
(* Type correctness.                                                       *)

\* The tables and the history after a commit.
LEMMA CommitType ==
    ASSUME TypeOK, NEW w \in Workers, Commit(w)
    PROVE  /\ rows' \in [Keys -> Rows]
           /\ log' \subseteq LogEntries /\ outbox' \subseteq Messages
           /\ newest' \in 0 .. MaxBar
           /\ told' \in [Keys -> {"nothing", "in", "out"}]
           /\ doubtBars' \in [Keys -> SUBSET Bars]
           /\ matchBars' \in [Keys -> SUBSET Bars]
<1> DEFINE r == run[w]
           old == stored[w]
<1>1. r \in Runs /\ old \in [Keys -> Rows]
  BY DEF Commit, TypeOK
<1>2. r.bar \in Bars /\ r.version \in Versions
  BY <1>1 DEF Runs
<1>3. rows' = [k \in Keys |-> IF k \in Work(r, old)
                              THEN UpsertedRow(r, old[k], DecisionFor(r, old, k))
                              ELSE rows[k]]
  BY DEF Commit
<1>4. rows' \in [Keys -> Rows]
  <2>1. \A k \in Keys : UpsertedRow(r, old[k], DecisionFor(r, old, k)) \in Rows
    BY <1>1, UpsertType
  <2> HIDE DEF r, old
  <2>2. QED BY <1>3, <2>1 DEF TypeOK
<1>5. Work(r, old) \subseteq Keys
  BY <1>1 DEF Work, Runs
<1>6. \A k \in Work(r, old) : DecisionFor(r, old, k).transitions \subseteq Transitions
  BY <1>1, <1>5, DecisionType DEF Decisions
<1>7. log' \subseteq LogEntries
  <2>1. log' = log \cup NewTransitions(r, old)
    BY DEF Commit
  <2> HIDE DEF r, old
  <2>2. ASSUME NEW e \in NewTransitions(r, old)
        PROVE  e \in LogEntries
    <3>1. PICK k \in Work(r, old) :
            \E t \in DecisionFor(r, old, k).transitions :
              e = [key |-> k, kind |-> t, prior |-> old[k].status # "NONE",
                   next |-> DecisionFor(r, old, k).status \in CurrentStatuses,
                   bar |-> r.bar, version |-> r.version]
      BY DEF NewTransitions
    <3>2. k \in Keys /\ DecisionFor(r, old, k).transitions \subseteq Transitions
      BY <1>5, <1>6
    <3>3. QED BY <3>1, <3>2, <1>2 DEF LogEntries
  <2>3. QED BY <2>1, <2>2 DEF TypeOK
<1>8. outbox' \subseteq Messages
  <2>1. outbox' = outbox \cup NewMessages(r, old)
    BY DEF Commit
  <2> HIDE DEF r, old
  <2>2. NewMessages(r, old) \subseteq Messages
    BY <1>2, <1>5, <1>6 DEF NewMessages, Messages
  <2>3. QED BY <2>1, <2>2 DEF TypeOK
<1>9. newest' \in 0 .. MaxBar
  BY <1>2, StoreAssumption DEF Commit, TypeOK, Bars
<1>10. told' \in [Keys -> {"nothing", "in", "out"}]
  <2>1. told' = ToldAfter(r, old)
    BY DEF Commit, HistoryAfter
  <2> HIDE DEF r, old
  <2>2. QED BY <2>1 DEF TypeOK, ToldAfter
<1>11. doubtBars' \in [Keys -> SUBSET Bars] /\ matchBars' \in [Keys -> SUBSET Bars]
  <2>1. HistoryAfter(r, old)
    BY DEF Commit
  <2> HIDE DEF r, old
  <2>2. QED BY <2>1, <1>2 DEF HistoryAfter, TypeOK
<1>12. QED BY <1>4, <1>7, <1>8, <1>9, <1>10, <1>11

\* A transaction that ends, committed or not, leaves its worker as it began.
LEMMA EndType ==
    ASSUME TypeOK, NEW w \in Workers, EndTransaction(w)
    PROVE  /\ pc' \in [Workers -> {"idle", "reading", "locked"}]
           /\ run' \in [Workers -> Runs \cup {NoRun}]
           /\ \A v \in Workers : pc'[v] # "idle" => run'[v] \in Runs
           /\ visible' \in [Workers -> SUBSET Keys]
           /\ stored' \in [Workers -> [Keys -> Rows]]
<1>1. AbsentRow \in Rows
  BY DEF AbsentRow, Rows
<1>2. QED BY <1>1 DEF EndTransaction, TypeOK

\* An empty database has the types.
LEMMA TypeInit == Init => TypeOK
<1>1. AbsentRow \in Rows
  BY DEF AbsentRow, Rows
<1>2. QED BY <1>1, StoreAssumption DEF Init, TypeOK

\* Opening, locking, committing and rolling back keep the types.
LEMMA TypeStep == TypeOK /\ [Next]_vars => TypeOK'
<1> SUFFICES ASSUME TypeOK, [Next]_vars PROVE TypeOK'
  OBVIOUS
<1>1. ASSUME NEW w \in Workers, NEW r \in Runs, OpenSnapshot(w, r)
      PROVE  TypeOK'
  <2>1. replays' \in 0 .. Replays
    BY <1>1, StoreAssumption DEF OpenSnapshot, TypeOK
  <2>2. visible' \in [Workers -> SUBSET Keys]
    BY <1>1 DEF OpenSnapshot, TypeOK
  <2>3. /\ run' \in [Workers -> Runs \cup {NoRun}]
        /\ \A v \in Workers : pc'[v] # "idle" => run'[v] \in Runs
    BY <1>1 DEF OpenSnapshot, TypeOK
  <2>4. QED BY <1>1, <2>1, <2>2, <2>3 DEF OpenSnapshot, TypeOK, tables, history
<1>2. ASSUME NEW w \in Workers, LockRows(w)
      PROVE  TypeOK'
  <2>1. AbsentRow \in Rows
    BY DEF AbsentRow, Rows
  <2>2. stored' \in [Workers -> [Keys -> Rows]]
    BY <1>2, <2>1 DEF LockRows, TypeOK
  <2>3. QED BY <1>2, <2>2 DEF LockRows, TypeOK, tables, history
<1>3. ASSUME NEW w \in Workers, Commit(w)
      PROVE  TypeOK'
  <2>1. EndTransaction(w) /\ replays' = replays
    BY <1>3 DEF Commit
  <2>2. QED BY <1>3, <2>1, CommitType, EndType DEF TypeOK
<1>4. ASSUME NEW w \in Workers, Rollback(w)
      PROVE  TypeOK'
  BY <1>4, EndType DEF Rollback, TypeOK, tables, history
<1>5. CASE MarketOver
  BY <1>5 DEF MarketOver, TypeOK, vars
<1>6. CASE UNCHANGED vars
  BY <1>6 DEF TypeOK, vars
<1>7. QED BY <1>1, <1>2, <1>3, <1>4, <1>5, <1>6 DEF Next

\* Every variable of the store keeps its type, whatever the workers do.
THEOREM TypeCorrect == Spec => []TypeOK
<1>1. QED BY TypeInit, TypeStep, PTL DEF Spec

-----------------------------------------------------------------------------
(* Row locks.                                                              *)

\* A commit changes only rows it read or rows nobody else holds.
LEMMA CommitKeepsLockedRows ==
    ASSUME TypeOK, LockedRowsAreCurrent, NEW w \in Workers, Commit(w),
           NEW v \in Workers \ {w}, pc[v] = "locked", NEW k \in visible[v]
    PROVE  rows'[k] = rows[k]
<1>1. k \in Keys /\ pc[w] = "locked" /\ k \notin visible[w]
  BY DEF LockedRowsAreCurrent, Commit, TypeOK
<1>2. Locked(k)
  BY DEF Locked
<1>3. k \notin Work(run[w], stored[w])
  BY <1>1, <1>2 DEF Commit
<1>4. QED BY <1>1, <1>3 DEF Commit

\* LockedRowsAreCurrent is inductive once the types are known: a transaction
\* takes only free rows, and a commit leaves the rows of the others alone.
LEMMA LocksStep ==
    TypeOK /\ LockedRowsAreCurrent /\ [Next]_vars => LockedRowsAreCurrent'
<1> SUFFICES ASSUME TypeOK, LockedRowsAreCurrent, [Next]_vars,
                    NEW v \in Workers, pc'[v] = "locked"
             PROVE  /\ \A u \in Workers \ {v} : pc'[u] = "locked" =>
                            visible'[u] \cap visible'[v] = {}
                    /\ \A k \in Keys : stored'[v][k] =
                            IF k \in visible'[v] THEN rows'[k] ELSE AbsentRow
  BY DEF LockedRowsAreCurrent
<1>1. ASSUME NEW w \in Workers, NEW r \in Runs, OpenSnapshot(w, r)
      PROVE  /\ \A u \in Workers \ {v} : pc'[u] = "locked" =>
                     visible'[u] \cap visible'[v] = {}
             /\ \A k \in Keys : stored'[v][k] =
                     IF k \in visible'[v] THEN rows'[k] ELSE AbsentRow
  BY <1>1 DEF OpenSnapshot, LockedRowsAreCurrent, TypeOK, tables
<1>2. ASSUME NEW w \in Workers, LockRows(w)
      PROVE  /\ \A u \in Workers \ {v} : pc'[u] = "locked" =>
                     visible'[u] \cap visible'[v] = {}
             /\ \A k \in Keys : stored'[v][k] =
                     IF k \in visible'[v] THEN rows'[k] ELSE AbsentRow
  BY <1>2 DEF LockRows, Locked, LockedRowsAreCurrent, TypeOK, tables
<1>3. ASSUME NEW w \in Workers, Commit(w)
      PROVE  /\ \A u \in Workers \ {v} : pc'[u] = "locked" =>
                     visible'[u] \cap visible'[v] = {}
             /\ \A k \in Keys : stored'[v][k] =
                     IF k \in visible'[v] THEN rows'[k] ELSE AbsentRow
  <2>1. EndTransaction(w)
    BY <1>3 DEF Commit
  <2>2. v # w /\ pc[v] = "locked"
    BY <2>1 DEF EndTransaction, TypeOK
  <2>3. \A k \in visible[v] : rows'[k] = rows[k]
    BY <1>3, <2>2, CommitKeepsLockedRows
  <2>4. QED BY <2>1, <2>2, <2>3 DEF EndTransaction, LockedRowsAreCurrent, TypeOK
<1>4. ASSUME NEW w \in Workers, Rollback(w)
      PROVE  /\ \A u \in Workers \ {v} : pc'[u] = "locked" =>
                     visible'[u] \cap visible'[v] = {}
             /\ \A k \in Keys : stored'[v][k] =
                     IF k \in visible'[v] THEN rows'[k] ELSE AbsentRow
  BY <1>4 DEF Rollback, EndTransaction, LockedRowsAreCurrent, TypeOK, tables
<1>5. CASE MarketOver \/ UNCHANGED vars
  BY <1>5 DEF MarketOver, vars, LockedRowsAreCurrent
<1>6. QED BY <1>1, <1>2, <1>3, <1>4, <1>5 DEF Next

IInv == TypeOK /\ LockedRowsAreCurrent

\* The inductive invariant the action properties rest on.
LEMMA IInvAlways == Spec => []IInv
<1>1. Init => LockedRowsAreCurrent
  BY DEF Init, LockedRowsAreCurrent
<1>2. QED BY <1>1, TypeInit, TypeStep, LocksStep, PTL DEF Spec, IInv

\* What a transaction read is what is stored until it commits, so that no
\* update of a row that exists is lost.
THEOREM NoLostUpdate == Spec => []LockedRowsAreCurrent
<1>1. QED BY IInvAlways, PTL DEF IInv

-----------------------------------------------------------------------------
(* The log and the outbox.                                                 *)

\* Every message of a run is the message of a transition the run logs.
LEMMA NewMessagesAreLogged ==
    ASSUME NEW r, NEW old, NEW m \in NewMessages(r, old)
    PROVE  \E e \in NewTransitions(r, old) :
               e.key = m.key /\ e.kind = m.kind /\ e.bar = m.bar
<1>1. PICK k \in Work(r, old) :
        \E t \in DecisionFor(r, old, k).transitions :
            m = [key |-> k, kind |-> t, bar |-> r.bar]
  BY DEF NewMessages
<1>2. PICK t \in DecisionFor(r, old, k).transitions :
        m = [key |-> k, kind |-> t, bar |-> r.bar]
  BY <1>1
<1> DEFINE e == [key |-> k, kind |-> t, prior |-> old[k].status # "NONE",
                 next |-> DecisionFor(r, old, k).status \in CurrentStatuses,
                 bar |-> r.bar, version |-> r.version]
<1>3. e \in NewTransitions(r, old)
  BY <1>1 DEF NewTransitions
<1>4. e.key = m.key /\ e.kind = m.kind /\ e.bar = m.bar
  BY <1>2
<1>5. QED BY <1>3, <1>4

\* Contract clause 24: no message without its transition.
THEOREM NoMessageWithoutTransition == Spec => []MessagesAreLogged
<1>1. Init => MessagesAreLogged
  BY DEF Init, MessagesAreLogged
<1>2. ASSUME MessagesAreLogged, [Next]_vars PROVE MessagesAreLogged'
  <2>1. ASSUME NEW w \in Workers, Commit(w) PROVE MessagesAreLogged'
    <3>1. /\ log' = log \cup NewTransitions(run[w], stored[w])
          /\ outbox' = outbox \cup NewMessages(run[w], stored[w])
      BY <2>1 DEF Commit
    <3>2. QED BY <1>2, <3>1, NewMessagesAreLogged DEF MessagesAreLogged
  <2>2. CASE UNCHANGED <<log, outbox>>
    BY <1>2, <2>2 DEF MessagesAreLogged
  <2>3. QED BY <1>2, <2>1, <2>2
          DEF Next, OpenSnapshot, LockRows, Rollback, MarketOver, tables, vars
<1>3. QED BY <1>1, <1>2, PTL DEF Spec

-----------------------------------------------------------------------------
(* What may become of an active, doubtful or abandoned state.              *)

\* Only a commit changes a row, and only of a key in its work.
LEMMA RowsChangeByCommit ==
    ASSUME IInv, [Next]_vars, NEW k \in Keys, rows'[k] # rows[k]
    PROVE  \E w \in Workers :
               /\ Commit(w) /\ pc[w] = "locked" /\ pc'[w] = "idle"
               /\ run[w] \in Runs /\ stored[w] \in [Keys -> Rows]
               /\ k \in Work(run[w], stored[w])
               /\ rows'[k] = UpsertedRow(run[w], stored[w][k],
                                         DecisionFor(run[w], stored[w], k))
<1>1. PICK w \in Workers : Commit(w)
  BY DEF Next, OpenSnapshot, LockRows, Rollback, MarketOver, tables, vars
<1>2. /\ pc[w] = "locked" /\ pc'[w] = "idle"
      /\ run[w] \in Runs /\ stored[w] \in [Keys -> Rows]
  BY <1>1 DEF Commit, EndTransaction, IInv, TypeOK
<1>3. /\ k \in Work(run[w], stored[w])
      /\ rows'[k] = UpsertedRow(run[w], stored[w][k],
                                DecisionFor(run[w], stored[w], k))
  BY <1>1 DEF Commit
<1>4. QED BY <1>1, <1>2, <1>3

\* A decision for INACTIVE rests on an evaluation that succeeded.
LEMMA InactiveNeedsEvidence ==
    ASSUME NEW r \in Runs, NEW old \in [Keys -> Rows], NEW k \in Keys,
           DecisionFor(r, old, k).status = "INACTIVE"
    PROVE  ~r.halted /\ r.verdict # "UNKNOWN" /\ k \notin r.matched
<1> DEFINE prev == [status |-> old[k].status, unknown |-> old[k].unknown]
           verdict == ObservedVerdict(r, k)
<1>1. ~r.halted
  BY DEF DecisionFor, Reconcile, HaltDecision, Decision
<1>2. verdict = "NO_MATCH"
  <2>1. UpgradeDecision(prev, verdict).status = "INACTIVE" => verdict = "NO_MATCH"
    BY DEF UpgradeDecision, Decision
  <2>2. DoubtDecision(prev).status # "INACTIVE"
    BY DEF DoubtDecision, Decision
  <2>3. MatchDecision(prev, TRUE).status # "INACTIVE"
    BY DEF MatchDecision, Decision
  <2>4. verdict \in Verdicts
    BY DecisionType
  <2>5. Reconcile(prev, verdict, TRUE, ProducerChanged(old[k], r), r.halted).status = "INACTIVE"
    BY DEF DecisionFor
  <2> HIDE DEF prev, verdict
  <2>6. QED BY <1>1, <2>1, <2>2, <2>3, <2>4, <2>5 DEF Reconcile, Verdicts
<1>3. QED BY <1>1, <1>2 DEF ObservedVerdict

\* Contract clauses 8 and 9: missing data never ends a state.
THEOREM EndsRestOnEvidence == Spec => EndsOnlyOnEvidence
<1>1. ASSUME IInv, [Next]_vars PROVE EndOnEvidence
  <2> SUFFICES ASSUME NEW k \in Keys, rows[k].status \in {"ACTIVE", "UNKNOWN"},
                      rows'[k].status = "INACTIVE"
               PROVE  \E w \in Workers : /\ pc[w] = "locked" /\ pc'[w] = "idle"
                                         /\ run[w].verdict # "UNKNOWN" /\ ~run[w].halted
                                         /\ k \notin run[w].matched
    BY DEF EndOnEvidence
  <2>1. PICK w \in Workers :
            /\ pc[w] = "locked" /\ pc'[w] = "idle"
            /\ run[w] \in Runs /\ stored[w] \in [Keys -> Rows]
            /\ rows'[k] = UpsertedRow(run[w], stored[w][k],
                                      DecisionFor(run[w], stored[w], k))
    BY <1>1, RowsChangeByCommit
  <2>2. DecisionFor(run[w], stored[w], k).status = "INACTIVE"
    BY <2>1 DEF UpsertedRow
  <2>3. QED BY <2>1, <2>2, InactiveNeedsEvidence
<1>2. QED BY <1>1, IInvAlways, PTL DEF Spec, EndsOnlyOnEvidence

\* A row that is absent or abandoned and whose key is in the work of a run
\* was matched, unless the run halts, and the decision is an entry.
LEMMA AbandonedEnters ==
    ASSUME NEW r \in Runs, NEW old \in [Keys -> Rows], NEW k \in Work(r, old),
           k \in Keys, old[k].status \in {"NONE", "ABANDONED"}, ~r.halted
    PROVE  DecisionFor(r, old, k) = Decision("ACTIVE", 0, {"ENTER"}, TRUE)
<1>1. k \in r.matched
  BY DEF Work, CurrentStatuses
<1>2. ~ProducerChanged(old[k], r)
  BY DEF ProducerChanged
<1>3. ObservedVerdict(r, k) = "MATCH"
  BY <1>1 DEF ObservedVerdict
<1>4. QED BY <1>2, <1>3 DEF DecisionFor, Reconcile, MatchDecision, Outside

\* Contract clause 10: an abandoned state is left only by a halt or by a new
\* entry, which the log has.
THEOREM AbandonedStays == Spec => AbandonedIsTerminal
<1>1. ASSUME IInv, [Next]_vars PROVE LeavesAbandonedByMatch
  <2> SUFFICES ASSUME NEW k \in Keys, rows[k].status = "ABANDONED",
                      rows'[k].status # "ABANDONED"
               PROVE  \/ rows'[k].status = "HALTED"
                      \/ /\ rows'[k].status = "ACTIVE"
                         /\ \E e \in log' : /\ e.key = k /\ e.bar = rows'[k].seen
                                            /\ e.kind = "ENTER"
    BY DEF LeavesAbandonedByMatch
  <2>1. PICK w \in Workers :
            /\ Commit(w) /\ pc[w] = "locked"
            /\ run[w] \in Runs /\ stored[w] \in [Keys -> Rows]
            /\ k \in Work(run[w], stored[w])
            /\ rows'[k] = UpsertedRow(run[w], stored[w][k],
                                      DecisionFor(run[w], stored[w], k))
    BY <1>1, RowsChangeByCommit
  <2> DEFINE d == DecisionFor(run[w], stored[w], k)
  <2>2. rows'[k].status = d.status /\ rows'[k].seen = run[w].bar
    BY <2>1 DEF UpsertedRow
  <2>3. stored[w][k].status \in {"NONE", "ABANDONED"}
    BY <1>1, <2>1 DEF IInv, LockedRowsAreCurrent, AbsentRow
  <2>4. CASE run[w].halted
    <3>1. d.status = "HALTED"
      BY <2>4 DEF DecisionFor, Reconcile, HaltDecision, Decision
    <3>2. QED BY <2>2, <3>1
  <2>5. CASE ~run[w].halted
    <3>1. d = Decision("ACTIVE", 0, {"ENTER"}, TRUE)
      BY <2>1, <2>3, <2>5, AbandonedEnters
    <3>2. d.status = "ACTIVE" /\ "ENTER" \in d.transitions
      BY <3>1 DEF Decision
    <3> DEFINE e == [key |-> k, kind |-> "ENTER", prior |-> stored[w][k].status # "NONE",
                     next |-> d.status \in CurrentStatuses,
                     bar |-> run[w].bar, version |-> run[w].version]
    <3>3. e \in NewTransitions(run[w], stored[w])
      BY <2>1, <3>2 DEF NewTransitions
    <3>4. e \in log'
      BY <2>1, <3>3 DEF Commit
    <3>5. e.key = k /\ e.kind = "ENTER" /\ e.bar = run[w].bar
      OBVIOUS
    <3> HIDE DEF e, d
    <3>6. QED BY <2>2, <3>2, <3>4, <3>5
  <2>6. QED BY <2>4, <2>5
<1>2. QED BY <1>1, IInvAlways, PTL DEF Spec, AbandonedIsTerminal

\* The count of a doubtful row stays below the threshold.  With a threshold
\* of one a change of producer would leave a doubtful row at the threshold.
THEOREM DoubtStaysBounded ==
    ASSUME Threshold > 1
    PROVE  Spec => []DoubtIsBounded
<1>1. Init => DoubtIsBounded
  BY DEF Init, DoubtIsBounded, AbsentRow
<1>2. ASSUME NEW r \in Runs, NEW old \in [Keys -> Rows], NEW k \in Keys,
             DecisionFor(r, old, k).status = "UNKNOWN"
      PROVE  DecisionFor(r, old, k).unknown \in 1 .. Threshold - 1
  <2> DEFINE prev == [status |-> old[k].status, unknown |-> old[k].unknown]
             verdict == ObservedVerdict(r, k)
  <2>1. prev.unknown \in Nat
    BY DEF Rows
  <2>2. UnknownCount(prev) \in Nat \ {0}
    BY <2>1 DEF UnknownCount
  <2>3. UpgradeDecision(prev, verdict).status = "UNKNOWN" =>
            UpgradeDecision(prev, verdict).unknown = 1
    BY DEF UpgradeDecision, Decision
  <2>4. DoubtDecision(prev).status = "UNKNOWN" =>
            DoubtDecision(prev).unknown \in 1 .. Threshold - 1
    BY <2>2, ThresholdAssumption DEF DoubtDecision, Decision
  <2>5. MatchDecision(prev, TRUE).status # "UNKNOWN" /\ NoMatchDecision(prev).status # "UNKNOWN"
    BY DEF MatchDecision, NoMatchDecision, Decision
  <2>6. HaltDecision(prev).status # "UNKNOWN"
    BY DEF HaltDecision, Decision
  <2>7. Reconcile(prev, verdict, TRUE, ProducerChanged(old[k], r), r.halted)
            = DecisionFor(r, old, k)
    BY DEF DecisionFor
  <2>8. 1 \in 1 .. Threshold - 1
    BY ThresholdAssumption
  <2> HIDE DEF prev, verdict
  <2>9. \/ DecisionFor(r, old, k) = UpgradeDecision(prev, verdict)
        \/ DecisionFor(r, old, k) = DoubtDecision(prev)
    BY <1>2, <2>5, <2>6, <2>7 DEF Reconcile
  <2>10. QED BY <1>2, <2>3, <2>4, <2>8, <2>9
<1>3. ASSUME IInv, DoubtIsBounded, [Next]_vars PROVE DoubtIsBounded'
  <2> SUFFICES ASSUME NEW k \in Keys, rows'[k].status = "UNKNOWN"
               PROVE  rows'[k].unknown \in 1 .. Threshold - 1
    BY DEF DoubtIsBounded
  <2>1. CASE rows'[k] = rows[k]
    BY <1>3, <2>1 DEF DoubtIsBounded
  <2>2. CASE rows'[k] # rows[k]
    <3>1. PICK w \in Workers :
              /\ run[w] \in Runs /\ stored[w] \in [Keys -> Rows]
              /\ rows'[k] = UpsertedRow(run[w], stored[w][k],
                                        DecisionFor(run[w], stored[w], k))
      BY <1>3, <2>2, RowsChangeByCommit
    <3>2. /\ DecisionFor(run[w], stored[w], k).status = "UNKNOWN"
          /\ rows'[k].unknown = DecisionFor(run[w], stored[w], k).unknown
      BY <3>1 DEF UpsertedRow
    <3>3. QED BY <1>2, <3>1, <3>2
  <2>3. QED BY <2>1, <2>2
<1>4. QED BY <1>1, <1>3, IInvAlways, PTL DEF Spec

=============================================================================
