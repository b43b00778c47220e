------------------------ MODULE StateLifecycle_proofs ------------------------
(***************************************************************************)
(* One worker of StateStore implements StateLifecycle, for any number of   *)
(* keys, versions, bars and repetitions, silent runs and halts included.   *)
(*                                                                         *)
(* The argument: a worker that is alone sees every row that is stored, so  *)
(* it decides on the stored status of every key; and every decision of     *)
(* reconcile_state is a move of the life cycle whose message, if it has    *)
(* one, is the message of the move.                                        *)
(***************************************************************************)
EXTENDS StateStore_proofs

-----------------------------------------------------------------------------
(* The life cycle: which moves exist and what is said of them.             *)

\* The messages of the moves that are announced.
LEMMA KindsOfMoves ==
    /\ "ENTER" \in Lifecycle!KindsOf(<<"outside", "in">>)
    /\ "ENTER" \in Lifecycle!KindsOf(<<"lost", "in">>)
    /\ "ENTER" \in Lifecycle!KindsOf(<<"halted", "in">>)
    /\ <<"outside", "in">> \in Lifecycle!Moves
    /\ <<"lost", "in">> \in Lifecycle!Moves
    /\ <<"halted", "in">> \in Lifecycle!Moves
    /\ "RESUMED" \in Lifecycle!KindsOf(<<"doubt", "in">>)
    /\ "EXIT" \in Lifecycle!KindsOf(<<"in", "outside">>)
    /\ "EXIT_INFERRED" \in Lifecycle!KindsOf(<<"doubt", "outside">>)
    /\ <<"doubt", "in">> \in Lifecycle!Moves
    /\ <<"in", "outside">> \in Lifecycle!Moves
    /\ <<"doubt", "outside">> \in Lifecycle!Moves
<1>1. "enter" \in DOMAIN Lifecycle!Announced /\ Lifecycle!MessageOf["enter"] = "ENTER"
      /\ Lifecycle!Announced["enter"]
            = {<<"outside", "in">>, <<"lost", "in">>, <<"halted", "in">>}
  BY DEF Lifecycle!Announced, Lifecycle!MessageOf
<1>2. "resume" \in DOMAIN Lifecycle!Announced /\ Lifecycle!MessageOf["resume"] = "RESUMED"
      /\ Lifecycle!Announced["resume"] = {<<"doubt", "in">>}
  BY DEF Lifecycle!Announced, Lifecycle!MessageOf
<1>3. "exit" \in DOMAIN Lifecycle!Announced /\ Lifecycle!MessageOf["exit"] = "EXIT"
      /\ Lifecycle!Announced["exit"] = {<<"in", "outside">>}
  BY DEF Lifecycle!Announced, Lifecycle!MessageOf
<1>4. "infer" \in DOMAIN Lifecycle!Announced /\ Lifecycle!MessageOf["infer"] = "EXIT_INFERRED"
      /\ Lifecycle!Announced["infer"] = {<<"doubt", "outside">>}
  BY DEF Lifecycle!Announced, Lifecycle!MessageOf
<1>5. \A a \in DOMAIN Lifecycle!Announced : \A move \in Lifecycle!Announced[a] :
          /\ Lifecycle!MessageOf[a] \in Lifecycle!KindsOf(move)
          /\ move \in Lifecycle!Moves
  BY DEF Lifecycle!KindsOf, Lifecycle!Moves
<1>6. QED BY <1>1, <1>2, <1>3, <1>4, <1>5

\* The moves nobody is told of.
LEMMA SilentMovesExist ==
    /\ <<"in", "doubt">> \in Lifecycle!Moves
    /\ <<"doubt", "lost">> \in Lifecycle!Moves
    /\ <<"halted", "doubt">> \in Lifecycle!Moves
    /\ <<"halted", "outside">> \in Lifecycle!Moves
    /\ \A p \in {"outside", "in", "doubt", "lost", "halted"} :
          <<p, "halted">> \in Lifecycle!Moves
<1>1. \A m \in Lifecycle!SilentMoves : m \in Lifecycle!Moves
  BY DEF Lifecycle!Moves
<1>2. QED BY <1>1 DEF Lifecycle!SilentMoves, Lifecycle!Phases

\* The phase of every status.
LEMMA PhaseOfStatus ==
    /\ PhaseOf("NONE") = "outside" /\ PhaseOf("INACTIVE") = "outside"
    /\ PhaseOf("ACTIVE") = "in" /\ PhaseOf("UNKNOWN") = "doubt"
    /\ PhaseOf("ABANDONED") = "lost" /\ PhaseOf("HALTED") = "halted"
BY DEF PhaseOf

\* A move, or none, from the phase of one status to that of another.
Follows(before, after) ==
    \/ PhaseOf(after) = PhaseOf(before)
    \/ <<PhaseOf(before), PhaseOf(after)>> \in Lifecycle!Moves

\* What a decision may announce about the move it makes.
Says(before, d) ==
    d.notify => \A t \in d.transitions :
                    t \in Lifecycle!KindsOf(<<PhaseOf(before), PhaseOf(d.status)>>)

\* Statuses of active_states.status; SUPERSEDED is never stored.
Kept == {"NONE", "ACTIVE", "INACTIVE", "UNKNOWN", "ABANDONED", "HALTED"}

\* What each branch of reconcile_state decides.
LEMMA Branches ==
    ASSUME NEW prev \in Snapshots, NEW verdict
    PROVE  /\ UpgradeDecision(prev, verdict).status \in {"ACTIVE", "INACTIVE", "UNKNOWN"}
           /\ UpgradeDecision(prev, verdict).notify = FALSE
           /\ DoubtDecision(prev).notify = FALSE
           /\ DoubtDecision(prev).status \in {"UNKNOWN", "ABANDONED"}
           /\ MatchDecision(prev, TRUE).status = "ACTIVE"
           /\ prev.status \in Outside => MatchDecision(prev, TRUE).transitions = {"ENTER"}
           /\ prev.status = "UNKNOWN" => MatchDecision(prev, TRUE).transitions = {"RESUMED"}
           /\ prev.status = "ACTIVE" => MatchDecision(prev, TRUE).transitions = {}
           /\ NoMatchDecision(prev).status = "INACTIVE"
           /\ prev.status = "HALTED" => NoMatchDecision(prev).transitions = {}
           /\ prev.status = "UNKNOWN" => NoMatchDecision(prev).transitions = {"EXIT_INFERRED"}
           /\ prev.status = "ACTIVE" => NoMatchDecision(prev).transitions = {"EXIT"}
<1>1. /\ UpgradeDecision(prev, verdict).status \in {"ACTIVE", "INACTIVE", "UNKNOWN"}
      /\ UpgradeDecision(prev, verdict).notify = FALSE
  BY DEF UpgradeDecision, Decision
<1>2. /\ DoubtDecision(prev).notify = FALSE
      /\ DoubtDecision(prev).status \in {"UNKNOWN", "ABANDONED"}
  BY DEF DoubtDecision, Decision
<1>3. /\ MatchDecision(prev, TRUE).status = "ACTIVE"
      /\ prev.status \in Outside => MatchDecision(prev, TRUE).transitions = {"ENTER"}
      /\ prev.status = "UNKNOWN" => MatchDecision(prev, TRUE).transitions = {"RESUMED"}
      /\ prev.status = "ACTIVE" => MatchDecision(prev, TRUE).transitions = {}
  BY DEF MatchDecision, Decision, Outside
<1>4. /\ NoMatchDecision(prev).status = "INACTIVE"
      /\ prev.status = "HALTED" => NoMatchDecision(prev).transitions = {}
      /\ prev.status = "UNKNOWN" => NoMatchDecision(prev).transitions = {"EXIT_INFERRED"}
      /\ prev.status = "ACTIVE" => NoMatchDecision(prev).transitions = {"EXIT"}
  BY DEF NoMatchDecision, Decision, Outside
<1>5. QED BY <1>1, <1>2, <1>3, <1>4

\* With a threshold above one only a doubtful state is abandoned.
LEMMA OnlyDoubtIsAbandoned ==
    ASSUME Threshold > 1, NEW prev \in Snapshots, prev.status # "UNKNOWN"
    PROVE  DoubtDecision(prev).status = "UNKNOWN"
BY ThresholdAssumption DEF DoubtDecision, UnknownCount, Decision

\* Every decision of reconcile_state follows the life cycle, when the status is
\* one of those that are stored and only current rows are looked at without match.
LEMMA DecisionFollows ==
    ASSUME Threshold > 1, NEW prev \in Snapshots, NEW verdict \in Verdicts,
           NEW changed \in BOOLEAN, NEW halted \in BOOLEAN,
           prev.status \in Kept,
           prev.status \in {"NONE", "INACTIVE", "ABANDONED"} =>
                ~changed /\ verdict = "MATCH",
           NEW d, d = Reconcile(prev, verdict, TRUE, changed, halted)
    PROVE  /\ d.status \in Kept \ {"NONE"}
           /\ Follows(prev.status, d.status)
           /\ Says(prev.status, d)
<1>1. CASE halted
  <2>1. d.status = "HALTED" /\ d.notify = FALSE
    <3>1. HaltDecision(prev).status = "HALTED" /\ HaltDecision(prev).notify = FALSE
      BY DEF HaltDecision, Decision
    <3>2. QED BY <1>1, <3>1 DEF Reconcile
  <2>2. PhaseOf(prev.status) \in {"outside", "in", "doubt", "lost", "halted"}
    BY DEF PhaseOf
  <2>3. QED BY <2>1, <2>2, PhaseOfStatus, KindsOfMoves, SilentMovesExist DEF Follows, Says, PhaseOf, Kept
<1>2. CASE ~halted /\ changed
  <2>1. prev.status \in {"ACTIVE", "UNKNOWN", "HALTED"}
    BY <1>2 DEF Kept
  <2>2. d = UpgradeDecision(prev, verdict)
    BY <1>2 DEF Reconcile
  <2>3. d.status \in {"ACTIVE", "INACTIVE", "UNKNOWN"} /\ d.notify = FALSE
    <3>1. /\ UpgradeDecision(prev, verdict).status \in {"ACTIVE", "INACTIVE", "UNKNOWN"}
          /\ UpgradeDecision(prev, verdict).notify = FALSE
      BY Branches
    <3>2. QED BY <2>2, <3>1
  <2>4. Follows(prev.status, d.status)
    <3>1. CASE prev.status = "ACTIVE"
      BY <2>3, <3>1, PhaseOfStatus, KindsOfMoves, SilentMovesExist DEF Follows
    <3>2. CASE prev.status = "UNKNOWN"
      BY <2>3, <3>2, PhaseOfStatus, KindsOfMoves, SilentMovesExist DEF Follows
    <3>3. CASE prev.status = "HALTED"
      BY <2>3, <3>3, PhaseOfStatus, KindsOfMoves, SilentMovesExist DEF Follows
    <3>4. QED BY <2>1, <3>1, <3>2, <3>3
  <2>5. QED BY <2>3, <2>4 DEF Says, Kept
<1>3. CASE ~halted /\ ~changed /\ verdict = "UNKNOWN"
  <2>1. prev.status \in {"ACTIVE", "UNKNOWN", "HALTED"}
    BY <1>3 DEF Kept
  <2>2. d = DoubtDecision(prev)
    BY <1>3 DEF Reconcile
  <2>3. /\ d.status \in {"UNKNOWN", "ABANDONED"} /\ d.notify = FALSE
        /\ d.status = "ABANDONED" => prev.status = "UNKNOWN"
    BY <2>2, Branches, OnlyDoubtIsAbandoned
  <2>4. Follows(prev.status, d.status)
    <3>1. CASE d.status = "UNKNOWN"
      BY <2>1, <3>1, PhaseOfStatus, KindsOfMoves, SilentMovesExist DEF Follows
    <3>2. CASE d.status = "ABANDONED"
      BY <2>3, <3>2, PhaseOfStatus, KindsOfMoves, SilentMovesExist DEF Follows
    <3>3. QED BY <2>3, <3>1, <3>2
  <2>5. QED BY <2>3, <2>4 DEF Says, Kept
<1>4. CASE ~halted /\ ~changed /\ verdict = "MATCH"
  <2>1. d = MatchDecision(prev, TRUE)
    BY <1>4 DEF Reconcile
  <2>2. /\ d.status = "ACTIVE"
        /\ prev.status \in Outside => d.transitions = {"ENTER"}
        /\ prev.status = "UNKNOWN" => d.transitions = {"RESUMED"}
        /\ prev.status = "ACTIVE" => d.transitions = {}
    BY <2>1, Branches
  <2>3. Follows(prev.status, d.status) /\ Says(prev.status, d)
    <3>1. CASE prev.status = "UNKNOWN"
      BY <2>2, <3>1, PhaseOfStatus, KindsOfMoves, SilentMovesExist DEF Follows, Says
    <3>2. CASE prev.status = "ACTIVE"
      BY <2>2, <3>2, PhaseOfStatus, KindsOfMoves, SilentMovesExist DEF Follows, Says
    <3>3. CASE prev.status \in {"NONE", "INACTIVE"}
      BY <2>2, <3>3, PhaseOfStatus, KindsOfMoves, SilentMovesExist DEF Follows, Says, Outside
    <3>4. CASE prev.status = "ABANDONED"
      BY <2>2, <3>4, PhaseOfStatus, KindsOfMoves, SilentMovesExist DEF Follows, Says, Outside
    <3>5. CASE prev.status = "HALTED"
      BY <2>2, <3>5, PhaseOfStatus, KindsOfMoves, SilentMovesExist DEF Follows, Says, Outside
    <3>6. QED BY <3>1, <3>2, <3>3, <3>4, <3>5 DEF Kept
  <2>4. QED BY <2>2, <2>3 DEF Kept
<1>5. CASE ~halted /\ ~changed /\ verdict = "NO_MATCH"
  <2>1. prev.status \in {"ACTIVE", "UNKNOWN", "HALTED"}
    BY <1>5 DEF Kept
  <2>2. d = NoMatchDecision(prev)
    BY <1>5 DEF Reconcile
  <2>3. /\ d.status = "INACTIVE"
        /\ prev.status = "HALTED" => d.transitions = {}
        /\ prev.status = "UNKNOWN" => d.transitions = {"EXIT_INFERRED"}
        /\ prev.status = "ACTIVE" => d.transitions = {"EXIT"}
    BY <2>2, Branches
  <2>4. Follows(prev.status, d.status) /\ Says(prev.status, d)
    <3>1. CASE prev.status = "UNKNOWN"
      BY <2>3, <3>1, PhaseOfStatus, KindsOfMoves, SilentMovesExist DEF Follows, Says
    <3>2. CASE prev.status = "ACTIVE"
      BY <2>3, <3>2, PhaseOfStatus, KindsOfMoves, SilentMovesExist DEF Follows, Says
    <3>3. CASE prev.status = "HALTED"
      BY <2>3, <3>3, PhaseOfStatus, KindsOfMoves, SilentMovesExist DEF Follows, Says
    <3>4. QED BY <2>1, <3>1, <3>2, <3>3
  <2>5. QED BY <2>3, <2>4 DEF Kept
<1>6. QED BY <1>1, <1>2, <1>3, <1>4, <1>5 DEF Verdicts

-----------------------------------------------------------------------------
(* A worker that is alone.                                                 *)

\* It sees every row that is stored, and no row is SUPERSEDED.
SeesAll ==
    /\ \A w \in Workers, k \in Keys : pc[w] # "idle" /\ Present(k) => k \in visible[w]
    /\ \A k \in Keys : rows[k].status \in Kept

\* The status a worker that is alone decides on is the stored one.
LEMMA DecidesOnStored ==
    ASSUME IInv, SeesAll, NEW w \in Workers, pc[w] = "locked", NEW k \in Keys
    PROVE  stored[w][k].status = rows[k].status
BY DEF IInv, LockedRowsAreCurrent, SeesAll, Present, AbsentRow

\* What a commit of such a worker does to a key of its work.
LEMMA CommitFollows ==
    ASSUME Threshold > 1, IInv, SeesAll, NEW w \in Workers, Commit(w),
           NEW k \in Keys, k \in Work(run[w], stored[w]),
           NEW d, d = DecisionFor(run[w], stored[w], k)
    PROVE  /\ rows'[k].status = d.status
           /\ d.status \in Kept \ {"NONE"}
           /\ Follows(rows[k].status, d.status)
           /\ Says(rows[k].status, d)
<1> DEFINE r == run[w]
           old == stored[w]
           prev == [status |-> old[k].status, unknown |-> old[k].unknown]
<1>1. /\ pc[w] = "locked" /\ r \in Runs /\ old \in [Keys -> Rows]
  BY DEF Commit, IInv, TypeOK
<1>2. old[k].status = rows[k].status /\ rows[k].status \in Kept
  BY <1>1, DecidesOnStored DEF SeesAll
<1>3. prev \in Snapshots /\ prev.status = rows[k].status
  BY <1>1, <1>2 DEF Rows, Snapshots
<1>4. ObservedVerdict(r, k) \in Verdicts /\ r.halted \in BOOLEAN
      /\ ProducerChanged(old[k], r) \in BOOLEAN
  BY <1>1, DecisionType DEF ProducerChanged
<1>5. prev.status \in {"NONE", "INACTIVE", "ABANDONED"} =>
          ~ProducerChanged(old[k], r) /\ ObservedVerdict(r, k) = "MATCH"
  <2>1. k \in r.matched \/ old[k].status \in CurrentStatuses
    BY DEF Work
  <2>2. QED BY <2>1 DEF ProducerChanged, ObservedVerdict, CurrentStatuses
<1>6. d = Reconcile(prev, ObservedVerdict(r, k), TRUE, ProducerChanged(old[k], r), r.halted)
  BY DEF DecisionFor
<1>7. rows'[k].status = d.status
  BY DEF Commit, UpsertedRow
<1> HIDE DEF r, old, prev
<1>8. d.status \in Kept \ {"NONE"} /\ Follows(prev.status, d.status) /\ Says(prev.status, d)
  BY <1>2, <1>3, <1>4, <1>5, <1>6, DecisionFollows
<1>9. QED BY <1>3, <1>7, <1>8 DEF r, old

\* A worker that is alone stays one that sees everything.
LEMMA SeesAllStep ==
    ASSUME Threshold > 1, \A v, w \in Workers : v = w
    PROVE  IInv /\ SeesAll /\ [Next]_vars => SeesAll'
<1> SUFFICES ASSUME IInv, SeesAll, [Next]_vars PROVE SeesAll'
  OBVIOUS
<1>1. ASSUME NEW w \in Workers, NEW r \in Runs, OpenSnapshot(w, r) PROVE SeesAll'
  BY <1>1 DEF OpenSnapshot, SeesAll, Present, IInv, TypeOK, tables
<1>2. ASSUME NEW w \in Workers, LockRows(w) PROVE SeesAll'
  BY <1>2 DEF LockRows, SeesAll, Present, IInv, TypeOK, tables
<1>3. ASSUME NEW w \in Workers, Commit(w) PROVE SeesAll'
  <2>1. \A v \in Workers : pc'[v] = "idle"
    BY <1>3 DEF Commit, EndTransaction, IInv, TypeOK
  <2>2. ASSUME NEW k \in Keys PROVE rows'[k].status \in Kept
    <3>1. CASE k \in Work(run[w], stored[w])
      BY <1>3, <3>1, CommitFollows
    <3>2. CASE k \notin Work(run[w], stored[w])
      <4>1. rows'[k] = rows[k]
        BY <1>3, <3>2 DEF Commit
      <4>2. QED BY <4>1 DEF SeesAll
    <3>3. QED BY <3>1, <3>2
  <2>3. QED BY <2>1, <2>2 DEF SeesAll
<1>4. ASSUME NEW w \in Workers, Rollback(w) PROVE SeesAll'
  BY <1>4 DEF Rollback, EndTransaction, SeesAll, Present, IInv, TypeOK, tables
<1>5. CASE MarketOver \/ UNCHANGED vars
  BY <1>5 DEF MarketOver, vars, SeesAll, Present
<1>6. QED BY <1>1, <1>2, <1>3, <1>4, <1>5 DEF Next

-----------------------------------------------------------------------------
(* The refinement.                                                         *)

\* A commit is a step of the life cycle.
LEMMA CommitIsStep ==
    ASSUME Threshold > 1, IInv, SeesAll, NEW w \in Workers, Commit(w)
    PROVE  Lifecycle!Next
<1> DEFINE r == run[w]
           old == stored[w]
           before == [k \in Keys |-> PhaseOf(rows[k].status)]
           after == [k \in Keys |-> PhaseOf(rows'[k].status)]
<1>1. after \in [Keys -> Lifecycle!Phases]
  BY DEF PhaseOf, Lifecycle!Phases
<1>2. ASSUME NEW k \in Keys
      PROVE  after[k] = before[k] \/ <<before[k], after[k]>> \in Lifecycle!Moves
  <2>1. CASE k \in Work(r, old)
    <3>1. Follows(rows[k].status, rows'[k].status)
      BY <2>1, CommitFollows
    <3>2. QED BY <3>1 DEF Follows
  <2>2. CASE k \notin Work(r, old)
    <3>1. rows'[k] = rows[k]
      BY <2>2 DEF Commit
    <3>2. QED BY <3>1
  <2>3. QED BY <2>1, <2>2
<1>3. outbox' = outbox \cup NewMessages(r, old)
  BY DEF Commit
<1>4. ASSUME NEW m \in outbox' \ outbox
      PROVE  m.kind \in Lifecycle!KindsOf(<<before[m.key], after[m.key]>>)
  <2>1. PICK k \in Work(r, old) :
          /\ DecisionFor(r, old, k).notify
          /\ \E t \in DecisionFor(r, old, k).transitions :
               m = [key |-> k, kind |-> t, bar |-> r.bar]
    BY <1>3 DEF NewMessages
  <2>2. k \in Keys
    <3>1. r \in Runs
      BY DEF Commit, IInv, TypeOK
    <3>2. QED BY <3>1 DEF Work, Runs
  <2>3. m.key = k /\ m.kind \in DecisionFor(r, old, k).transitions
    BY <2>1
  <2>4. /\ rows'[k].status = DecisionFor(r, old, k).status
        /\ Says(rows[k].status, DecisionFor(r, old, k))
    BY <2>1, <2>2, CommitFollows
  <2>5. QED BY <2>1, <2>2, <2>3, <2>4 DEF Says
<1>5. after = before' /\ outbox \subseteq outbox'
  BY <1>3
<1> HIDE DEF r, old
<1>6. QED BY <1>1, <1>2, <1>4, <1>5 DEF Lifecycle!Next

\* Whatever else happens leaves phases and messages as they are.
LEMMA StepIsStep ==
    ASSUME Threshold > 1, IInv, SeesAll, [Next]_vars
    PROVE  [Lifecycle!Next]_<<[k \in Keys |-> PhaseOf(rows[k].status)], outbox>>
<1>1. ASSUME NEW w \in Workers, Commit(w) PROVE Lifecycle!Next
  BY <1>1, CommitIsStep
<1>2. CASE UNCHANGED <<rows, outbox>>
  BY <1>2
<1>3. QED BY <1>1, <1>2
        DEF Next, OpenSnapshot, LockRows, Rollback, MarketOver, tables, vars

\* Contract clauses 8 to 13: a single worker moves every key along the life cycle
\* and announces nothing but the moves it makes, in whatever order bars come.
THEOREM OneWorkerImplementsLifecycle ==
    ASSUME Threshold > 1, \A v, w \in Workers : v = w
    PROVE  Spec => ImplementsLifecycle
<1>1. Init => SeesAll
  BY DEF Init, SeesAll, Present, AbsentRow, Kept
<1>2. Init => Lifecycle!Init
  BY DEF Init, Lifecycle!Init, AbsentRow, PhaseOf
<1>3. IInv /\ SeesAll /\ [Next]_vars => SeesAll'
  BY SeesAllStep
<1>4. IInv /\ SeesAll /\ [Next]_vars =>
          [Lifecycle!Next]_<<[k \in Keys |-> PhaseOf(rows[k].status)], outbox>>
  BY StepIsStep
<1>5. QED BY <1>1, <1>2, <1>3, <1>4, IInvAlways, PTL DEF Spec, ImplementsLifecycle, Lifecycle!Spec

=============================================================================
