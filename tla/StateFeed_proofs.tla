-------------------------- MODULE StateFeed_proofs --------------------------
(***************************************************************************)
(* Theorems about StateStore for a single worker: what holds when a slice  *)
(* is only fed by its scan lane, for any number of keys, versions and bars *)
(* and any threshold.                                                      *)
(*                                                                         *)
(* A worker that is alone decides on the stored rows.  If it also evaluates*)
(* every bar once and in order, what a commit writes carries a bar that no *)
(* earlier entry or message has, so that no unique key drops it.           *)
(***************************************************************************)
EXTENDS StateStore_proofs

OneWorker == \A v, w \in Workers : v = w
EveryBarOnce == OneWorker /\ Replays = 0
NoHalts == Halting \subseteq {FALSE}
AllNotify == Notifying \subseteq {TRUE}

\* It sees every row.
WholeView ==
    /\ \A w \in Workers, k \in Keys : pc[w] # "idle" /\ Present(k) => k \in visible[w]
    /\ \A k \in Keys : ~Present(k) => rows[k] = AbsentRow

\* What is written is about past bars, what is evaluated about a newer one.
InOrder ==
    /\ \A w \in Workers : pc[w] # "idle" => run[w].bar > newest
    /\ \A k \in Keys : \A b \in doubtBars[k] : b <= newest
    /\ (\A e \in log : e.bar <= newest) /\ (\A m \in outbox : m.bar <= newest)

\* Without halts a state is over or runs.
Running == {"ACTIVE", "UNKNOWN"}
Over == {"NONE", "INACTIVE", "ABANDONED"}
NeverHalted == \A k \in Keys : rows[k].status \in Running \cup Over

\* A running state was announced.
RunningAreAnnounced ==
    \A k \in Keys : rows[k].status \in Running =>
        /\ told[k] = "in"
        /\ \E n \in outbox : n.key = k /\ n.kind \in InKinds

\* A state that is over and was announced has its end in the log.
Ends == OutKinds \cup {"ABANDONED", "SUPERSEDED"}
OverAreClosed ==
    \A m \in outbox : (m.kind = "ENTER" /\ rows[m.key].status \in Over) =>
        \E e \in log : e.key = m.key /\ m.bar < e.bar /\ e.kind \in Ends

FeedInv == IInv /\ WholeView /\ InOrder

-----------------------------------------------------------------------------
(* A worker that is alone.                                                 *)

\* It decides on what is stored.
LEMMA SoleWorkerReads ==
    ASSUME IInv, WholeView, NEW w \in Workers, pc[w] = "locked"
    PROVE  stored[w] = rows
<1>1. stored[w] \in [Keys -> Rows] /\ rows \in [Keys -> Rows]
  BY DEF IInv, TypeOK
<1>2. \A k \in Keys : stored[w][k] = rows[k]
  BY DEF IInv, LockedRowsAreCurrent, WholeView
<1>3. QED BY <1>1, <1>2

\* It goes on seeing everything.
LEMMA ViewStep ==
    ASSUME OneWorker
    PROVE  IInv /\ WholeView /\ [Next]_vars => WholeView'
<1> SUFFICES ASSUME IInv, WholeView, [Next]_vars PROVE WholeView'
  OBVIOUS
<1>1. ASSUME NEW w \in Workers, NEW r \in Runs, OpenSnapshot(w, r) PROVE WholeView'
  BY <1>1 DEF OneWorker, OpenSnapshot, WholeView, Present, IInv, TypeOK, tables
<1>2. ASSUME NEW w \in Workers, LockRows(w) PROVE WholeView'
  BY <1>2 DEF LockRows, WholeView, Present, IInv, TypeOK, tables
<1>3. ASSUME NEW w \in Workers, Commit(w) PROVE WholeView'
  <2>1. \A v \in Workers : pc'[v] = "idle"
    BY <1>3 DEF OneWorker, Commit, EndTransaction, IInv, TypeOK
  <2>2. ASSUME NEW k \in Keys, rows'[k].status = "NONE" PROVE rows'[k] = AbsentRow
    <3>1. run[w] \in Runs /\ stored[w] \in [Keys -> Rows]
      BY <1>3 DEF Commit, IInv, TypeOK
    <3>2. DecisionFor(run[w], stored[w], k).status # "NONE"
      BY <3>1, DecisionType DEF Decisions, Statuses
    <3>3. rows'[k] = rows[k]
      BY <1>3, <2>2, <3>2 DEF Commit, UpsertedRow
    <3>4. QED BY <2>2, <3>3 DEF WholeView, Present
  <2>3. QED BY <2>1, <2>2 DEF WholeView, Present
<1>4. ASSUME NEW w \in Workers, Rollback(w) PROVE WholeView'
  BY <1>4 DEF Rollback, EndTransaction, WholeView, Present, IInv, TypeOK, tables
<1>5. CASE MarketOver \/ UNCHANGED vars
  BY <1>5 DEF MarketOver, vars, WholeView, Present
<1>6. QED BY <1>1, <1>2, <1>3, <1>4, <1>5 DEF Next

\* Nothing is stored in the beginning.
LEMMA ViewInit == Init => WholeView
BY DEF Init, WholeView, Present

LEMMA ViewHolds ==
    ASSUME OneWorker
    PROVE  Spec => [](IInv /\ WholeView)
<1>1. IInv /\ WholeView /\ [Next]_vars => WholeView'
  BY ViewStep
<1>2. QED BY <1>1, ViewInit, IInvAlways, PTL DEF Spec

\* Contract clause 12: the step that moves a running state to another version or
\* ruleset announces nothing about it, whatever is repeated, silent or halted.
THEOREM UpgradesAreSilent ==
    ASSUME OneWorker
    PROVE  Spec => UpgradeIsSilent
<1> DEFINE Silent == \A k \in Keys :
        (rows[k].status \in CurrentStatuses /\ rows'[k].version # rows[k].version) =>
            \A m \in outbox' \ outbox : m.key # k
<1>1. ASSUME IInv, WholeView, [Next]_vars PROVE Silent
  <2> SUFFICES ASSUME NEW k \in Keys, rows[k].status \in CurrentStatuses,
                      rows'[k].version # rows[k].version,
                      NEW m \in outbox' \ outbox, m.key = k
               PROVE  FALSE
    OBVIOUS
  <2>1. PICK w \in Workers :
            /\ Commit(w) /\ pc[w] = "locked"
            /\ rows'[k] = UpsertedRow(run[w], stored[w][k],
                                      DecisionFor(run[w], stored[w], k))
    BY <1>1, RowsChangeByCommit
  <2>2. stored[w] = rows
    BY <1>1, <2>1, SoleWorkerReads
  <2>3. ProducerChanged(rows[k], run[w])
    BY <2>1, <2>2 DEF UpsertedRow, ProducerChanged, CurrentStatuses
  <2>4. ~DecisionFor(run[w], rows, k).notify
    BY <2>3 DEF DecisionFor, Reconcile, HaltDecision, UpgradeDecision, Decision
  <2>5. m \in NewMessages(run[w], rows)
    BY <2>1, <2>2 DEF Commit
  <2>6. QED BY <2>4, <2>5 DEF NewMessages
<1>2. QED BY <1>1, ViewHolds, PTL DEF Spec, UpgradeIsSilent

-----------------------------------------------------------------------------
(* Every bar once and in order.                                            *)

\* Bars that are evaluated are newer than all that was written.
LEMMA OrderStep ==
    ASSUME EveryBarOnce
    PROVE  IInv /\ InOrder /\ [Next]_vars => InOrder'
<1> SUFFICES ASSUME IInv, InOrder, [Next]_vars PROVE InOrder'
  OBVIOUS
<1>0. newest \in Nat /\ replays \in 0 .. 0
  BY DEF EveryBarOnce, IInv, TypeOK
<1>1. ASSUME NEW w \in Workers, NEW r \in Runs, OpenSnapshot(w, r) PROVE InOrder'
  <2>1. r.bar > newest
    BY <1>0, <1>1 DEF OpenSnapshot, EveryBarOnce
  <2>2. QED BY <1>1, <2>1 DEF OpenSnapshot, InOrder, IInv, TypeOK, tables, history
<1>2. ASSUME NEW w \in Workers, LockRows(w) PROVE InOrder'
  BY <1>2 DEF LockRows, InOrder, IInv, TypeOK, tables, history
<1>3. ASSUME NEW w \in Workers, Commit(w) PROVE InOrder'
  <2> DEFINE r == run[w]
             old == stored[w]
  <2>1. r.bar \in Nat /\ r.bar > newest /\ newest' = r.bar
    BY <1>3, DecisionType DEF Commit, InOrder, IInv, TypeOK, Bars, Runs
  <2>2. \A v \in Workers : pc'[v] = "idle"
    BY <1>3 DEF EveryBarOnce, OneWorker, Commit, EndTransaction, IInv, TypeOK
  <2>3. /\ log' = log \cup NewTransitions(r, old)
        /\ outbox' = outbox \cup NewMessages(r, old)
        /\ \A k \in Keys : doubtBars'[k] \subseteq doubtBars[k] \cup {r.bar}
    BY <1>3 DEF Commit, HistoryAfter
  <2>4. \A e \in NewTransitions(r, old) : e.bar = r.bar
    BY DEF NewTransitions
  <2>5. \A m \in NewMessages(r, old) : m.bar = r.bar
    BY DEF NewMessages
  <2>6. /\ \A k \in Keys : doubtBars[k] \subseteq Nat
        /\ (\A e \in log : e.bar \in Nat) /\ (\A m \in outbox : m.bar \in Nat)
    BY DEF IInv, TypeOK, LogEntries, Messages, Bars
  <2> HIDE DEF r, old
  <2>7. \A k \in Keys : \A b \in doubtBars'[k] : b <= newest'
    BY <1>0, <2>1, <2>3, <2>6 DEF InOrder
  <2>8. \A e \in log' : e.bar <= newest'
    BY <1>0, <2>1, <2>3, <2>4, <2>6 DEF InOrder
  <2>9. \A m \in outbox' : m.bar <= newest'
    BY <1>0, <2>1, <2>3, <2>5, <2>6 DEF InOrder
  <2>10. QED BY <2>2, <2>7, <2>8, <2>9 DEF InOrder
<1>4. ASSUME NEW w \in Workers, Rollback(w) PROVE InOrder'
  BY <1>4 DEF Rollback, EndTransaction, InOrder, IInv, TypeOK, tables, history
<1>5. CASE MarketOver \/ UNCHANGED vars
  BY <1>5 DEF MarketOver, vars, InOrder
<1>6. QED BY <1>1, <1>2, <1>3, <1>4, <1>5 DEF Next

LEMMA FeedHolds ==
    ASSUME EveryBarOnce
    PROVE  Spec => []FeedInv
<1>1. Init => InOrder
  BY DEF Init, InOrder
<1>2. IInv /\ InOrder /\ [Next]_vars => InOrder'
  BY OrderStep
<1>3. Spec => [](IInv /\ WholeView)
  BY ViewHolds DEF EveryBarOnce
<1>4. QED BY <1>1, <1>2, <1>3, PTL DEF Spec, FeedInv

\* What a commit does to a key that is not in its work.
LEMMA CommitSpares ==
    ASSUME FeedInv, NEW w \in Workers, Commit(w),
           NEW k \in Keys, k \notin Work(run[w], rows)
    PROVE  /\ rows'[k] = rows[k] /\ doubtBars'[k] = doubtBars[k] /\ told'[k] = told[k]
           /\ \A e \in log' : e.key = k => e \in log
           /\ \A m \in outbox' : m.key = k => m \in outbox
<1> DEFINE r == run[w]
<1>1. stored[w] = rows
  BY SoleWorkerReads DEF Commit, FeedInv
<1>2. /\ rows'[k] = rows[k] /\ doubtBars'[k] = doubtBars[k] /\ told' = ToldAfter(r, rows)
      /\ log' = log \cup NewTransitions(r, rows)
      /\ outbox' = outbox \cup NewMessages(r, rows)
  BY <1>1 DEF Commit, HistoryAfter
<1> HIDE DEF r
<1>3. \A e \in NewTransitions(r, rows) : e.key \in Work(r, rows)
  BY DEF NewTransitions
<1>4. \A m \in NewMessages(r, rows) : m.key \in Work(r, rows)
  BY DEF NewMessages
<1>5. told'[k] = told[k]
  BY <1>2, <1>4 DEF ToldAfter, r
<1>6. QED BY <1>2, <1>3, <1>4, <1>5 DEF r

\* What it does to a key of its work: the row, the entries and the messages are
\* those of the decision, and all of them are new.
LEMMA CommitDecides ==
    ASSUME FeedInv, NEW w \in Workers, Commit(w),
           NEW k \in Keys, k \in Work(run[w], rows),
           NEW r, r = run[w], NEW d, d = DecisionFor(r, rows, k)
    PROVE  /\ r \in Runs /\ rows[k] \in Rows /\ d \in Decisions
           /\ r.bar \in Nat /\ newest \in Nat /\ r.bar > newest
           /\ rows'[k] = UpsertedRow(r, rows[k], d)
           /\ log \subseteq log' /\ outbox \subseteq outbox'
           /\ \A e \in log' : e.key = k => \/ e \in log
                                           \/ /\ e.bar = r.bar /\ e.kind \in d.transitions
                                              /\ e.next = (d.status \in CurrentStatuses)
           /\ \A t \in d.transitions : \E e \in log' \ log :
                  /\ e.key = k /\ e.kind = t /\ e.bar = r.bar
                  /\ e.next = (d.status \in CurrentStatuses)
           /\ \A m \in outbox' : m.key = k =>
                  \/ m \in outbox
                  \/ /\ m \notin outbox /\ m.bar = r.bar
                     /\ m.kind \in d.transitions /\ d.notify
           /\ r.notify /\ d.notify => \A t \in d.transitions : \E m \in outbox' \ outbox :
                  m.key = k /\ m.kind = t /\ m.bar = r.bar
<1>1. stored[w] = rows /\ r \in Runs /\ rows \in [Keys -> Rows]
  BY SoleWorkerReads DEF Commit, FeedInv, IInv, TypeOK
<1>2. d \in Decisions /\ r.bar \in Nat /\ newest \in Nat
  BY <1>1, DecisionType DEF Bars, FeedInv, IInv, TypeOK
<1>3. r.bar > newest
  BY DEF Commit, FeedInv, InOrder
<1>4. /\ rows'[k] = UpsertedRow(r, rows[k], d)
      /\ log' = log \cup NewTransitions(r, rows)
      /\ outbox' = outbox \cup NewMessages(r, rows)
  BY <1>1 DEF Commit
<1>5. (\A e \in log : e.bar # r.bar) /\ (\A m \in outbox : m.bar # r.bar)
  <2>1. (\A e \in log : e.bar \in Nat) /\ (\A m \in outbox : m.bar \in Nat)
    BY DEF FeedInv, IInv, TypeOK, LogEntries, Messages, Bars
  <2>2. QED BY <1>2, <1>3, <2>1 DEF FeedInv, InOrder
<1>6. \A e \in NewTransitions(r, rows) : e.key = k =>
          /\ e.bar = r.bar /\ e.kind \in d.transitions
          /\ e.next = (d.status \in CurrentStatuses)
  BY DEF NewTransitions
<1>7. \A t \in d.transitions : \E e \in NewTransitions(r, rows) :
          /\ e.key = k /\ e.kind = t /\ e.bar = r.bar
          /\ e.next = (d.status \in CurrentStatuses)
  <2> SUFFICES ASSUME NEW t \in d.transitions
               PROVE  \E e \in NewTransitions(r, rows) :
                          /\ e.key = k /\ e.kind = t /\ e.bar = r.bar
                          /\ e.next = (d.status \in CurrentStatuses)
    OBVIOUS
  <2> DEFINE e == [key |-> k, kind |-> t, prior |-> rows[k].status # "NONE",
                   next |-> d.status \in CurrentStatuses,
                   bar |-> r.bar, version |-> r.version]
  <2>1. e \in NewTransitions(r, rows)
    BY DEF NewTransitions
  <2>2. /\ e.key = k /\ e.kind = t /\ e.bar = r.bar
        /\ e.next = (d.status \in CurrentStatuses)
    OBVIOUS
  <2> HIDE DEF e
  <2>3. QED BY <2>1, <2>2
<1>8. \A m \in NewMessages(r, rows) : /\ m.bar = r.bar
                                      /\ m.key = k => m.kind \in d.transitions /\ d.notify
  BY DEF NewMessages
<1>9. r.notify /\ d.notify => \A t \in d.transitions :
          \E m \in NewMessages(r, rows) : m.key = k /\ m.kind = t /\ m.bar = r.bar
  <2> SUFFICES ASSUME r.notify, d.notify, NEW t \in d.transitions
               PROVE  [key |-> k, kind |-> t, bar |-> r.bar] \in NewMessages(r, rows)
    OBVIOUS
  <2>1. k \in {j \in Work(r, rows) : DecisionFor(r, rows, j).notify /\ r.notify}
    OBVIOUS
  <2>2. QED BY <2>1 DEF NewMessages
<1>10. QED BY <1>1, <1>2, <1>3, <1>4, <1>5, <1>6, <1>7, <1>8, <1>9

\* Steps other than commits leave the tables and what was told alone.
LEMMA OnlyCommitsWrite ==
    ASSUME [Next]_vars, ~ \E w \in Workers : Commit(w)
    PROVE  UNCHANGED <<rows, log, outbox, told, doubtBars>>
BY DEF Next, OpenSnapshot, LockRows, Rollback, MarketOver, tables, history, vars

-----------------------------------------------------------------------------
(* How long a state is in doubt.                                           *)

\* Distinct elements of S can be numbered from 1 to n.
Counts(n, S) ==
    \E f \in [1 .. n -> S] :
        /\ \A b \in S : \E i \in DOMAIN f : f[i] = b
        /\ \A i, j \in DOMAIN f : f[i] = f[j] => i = j

\* One element, and one more.
LEMMA CountOne == ASSUME NEW b PROVE Counts(1, {b})
<1> DEFINE f == [i \in 1 .. 1 |-> b]
<1>1. f \in [1 .. 1 -> {b}]
  OBVIOUS
<1>2. \A x \in {b} : \E i \in DOMAIN f : f[i] = x
  <2>1. 1 \in DOMAIN f /\ f[1] = b
    OBVIOUS
  <2>2. QED BY <2>1
<1>3. \A i, j \in DOMAIN f : f[i] = f[j] => i = j
  OBVIOUS
<1> HIDE DEF f
<1>4. QED BY <1>1, <1>2, <1>3 DEF Counts

LEMMA CountMore ==
    ASSUME NEW n \in Nat, NEW S, NEW b, b \notin S, Counts(n, S)
    PROVE  Counts(n + 1, S \cup {b})
<1>1. PICK f \in [1 .. n -> S] :
        /\ \A x \in S : \E i \in DOMAIN f : f[i] = x
        /\ \A i, j \in DOMAIN f : f[i] = f[j] => i = j
  BY DEF Counts
<1> DEFINE g == [i \in 1 .. (n + 1) |-> IF i = n + 1 THEN b ELSE f[i]]
<1>2. DOMAIN g = 1 .. (n + 1) /\ g[n + 1] = b /\ \A i \in 1 .. n : g[i] = f[i] /\ g[i] \in S
  BY <1>1
<1>3. g \in [1 .. (n + 1) -> S \cup {b}]
  BY <1>1
<1>4. \A x \in S \cup {b} : \E i \in DOMAIN g : g[i] = x
  <2>1. \E i \in DOMAIN g : g[i] = b
    BY <1>2
  <2>2. ASSUME NEW x \in S PROVE \E i \in DOMAIN g : g[i] = x
    BY <1>1, <1>2
  <2>3. QED BY <2>1, <2>2
<1>5. ASSUME NEW i \in DOMAIN g, NEW j \in DOMAIN g, g[i] = g[j] PROVE i = j
  <2>1. i \in 1 .. n \/ i = n + 1
    BY <1>2
  <2>2. j \in 1 .. n \/ j = n + 1
    BY <1>2
  <2>3. QED BY <1>1, <1>2, <1>5, <2>1, <2>2
<1> HIDE DEF g
<1>6. QED BY <1>3, <1>4, <1>5 DEF Counts

\* A decision for doubt is made on missing data, and the count goes on from the
\* count of a row in doubt unless the producer changed.
LEMMA DoubtNeedsSilence ==
    ASSUME NEW r \in Runs, NEW old \in [Keys -> Rows], NEW k \in Keys,
           NEW d, d = DecisionFor(r, old, k), d.status \in {"UNKNOWN", "ABANDONED"}
    PROVE  /\ ObservedVerdict(r, k) = "UNKNOWN" /\ ~r.halted
           /\ d.unknown = IF old[k].status = "UNKNOWN" /\ ~ProducerChanged(old[k], r)
                          THEN old[k].unknown + 1 ELSE 1
<1> DEFINE prev == [status |-> old[k].status, unknown |-> old[k].unknown]
           verdict == ObservedVerdict(r, k)
           changed == ProducerChanged(old[k], r)
<1>1. verdict \in Verdicts /\ changed \in BOOLEAN
  BY DecisionType DEF ProducerChanged
<1>2. HaltDecision(prev).status = "HALTED"
  BY DEF HaltDecision, Decision
<1>3. UpgradeDecision(prev, verdict).status \in {"UNKNOWN", "ABANDONED"} =>
          verdict = "UNKNOWN" /\ UpgradeDecision(prev, verdict).unknown = 1
  BY <1>1 DEF UpgradeDecision, Decision, Verdicts
<1>4. DoubtDecision(prev).unknown =
          IF old[k].status = "UNKNOWN" THEN old[k].unknown + 1 ELSE 1
  BY DEF DoubtDecision, UnknownCount, Decision
<1>5. MatchDecision(prev, TRUE).status = "ACTIVE" /\ NoMatchDecision(prev).status = "INACTIVE"
  BY DEF MatchDecision, NoMatchDecision, Decision
<1>6. d = Reconcile(prev, verdict, TRUE, changed, r.halted)
  BY DEF DecisionFor
<1> HIDE DEF prev, verdict, changed
<1>7. ~r.halted
  BY <1>2, <1>6 DEF Reconcile
<1>8. CASE changed
  <2>1. d = UpgradeDecision(prev, verdict)
    BY <1>6, <1>7, <1>8 DEF Reconcile
  <2>2. QED BY <1>3, <1>7, <1>8, <2>1 DEF verdict, changed
<1>9. CASE ~changed
  <2>1. verdict = "UNKNOWN" /\ d = DoubtDecision(prev)
    BY <1>5, <1>6, <1>7, <1>9 DEF Reconcile
  <2>2. QED BY <1>4, <1>7, <1>9, <2>1 DEF verdict, changed
<1>10. QED BY <1>1, <1>8, <1>9

\* unknown_bars is the number of bars for which a state has been in doubt, whatever
\* versions, halts and rollbacks come between: no bar counts twice, none is missed.
THEOREM DoubtIsCounted ==
    ASSUME EveryBarOnce
    PROVE  Spec => []DoubtCountsBars
<1> DEFINE Counted(k) == rows[k].status \in {"UNKNOWN", "ABANDONED"} =>
                             Counts(rows[k].unknown, doubtBars[k])
<1>1. Init => \A k \in Keys : Counted(k)
  BY DEF Init, AbsentRow
<1>2. ASSUME FeedInv, [Next]_vars, NEW k \in Keys, Counted(k) PROVE Counted(k)'
  <2>1. ASSUME NEW w \in Workers, Commit(w), k \in Work(run[w], rows),
               rows'[k].status \in {"UNKNOWN", "ABANDONED"}
        PROVE  Counts(rows'[k].unknown, doubtBars'[k])
    <3> DEFINE r == run[w]
               d == DecisionFor(r, rows, k)
    <3>1. /\ r \in Runs /\ rows \in [Keys -> Rows] /\ rows[k].unknown \in Nat
          /\ r.bar \in Nat /\ newest \in Nat /\ r.bar > newest
          /\ rows'[k].status = d.status /\ rows'[k].unknown = d.unknown
      <4>1. /\ r \in Runs /\ rows[k] \in Rows
            /\ r.bar \in Nat /\ newest \in Nat /\ r.bar > newest
            /\ rows'[k] = UpsertedRow(r, rows[k], d)
        BY <1>2, <2>1, CommitDecides
      <4> HIDE DEF r, d
      <4>2. QED BY <1>2, <4>1 DEF FeedInv, IInv, TypeOK, UpsertedRow, Rows
    <3>2. /\ ObservedVerdict(r, k) = "UNKNOWN" /\ ~r.halted
          /\ d.unknown = IF rows[k].status = "UNKNOWN" /\ ~ProducerChanged(rows[k], r)
                         THEN rows[k].unknown + 1 ELSE 1
      BY <2>1, <3>1, DoubtNeedsSilence
    <3>3. doubtBars'[k] = IF rows[k].status = "UNKNOWN" /\ ~ProducerChanged(rows[k], r)
                          THEN doubtBars[k] \cup {r.bar} ELSE {r.bar}
      <4>1. stored[w] = rows
        BY <1>2, <2>1, SoleWorkerReads DEF Commit, FeedInv
      <4>2. QED BY <2>1, <3>2, <4>1 DEF Commit, HistoryAfter
    <3>4. r.bar \notin doubtBars[k]
      <4>1. \A b \in doubtBars[k] : b \in Nat /\ b <= newest
        BY <1>2 DEF FeedInv, InOrder, IInv, TypeOK, Bars
      <4>2. QED BY <3>1, <4>1
    <3> HIDE DEF r, d
    <3>5. CASE rows[k].status = "UNKNOWN" /\ ~ProducerChanged(rows[k], r)
      BY <1>2, <3>1, <3>2, <3>3, <3>4, <3>5, CountMore
    <3>6. CASE ~(rows[k].status = "UNKNOWN" /\ ~ProducerChanged(rows[k], r))
      <4>1. rows'[k].unknown = 1 /\ doubtBars'[k] = {r.bar}
        BY <3>1, <3>2, <3>3, <3>6
      <4>2. QED BY <4>1, CountOne
    <3>7. QED BY <3>5, <3>6
  <2>2. ASSUME NEW w \in Workers, Commit(w), k \notin Work(run[w], rows)
        PROVE  Counted(k)'
    BY <1>2, <2>2, CommitSpares
  <2>3. CASE ~ \E w \in Workers : Commit(w)
    BY <1>2, <2>3, OnlyCommitsWrite
  <2>4. QED BY <2>1, <2>2, <2>3
<1>3. FeedInv /\ (\A k \in Keys : Counted(k)) /\ [Next]_vars => (\A k \in Keys : Counted(k))'
  BY <1>2
<1>4. (\A k \in Keys : Counted(k)) => DoubtCountsBars
  BY DEF DoubtCountsBars, Counts
<1> HIDE DEF Counted
<1>5. QED BY <1>1, <1>3, <1>4, FeedHolds, PTL DEF Spec

-----------------------------------------------------------------------------
(* What subscribers are told and what the log says, when nothing halts.    *)

\* The decisions about a key of the work of a run.
Enters(d) == d = Decision("ACTIVE", 0, {"ENTER"}, TRUE)
Resumes(d) == d = Decision("ACTIVE", 0, {"RESUMED"}, TRUE)
Stays(d, status) == d.status = status /\ d.transitions = {} /\ ~d.notify
Exits(d) ==
    \/ d = Decision("INACTIVE", 0, {"EXIT"}, TRUE)
    \/ d = Decision("INACTIVE", 0, {"EXIT_INFERRED"}, TRUE)
Adopts(d) ==
    \/ d = Decision("ACTIVE", 0, {"SUPERSEDED", "ADOPTED"}, FALSE)
    \/ d = Decision("INACTIVE", 0, {"SUPERSEDED"}, FALSE)
    \/ d = Decision("UNKNOWN", 1, {"SUPERSEDED"}, FALSE)
Doubts(d) == d.status = "UNKNOWN" /\ d.transitions = {"UNKNOWN"} /\ ~d.notify
GivesUp(d) == d.status = "ABANDONED" /\ d.transitions = {"ABANDONED"} /\ ~d.notify

LEMMA LaneDecisions ==
    ASSUME NEW r \in Runs, ~r.halted, NEW old \in [Keys -> Rows],
           NEW k \in Keys, k \in Work(r, old), old[k].status \in Running \cup Over,
           NEW d, d = DecisionFor(r, old, k)
    PROVE  /\ old[k].status \in Over => Enters(d)
           /\ old[k].status = "ACTIVE" =>
                Stays(d, "ACTIVE") \/ Exits(d) \/ Adopts(d) \/ Doubts(d) \/ GivesUp(d)
           /\ old[k].status = "UNKNOWN" =>
                \/ Resumes(d) \/ Stays(d, "UNKNOWN")
                \/ Exits(d) \/ Adopts(d) \/ GivesUp(d)
<1> DEFINE prev == [status |-> old[k].status, unknown |-> old[k].unknown]
           verdict == ObservedVerdict(r, k)
           changed == ProducerChanged(old[k], r)
<1>1. verdict \in Verdicts /\ changed \in BOOLEAN
  BY DecisionType DEF ProducerChanged
<1>2. d = Reconcile(prev, verdict, TRUE, changed, r.halted) /\ ~r.halted
  BY DEF DecisionFor
<1>3. old[k].status \in Over => ~changed /\ verdict = "MATCH"
  BY DEF Over, Work, CurrentStatuses, ProducerChanged, ObservedVerdict
<1>4. prev.status = old[k].status
  OBVIOUS
<1> HIDE DEF prev, verdict, changed
<1>5. CASE old[k].status \in Over
  <2>1. d = MatchDecision(prev, TRUE)
    BY <1>2, <1>3, <1>5 DEF Reconcile
  <2>2. prev.status \in Outside
    BY <1>4, <1>5 DEF Over, Outside
  <2>3. Enters(d)
    BY <2>1, <2>2 DEF MatchDecision, Enters
  <2>4. QED BY <1>5, <2>3 DEF Over
<1>6. CASE changed /\ old[k].status \in Running
  <2>1. d = UpgradeDecision(prev, verdict)
    BY <1>2, <1>6 DEF Reconcile
  <2>2. Adopts(d)
    BY <1>1, <1>4, <1>6, <2>1
      DEF UpgradeDecision, Decision, Adopts, Running, Verdicts
  <2>3. QED BY <1>6, <2>2 DEF Running, Over
<1>7. CASE ~changed /\ verdict = "UNKNOWN" /\ old[k].status \in Running
  <2>1. d = DoubtDecision(prev)
    BY <1>2, <1>7 DEF Reconcile
  <2>2. QED BY <1>4, <1>7, <2>1
          DEF DoubtDecision, Decision, Doubts, GivesUp, Stays, Running, Over
<1>8. CASE ~changed /\ verdict = "MATCH" /\ old[k].status \in Running
  <2>1. d = MatchDecision(prev, TRUE)
    BY <1>2, <1>8 DEF Reconcile
  <2>2. QED BY <1>4, <1>8, <2>1
          DEF MatchDecision, Decision, Resumes, Stays, Running, Over, Outside
<1>9. CASE ~changed /\ verdict = "NO_MATCH" /\ old[k].status \in Running
  <2>1. d = NoMatchDecision(prev)
    BY <1>2, <1>9 DEF Reconcile
  <2>2. QED BY <1>4, <1>9, <2>1
          DEF NoMatchDecision, Decision, Exits, Running, Over, Outside
<1>10. QED BY <1>1, <1>5, <1>6, <1>7, <1>8, <1>9 DEF Verdicts

\* The runs of a feed without halts.
LEMMA RunsAreQuiet ==
    ASSUME NoHalts, NEW r \in Runs
    PROVE  ~r.halted
BY DEF NoHalts, Runs

LEMMA RunsAreLoud ==
    ASSUME AllNotify, NEW r \in Runs
    PROVE  r.notify
BY DEF AllNotify, Runs

\* Without halts no row is HALTED.
LEMMA NeverHaltedStep ==
    ASSUME NoHalts
    PROVE  FeedInv /\ NeverHalted /\ [Next]_vars => NeverHalted'
<1> SUFFICES ASSUME FeedInv, NeverHalted, [Next]_vars, NEW k \in Keys
             PROVE  rows'[k].status \in Running \cup Over
  BY DEF NeverHalted
<1>1. ASSUME NEW w \in Workers, Commit(w), k \in Work(run[w], rows)
      PROVE  rows'[k].status \in Running \cup Over
  <2> DEFINE d == DecisionFor(run[w], rows, k)
  <2>1. run[w] \in Runs /\ rows \in [Keys -> Rows] /\ rows'[k].status = d.status
    <3>1. run[w] \in Runs /\ rows'[k] = UpsertedRow(run[w], rows[k], d)
      BY <1>1, CommitDecides
    <3>2. QED BY <3>1 DEF FeedInv, IInv, TypeOK, UpsertedRow
  <2>2. /\ rows[k].status \in Over => Enters(d)
        /\ rows[k].status = "ACTIVE" =>
             Stays(d, "ACTIVE") \/ Exits(d) \/ Adopts(d) \/ Doubts(d) \/ GivesUp(d)
        /\ rows[k].status = "UNKNOWN" =>
             Resumes(d) \/ Stays(d, "UNKNOWN") \/ Exits(d) \/ Adopts(d) \/ GivesUp(d)
    <3>1. ~run[w].halted /\ rows[k].status \in Running \cup Over
      BY <2>1, RunsAreQuiet DEF NeverHalted
    <3>2. QED BY <1>1, <2>1, <3>1, LaneDecisions
  <2> HIDE DEF d
  <2>3. d.status \in Running \cup Over
    BY <2>2 DEF NeverHalted, Running, Over, Enters, Resumes, Stays, Exits, Adopts,
                Doubts, GivesUp, Decision
  <2>4. QED BY <2>1, <2>3
<1>2. ASSUME NEW w \in Workers, Commit(w), k \notin Work(run[w], rows)
      PROVE  rows'[k] = rows[k]
  BY <1>2, CommitSpares
<1>3. CASE ~ \E w \in Workers : Commit(w)
  BY <1>3, OnlyCommitsWrite DEF NeverHalted
<1>4. QED BY <1>1, <1>2, <1>3 DEF NeverHalted

\* What a decision about a key of the work can be, with the effects of its commit.
LEMMA LaneCommit ==
    ASSUME NoHalts, FeedInv, NeverHalted, NEW w \in Workers, Commit(w),
           NEW k \in Keys, k \in Work(run[w], rows),
           NEW d, d = DecisionFor(run[w], rows, k)
    PROVE  /\ run[w] \in Runs /\ rows'[k].status = d.status
           /\ rows[k].status \in Over => Enters(d)
           /\ rows[k].status = "ACTIVE" =>
                Stays(d, "ACTIVE") \/ Exits(d) \/ Adopts(d) \/ Doubts(d) \/ GivesUp(d)
           /\ rows[k].status = "UNKNOWN" =>
                Resumes(d) \/ Stays(d, "UNKNOWN") \/ Exits(d) \/ Adopts(d) \/ GivesUp(d)
           /\ rows[k].status \in Running \cup Over
<1>1. /\ run[w] \in Runs /\ rows \in [Keys -> Rows]
      /\ rows'[k].status = d.status
  <2>1. run[w] \in Runs /\ rows'[k] = UpsertedRow(run[w], rows[k], d)
    BY CommitDecides
  <2>2. QED BY <2>1 DEF FeedInv, IInv, TypeOK, UpsertedRow
<1>2. ~run[w].halted /\ rows[k].status \in Running \cup Over
  BY <1>1, RunsAreQuiet DEF NeverHalted
<1>3. QED BY <1>1, <1>2, LaneDecisions

\* What is told of a key is what the new messages about it say.
LEMMA CommitTells ==
    ASSUME FeedInv, NEW w \in Workers, Commit(w), NEW k \in Keys
    PROVE  told'[k] =
             IF \E m \in outbox' \ outbox : m.key = k /\ m.kind \in InKinds THEN "in"
             ELSE IF \E m \in outbox' \ outbox : m.key = k /\ m.kind \in OutKinds THEN "out"
             ELSE told[k]
<1>1. stored[w] = rows
  BY SoleWorkerReads DEF Commit, FeedInv
<1>2. told' = ToldAfter(run[w], rows) /\ outbox' \ outbox = NewMessages(run[w], rows) \ outbox
  BY <1>1 DEF Commit, HistoryAfter
<1>3. QED BY <1>2 DEF ToldAfter

LEMMA LaneHolds ==
    ASSUME EveryBarOnce, NoHalts
    PROVE  Spec => [](FeedInv /\ NeverHalted)
<1>1. Init => NeverHalted
  BY DEF Init, NeverHalted, AbsentRow, Over
<1>2. FeedInv /\ NeverHalted /\ [Next]_vars => NeverHalted'
  BY NeverHaltedStep
<1>3. QED BY <1>1, <1>2, FeedHolds, PTL DEF Spec

\* A running state stays announced: it came to run by an entry or a resumption that
\* was sent, and what happens silently leaves it as it was told.
LEMMA AnnouncedStep ==
    ASSUME NoHalts, AllNotify
    PROVE  FeedInv /\ NeverHalted /\ RunningAreAnnounced /\ [Next]_vars => RunningAreAnnounced'
<1> SUFFICES ASSUME FeedInv, NeverHalted, RunningAreAnnounced, [Next]_vars,
                    NEW k \in Keys, rows'[k].status \in Running
             PROVE  /\ told'[k] = "in"
                    /\ \E n \in outbox' : n.key = k /\ n.kind \in InKinds
  BY DEF RunningAreAnnounced
<1>1. ASSUME NEW w \in Workers, Commit(w), k \in Work(run[w], rows)
      PROVE  /\ told'[k] = "in"
             /\ \E n \in outbox' : n.key = k /\ n.kind \in InKinds
  <2> DEFINE d == DecisionFor(run[w], rows, k)
  <2>1. /\ run[w] \in Runs /\ rows'[k].status = d.status
        /\ rows[k].status \in Over => Enters(d)
        /\ rows[k].status = "ACTIVE" =>
             Stays(d, "ACTIVE") \/ Exits(d) \/ Adopts(d) \/ Doubts(d) \/ GivesUp(d)
        /\ rows[k].status = "UNKNOWN" =>
             Resumes(d) \/ Stays(d, "UNKNOWN") \/ Exits(d) \/ Adopts(d) \/ GivesUp(d)
        /\ rows[k].status \in Running \cup Over
    BY <1>1, LaneCommit
  <2>2. /\ outbox \subseteq outbox'
        /\ \A m \in outbox' : m.key = k => m \in outbox \/ d.notify
        /\ d.notify => \A t \in d.transitions : \E m \in outbox' \ outbox : m.key = k /\ m.kind = t
    BY <1>1, <2>1, CommitDecides, RunsAreLoud
  <2> HIDE DEF d
  <2>3. CASE Enters(d) \/ Resumes(d)
    <3>1. \E m \in outbox' \ outbox : m.key = k /\ m.kind \in InKinds
      BY <2>2, <2>3 DEF Enters, Resumes, Decision, InKinds
    <3>2. QED BY <1>1, <3>1, CommitTells
  <2>4. CASE ~d.notify /\ rows[k].status \in Running
    <3>1. told'[k] = told[k]
      BY <1>1, <2>2, <2>4, CommitTells
    <3>2. QED BY <2>2, <2>4, <3>1 DEF RunningAreAnnounced
  <2>5. d.status \in Running
    BY <2>1
  <2>6. QED BY <2>1, <2>3, <2>4, <2>5
          DEF Running, Stays, Exits, Adopts, Doubts, GivesUp, Decision
<1>2. ASSUME NEW w \in Workers, Commit(w), k \notin Work(run[w], rows)
      PROVE  /\ told'[k] = "in"
             /\ \E n \in outbox' : n.key = k /\ n.kind \in InKinds
  <2>1. rows'[k] = rows[k] /\ told'[k] = told[k] /\ outbox \subseteq outbox'
    BY <1>2, CommitSpares DEF Commit
  <2>2. QED BY <2>1 DEF RunningAreAnnounced
<1>3. CASE ~ \E w \in Workers : Commit(w)
  BY <1>3, OnlyCommitsWrite DEF RunningAreAnnounced
<1>4. QED BY <1>1, <1>2, <1>3

LEMMA AnnouncedHolds ==
    ASSUME EveryBarOnce, NoHalts, AllNotify
    PROVE  Spec => [](FeedInv /\ NeverHalted /\ RunningAreAnnounced)
<1>1. Init => RunningAreAnnounced
  BY DEF Init, RunningAreAnnounced, AbsentRow, Running
<1>2. FeedInv /\ NeverHalted /\ RunningAreAnnounced /\ [Next]_vars => RunningAreAnnounced'
  BY AnnouncedStep
<1>3. QED BY <1>1, <1>2, LaneHolds, PTL DEF Spec

\* Who follows the messages believes every active state to be active, although
\* versions change hands silently and doubt is not announced.
THEOREM ActivesAreTold ==
    ASSUME EveryBarOnce, NoHalts, AllNotify
    PROVE  Spec => []ActiveIsTold
<1>1. RunningAreAnnounced => ActiveIsTold
  BY DEF RunningAreAnnounced, ActiveIsTold, Running
<1>2. QED BY <1>1, AnnouncedHolds, PTL

\* Nobody is told that a state ended that was never announced.
THEOREM EndsFollowBeginnings ==
    ASSUME EveryBarOnce, NoHalts, AllNotify
    PROVE  Spec => []EndsAreOfAnnouncedStates
<1>1. Init => EndsAreOfAnnouncedStates
  BY DEF Init, EndsAreOfAnnouncedStates
<1>2. ASSUME FeedInv, NeverHalted, RunningAreAnnounced, EndsAreOfAnnouncedStates, [Next]_vars
      PROVE  EndsAreOfAnnouncedStates'
  <2> SUFFICES ASSUME NEW m \in outbox', m.kind \in OutKinds
               PROVE  \E n \in outbox' : n.key = m.key /\ n.kind \in InKinds /\ n.bar < m.bar
    BY DEF EndsAreOfAnnouncedStates
  <2>1. outbox \subseteq outbox' /\ m.key \in Keys
    <3>1. TypeOK'
      BY <1>2, TypeStep DEF FeedInv, IInv
    <3>2. m.key \in Keys
      BY <3>1 DEF TypeOK, Messages
    <3>3. outbox \subseteq outbox'
      BY <1>2, OnlyCommitsWrite DEF Commit
    <3>4. QED BY <3>2, <3>3
  <2>2. CASE m \in outbox
    BY <1>2, <2>1, <2>2 DEF EndsAreOfAnnouncedStates
  <2>3. CASE m \notin outbox
    <3> DEFINE k == m.key
    <3>1. PICK w \in Workers : Commit(w)
      BY <1>2, <2>3, OnlyCommitsWrite
    <3>2. k \in Work(run[w], rows)
      BY <1>2, <2>1, <2>3, <3>1, CommitSpares
    <3> DEFINE d == DecisionFor(run[w], rows, k)
    <3>3. /\ newest \in Nat /\ m.bar \in Nat /\ m.bar > newest
          /\ m.kind \in d.transitions /\ d.notify
      BY <1>2, <2>1, <2>3, <3>1, <3>2, CommitDecides
    <3>4. /\ rows[k].status \in Over => Enters(d)
          /\ rows[k].status \in Running \cup Over
      BY <1>2, <2>1, <3>1, <3>2, LaneCommit
    <3> HIDE DEF d, k
    <3>5. rows[k].status \in Running
      BY <3>3, <3>4 DEF Enters, Decision, OutKinds
    <3>6. PICK n \in outbox : n.key = k /\ n.kind \in InKinds
      BY <1>2, <2>1, <3>5 DEF RunningAreAnnounced, k
    <3>7. n.bar \in Nat /\ n.bar <= newest
      BY <1>2 DEF FeedInv, InOrder, IInv, TypeOK, Messages, Bars
    <3>8. QED BY <2>1, <3>3, <3>6, <3>7 DEF k
  <2>4. QED BY <2>2, <2>3
<1>3. QED BY <1>1, <1>2, AnnouncedHolds, PTL DEF Spec

\* When a state is over, the log holds an end that is newer than its entries: each
\* decision that ends a running state logs one, also the silent ones.
LEMMA ClosedStep ==
    ASSUME NoHalts
    PROVE  FeedInv /\ NeverHalted /\ OverAreClosed /\ [Next]_vars => OverAreClosed'
<1> SUFFICES ASSUME FeedInv, NeverHalted, OverAreClosed, [Next]_vars,
                    NEW m \in outbox', m.kind = "ENTER", rows'[m.key].status \in Over
             PROVE  \E e \in log' : e.key = m.key /\ m.bar < e.bar /\ e.kind \in Ends
  BY DEF OverAreClosed
<1> DEFINE k == m.key
<1>1. k \in Keys
  <2>1. TypeOK'
    BY TypeStep DEF FeedInv, IInv
  <2>2. QED BY <2>1 DEF TypeOK, Messages
<1>2. ASSUME NEW w \in Workers, Commit(w), k \in Work(run[w], rows)
      PROVE  \E e \in log' : e.key = k /\ m.bar < e.bar /\ e.kind \in Ends
  <2> DEFINE r == run[w]
             d == DecisionFor(run[w], rows, k)
  <2>1. /\ rows'[k].status = d.status
        /\ rows[k].status \in Over => Enters(d)
        /\ rows[k].status = "ACTIVE" =>
             Stays(d, "ACTIVE") \/ Exits(d) \/ Adopts(d) \/ Doubts(d) \/ GivesUp(d)
        /\ rows[k].status = "UNKNOWN" =>
             Resumes(d) \/ Stays(d, "UNKNOWN") \/ Exits(d) \/ Adopts(d) \/ GivesUp(d)
        /\ rows[k].status \in Running \cup Over
    BY <1>1, <1>2, LaneCommit
  <2>2. /\ r.bar \in Nat /\ newest \in Nat /\ r.bar > newest
        /\ \A t \in d.transitions : \E e \in log' : e.key = k /\ e.kind = t /\ e.bar = r.bar
        /\ m \in outbox \/ m.kind \in d.transitions
    BY <1>1, <1>2, CommitDecides
  <2> HIDE DEF r, d
  <2>3. d.status \in Over
    BY <2>1
  <2>4. \E t \in d.transitions : t \in Ends
    BY <2>1, <2>3 DEF Running, Over, Enters, Stays, Exits, Adopts, Doubts, GivesUp, Resumes,
                      Decision, Ends, OutKinds
  <2>5. m \in outbox
    BY <2>1, <2>2, <2>3 DEF Running, Over, Enters, Stays, Exits, Adopts, Doubts, GivesUp,
                            Resumes, Decision
  <2>6. m.bar \in Nat /\ m.bar <= newest
    BY <2>5 DEF FeedInv, InOrder, IInv, TypeOK, Messages, Bars
  <2>7. QED BY <2>2, <2>4, <2>6
<1>3. ASSUME NEW w \in Workers, Commit(w), k \notin Work(run[w], rows)
      PROVE  \E e \in log' : e.key = k /\ m.bar < e.bar /\ e.kind \in Ends
  <2>1. rows'[k] = rows[k] /\ m \in outbox /\ log \subseteq log'
    BY <1>1, <1>3, CommitSpares DEF Commit
  <2>2. QED BY <2>1 DEF OverAreClosed
<1>4. CASE ~ \E w \in Workers : Commit(w)
  BY <1>4, OnlyCommitsWrite DEF OverAreClosed
<1>5. QED BY <1>2, <1>3, <1>4

\* Between two announced entries the log shows how the first one ended, although
\* upgrades, give-ups and silent runs announce no end.
THEOREM EpisodesAreClosed ==
    ASSUME EveryBarOnce, NoHalts
    PROVE  Spec => []OneEntryPerEpisode
<1>1. Init => OverAreClosed /\ OneEntryPerEpisode
  BY DEF Init, OverAreClosed, OneEntryPerEpisode
<1>2. ASSUME FeedInv, NeverHalted, OverAreClosed, OneEntryPerEpisode, [Next]_vars
      PROVE  OneEntryPerEpisode'
  <2> SUFFICES ASSUME NEW m \in outbox', NEW n \in outbox', m.key = n.key,
                      m.kind = "ENTER", n.kind = "ENTER", m.bar < n.bar
               PROVE  \E e \in log' : /\ e.key = m.key /\ m.bar < e.bar /\ e.bar < n.bar
                                      /\ e.kind \in Ends
    BY DEF OneEntryPerEpisode, Ends
  <2>1. outbox \subseteq outbox' /\ log \subseteq log' /\ m.key \in Keys
    <3>1. TypeOK'
      BY <1>2, TypeStep DEF FeedInv, IInv
    <3>2. m.key \in Keys
      BY <3>1 DEF TypeOK, Messages
    <3>3. outbox \subseteq outbox' /\ log \subseteq log'
      BY <1>2, OnlyCommitsWrite DEF Commit
    <3>4. QED BY <3>2, <3>3
  <2>2. /\ \A x \in outbox : x.bar \in Nat /\ x.bar <= newest
        /\ \A e \in log : e.bar \in Nat /\ e.bar <= newest
        /\ newest \in Nat
    BY <1>2 DEF FeedInv, InOrder, IInv, TypeOK, Messages, LogEntries, Bars
  <2>3. CASE n \in outbox /\ m \in outbox
    BY <1>2, <2>1, <2>3 DEF OneEntryPerEpisode, Ends
  <2>4. CASE ~(n \in outbox /\ m \in outbox)
    <3> DEFINE k == m.key
    <3>1. PICK w \in Workers : Commit(w)
      BY <1>2, <2>4, OnlyCommitsWrite
    <3>2. k \in Work(run[w], rows)
      BY <1>2, <2>1, <2>4, <3>1, CommitSpares
    <3> DEFINE r == run[w]
               d == DecisionFor(run[w], rows, k)
    <3>3. /\ r.bar \in Nat /\ r.bar > newest
          /\ \A x \in outbox' : x.key = k =>
               x \in outbox \/ (x.bar = r.bar /\ x.kind \in d.transitions)
      BY <1>2, <2>1, <3>1, <3>2, CommitDecides
    <3>4. /\ rows[k].status = "ACTIVE" =>
               Stays(d, "ACTIVE") \/ Exits(d) \/ Adopts(d) \/ Doubts(d) \/ GivesUp(d)
          /\ rows[k].status = "UNKNOWN" =>
               Resumes(d) \/ Stays(d, "UNKNOWN") \/ Exits(d) \/ Adopts(d) \/ GivesUp(d)
          /\ rows[k].status \in Running \cup Over
      BY <1>2, <2>1, <3>1, <3>2, LaneCommit
    <3> HIDE DEF r, d
    <3>5. n.bar = r.bar /\ "ENTER" \in d.transitions /\ m \in outbox
      BY <2>2, <2>4, <3>3
    <3>6. rows[k].status \in Over
      BY <3>4, <3>5 DEF Running, Stays, Exits, Adopts, Doubts, GivesUp, Resumes, Decision
    <3>7. PICK e \in log : e.key = m.key /\ m.bar < e.bar /\ e.kind \in Ends
      BY <1>2, <3>5, <3>6 DEF OverAreClosed
    <3>8. e.bar \in Nat /\ e.bar <= newest
      BY <2>2
    <3>9. e.bar < n.bar
      BY <2>2, <3>3, <3>5, <3>8
    <3>10. QED BY <2>1, <3>7, <3>9
  <2>5. QED BY <2>3, <2>4
<1>3. FeedInv /\ NeverHalted /\ OverAreClosed /\ [Next]_vars => OverAreClosed'
  BY ClosedStep
<1>4. QED BY <1>1, <1>2, <1>3, LaneHolds, PTL DEF Spec

-----------------------------------------------------------------------------
(* The log alone.                                                          *)

\* The entries of a decision say which status it leads to.
LEMMA EntriesLead ==
    ASSUME NEW d, d \in Decisions, d.transitions # {},
           Enters(d) \/ Resumes(d) \/ Exits(d) \/ Adopts(d) \/ Doubts(d) \/ GivesUp(d),
           NEW E,
           \A e \in E : /\ e.kind \in d.transitions
                        /\ e.next = (d.status \in CurrentStatuses),
           \A t \in d.transitions : \E e \in E : e.kind = t
    PROVE  LeavesIn(E, d.status)
<1>1. /\ "ENTER" \in KindsLeading["ACTIVE"] /\ "RESUMED" \in KindsLeading["ACTIVE"]
      /\ "ADOPTED" \in KindsLeading["ACTIVE"]
      /\ "EXIT" \in KindsLeading["INACTIVE"] /\ "EXIT_INFERRED" \in KindsLeading["INACTIVE"]
      /\ "UNKNOWN" \in KindsLeading["UNKNOWN"]
      /\ "ABANDONED" \in KindsLeading["ABANDONED"]
  BY DEF KindsLeading, OutKinds
<1>2. CASE \E t \in d.transitions : t \in KindsLeading[d.status]
  <2>1. PICK e \in E : e.kind \in KindsLeading[d.status]
    BY <1>2
  <2>2. QED BY <2>1 DEF LeavesIn
<1>3. CASE ~ \E t \in d.transitions : t \in KindsLeading[d.status]
  <2>1. \/ d = Decision("INACTIVE", 0, {"SUPERSEDED"}, FALSE)
        \/ d = Decision("UNKNOWN", 1, {"SUPERSEDED"}, FALSE)
    BY <1>1, <1>3 DEF Enters, Resumes, Exits, Adopts, Doubts, GivesUp, Decision
  <2>2. \A e \in E : e.kind = "SUPERSEDED" /\ e.next = (d.status = "UNKNOWN")
    BY <2>1 DEF Decision, CurrentStatuses
  <2>3. PICK e \in E : e.kind = "SUPERSEDED"
    BY <2>1 DEF Decision
  <2>4. CASE d = Decision("INACTIVE", 0, {"SUPERSEDED"}, FALSE)
    <3>1. d.status = "INACTIVE" /\ ~e.next
      BY <2>2, <2>4 DEF Decision
    <3>2. QED BY <2>2, <3>1 DEF LeavesIn
  <2>5. CASE d = Decision("UNKNOWN", 1, {"SUPERSEDED"}, FALSE)
    <3>1. d.status = "UNKNOWN" /\ e.next
      BY <2>2, <2>5 DEF Decision
    <3>2. QED BY <2>2, <3>1 DEF LeavesIn
  <2>6. QED BY <2>1, <2>4, <2>5
<1>4. QED BY <1>2, <1>3

\* What the property says of one key.
Rebuilt(k) ==
    IF LoggedBars(k) = {} THEN rows[k] = AbsentRow
    ELSE \E b \in LoggedBars(k) : /\ \A c \in LoggedBars(k) : c <= b
                                  /\ rows[k].status # "NONE"
                                  /\ LeavesIn(EntriesAt(k, b), rows[k].status)

\* It depends on the entries of the key and on its status.
LEMMA RebuiltAgain ==
    ASSUME NEW k, Rebuilt(k), log \subseteq log',
           \A e \in log' : e.key = k => e \in log,
           \/ rows'[k] = rows[k]
           \/ rows[k].status # "NONE" /\ rows'[k].status = rows[k].status
    PROVE  Rebuilt(k)'
<1>1. LoggedBars(k)' = LoggedBars(k)
  <2>1. {x \in log' : x.key = k} = {x \in log : x.key = k}
    OBVIOUS
  <2>2. QED BY <2>1 DEF LoggedBars
<1>2. \A b : EntriesAt(k, b)' = EntriesAt(k, b)
  BY DEF EntriesAt
<1>3. CASE LoggedBars(k) = {}
  <2>1. rows'[k] = rows[k]
    BY <1>3 DEF Rebuilt, AbsentRow
  <2>2. QED BY <1>1, <1>3, <2>1 DEF Rebuilt, AbsentRow
<1>4. CASE LoggedBars(k) # {}
  <2>1. PICK b \in LoggedBars(k) : /\ \A c \in LoggedBars(k) : c <= b
                                   /\ rows[k].status # "NONE"
                                   /\ LeavesIn(EntriesAt(k, b), rows[k].status)
    BY <1>4 DEF Rebuilt
  <2>2. rows'[k].status = rows[k].status
    OBVIOUS
  <2>3. LeavesIn(EntriesAt(k, b)', rows'[k].status)
    BY <1>2, <2>1, <2>2
  <2>4. QED BY <1>1, <1>4, <2>1, <2>2, <2>3 DEF Rebuilt, LeavesIn
<1>5. QED BY <1>3, <1>4

\* The log alone rebuilds the projection: the entries of the last bar with entries
\* say the status of the row.
THEOREM TheLogRebuildsTheRows ==
    ASSUME EveryBarOnce, NoHalts
    PROVE  Spec => []LogRebuildsRows
<1>1. Init => LogRebuildsRows
  BY DEF Init, LogRebuildsRows, LoggedBars
<1>2. ASSUME FeedInv, NeverHalted, LogRebuildsRows, [Next]_vars, NEW k \in Keys
      PROVE  Rebuilt(k)'
  <2>0. Rebuilt(k)
    BY <1>2 DEF LogRebuildsRows, Rebuilt
  <2>1. ASSUME NEW w \in Workers, Commit(w), k \in Work(run[w], rows)
        PROVE  Rebuilt(k)'
    <3> DEFINE r == run[w]
               d == DecisionFor(run[w], rows, k)
    <3>1. /\ rows'[k].status = d.status
          /\ rows[k].status \in Over => Enters(d)
          /\ rows[k].status = "ACTIVE" =>
               Stays(d, "ACTIVE") \/ Exits(d) \/ Adopts(d) \/ Doubts(d) \/ GivesUp(d)
          /\ rows[k].status = "UNKNOWN" =>
               Resumes(d) \/ Stays(d, "UNKNOWN") \/ Exits(d) \/ Adopts(d) \/ GivesUp(d)
          /\ rows[k].status \in Running \cup Over
      BY <1>2, <2>1, LaneCommit
    <3>2. /\ d \in Decisions /\ r.bar \in Nat /\ newest \in Nat /\ r.bar > newest
          /\ log \subseteq log'
          /\ \A e \in log' : e.key = k => \/ e \in log
                                          \/ /\ e.bar = r.bar /\ e.kind \in d.transitions
                                             /\ e.next = (d.status \in CurrentStatuses)
          /\ \A t \in d.transitions : \E e \in log' \ log :
                 /\ e.key = k /\ e.kind = t /\ e.bar = r.bar
                 /\ e.next = (d.status \in CurrentStatuses)
      BY <1>2, <2>1, CommitDecides
    <3> HIDE DEF r, d
    <3>3. CASE d.transitions = {}
      <4>1. Stays(d, rows[k].status) /\ rows[k].status # "NONE"
        BY <3>1, <3>3 DEF Running, Over, Enters, Exits, Adopts, Doubts, GivesUp, Resumes,
                          Decision
      <4>2. rows'[k].status = rows[k].status
        BY <3>1, <4>1 DEF Stays
      <4>3. \A e \in log' : e.key = k => e \in log
        BY <3>2, <3>3
      <4>4. QED BY <2>0, <3>2, <4>1, <4>2, <4>3, RebuiltAgain
    <3>4. CASE d.transitions # {}
      <4>1. PICK b \in Nat : b = r.bar
        BY <3>2
      <4> DEFINE E == {e \in log' : e.key = k /\ e.bar = b}
      <4>2. \A e \in log : e.bar \in Nat /\ e.bar <= newest
        BY <1>2 DEF FeedInv, InOrder, IInv, TypeOK, LogEntries, Bars
      <4>3. \A e \in E : /\ e.kind \in d.transitions
                         /\ e.next = (d.status \in CurrentStatuses)
        BY <3>2, <4>1, <4>2
      <4>4. \A t \in d.transitions : \E e \in E : e.kind = t
        BY <3>2, <4>1
      <4>5. Enters(d) \/ Resumes(d) \/ Exits(d) \/ Adopts(d) \/ Doubts(d) \/ GivesUp(d)
        BY <3>1, <3>4 DEF Running, Over, Stays
      <4> HIDE DEF E
      <4>6. LeavesIn(E, d.status)
        BY <3>2, <3>4, <4>3, <4>4, <4>5, EntriesLead
      <4>7. b \in LoggedBars(k)'
        BY <3>2, <3>4, <4>1 DEF LoggedBars
      <4>8. \A c \in LoggedBars(k)' : c <= b
        BY <3>2, <4>1, <4>2 DEF LoggedBars
      <4>9. rows'[k].status # "NONE"
        BY <3>1, <3>2 DEF Decisions, Statuses
      <4>10. LeavesIn(EntriesAt(k, b)', rows'[k].status)
        BY <3>1, <4>6 DEF E, EntriesAt
      <4>11. QED BY <4>7, <4>8, <4>9, <4>10 DEF Rebuilt, LeavesIn
    <3>5. QED BY <3>3, <3>4
  <2>2. ASSUME NEW w \in Workers, Commit(w), k \notin Work(run[w], rows)
        PROVE  Rebuilt(k)'
    <3>1. /\ rows'[k] = rows[k] /\ log \subseteq log'
          /\ \A e \in log' : e.key = k => e \in log
      BY <1>2, <2>2, CommitSpares DEF Commit
    <3>2. QED BY <2>0, <3>1, RebuiltAgain
  <2>3. CASE ~ \E w \in Workers : Commit(w)
    BY <1>2, <2>0, <2>3, OnlyCommitsWrite, RebuiltAgain
  <2>4. QED BY <2>1, <2>2, <2>3
<1>3. FeedInv /\ NeverHalted /\ LogRebuildsRows /\ [Next]_vars => LogRebuildsRows'
  BY <1>2 DEF LogRebuildsRows, Rebuilt
<1>4. QED BY <1>1, <1>3, LaneHolds, PTL DEF Spec

=============================================================================
