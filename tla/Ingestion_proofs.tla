-------------------------- MODULE Ingestion_proofs --------------------------
(***************************************************************************)
(* Theorems about Ingestion for any number of workers, sources, bars and   *)
(* adjustments, and any windows.                                           *)
(*                                                                         *)
(* A frame never contradicts itself, because its parts were compared, and  *)
(* a revision never does, because a frame joins it only when they agree.   *)
(* Snapshots are sets of stored bars, and bars are never taken away.       *)
(*                                                                         *)
(* A worker that is about to save for the second or third time chose a     *)
(* revision that had no bar: if it has bars now, somebody opened it in     *)
(* between (RivalsOpened), hence every conflict after the first is excused.*)
(*                                                                         *)
(* Who makes another attempt was in conflict with a revision that stays,   *)
(* so what it then stores contradicts a revision before its own, unless    *)
(* somebody who had the same reason came first (CorrectionInv).            *)
(***************************************************************************)
EXTENDS Ingestion, FiniteSetTheorems, TLAPS

\* The steps of a worker that has a source.
Sourced == {"rows", "check", "recent", "extend", "choose", "save", "next"}

\* A worker that reads or writes a series has chosen its source.
SourcesAreChosen == \A w \in Workers : pc[w] \in Sourced => source[w] \in Sources

\* No frame and no revision says two things of one bar.
FramesAgree == \A w \in Workers : ~Contradict(frame[w], frame[w])
RevisionsAgree ==
    \A s \in Sources, r \in Revisions : ~Contradict(stored[s][r], stored[s][r])

\* Conflicts are counted within one save, and a fourth attempt is never made.
ConflictsAreOfSaves ==
    \A w \in Workers : /\ pc[w] \notin {"save", "next"} => conflicts[w] = 0
                       /\ pc[w] = "save" => conflicts[w] < 3

\* The revision of a second or third attempt has bars only if others opened it, or
\* another one, since.
RivalsOpened ==
    \A w \in Workers :
        pc[w] = "save" /\ stored[source[w]][rev[w]] # {} => conflicts[w] <= rivals[w]

\* A snapshot names stored bars.
SnapshotsAreStored == \A x \in snapshots : x.bars \subseteq stored[x.source][x.rev]

AgreeInv == FramesAgree /\ RevisionsAgree /\ SnapshotsAreStored
RivalInv == RivalsOpened /\ ConflictsAreExcused
Inv == TypeOK /\ SourcesAreChosen /\ ConflictsAreOfSaves

-----------------------------------------------------------------------------
(* Lemmas about the operators.                                             *)

\* The last bars of a series are bars of it.
LEMMA NewestIsPart == ASSUME NEW F, NEW n PROVE Newest(F, n) \subseteq F
  BY DEF Newest

\* Parts of what agrees agree.
LEMMA PartsAgree ==
    ASSUME NEW F, NEW G, F \subseteq G, ~Contradict(G, G)
    PROVE  ~Contradict(F, F) /\ ~Contradict(G, F)
  BY DEF Contradict

\* What a vendor serves is a series that agrees with itself.
LEMMA ServedIsSeries ==
    ASSUME TypeOK, NEW s \in Sources, NEW n, NEW h \in Bars, NEW A \in Answers(n, h)
    PROVE  Served(s, A) \in Series /\ ~Contradict(Served(s, A), Served(s, A))
<1>1. A \subseteq Bars
  BY IngestionAssumption DEF Answers, Bars
<1>2. \A b \in A : quote[s][b] \in Nat
  BY <1>1 DEF TypeOK
<1>3. Served(s, A) \in Series
  BY <1>1, <1>2 DEF Served, Series
<1>4. ~Contradict(Served(s, A), Served(s, A))
  BY DEF Served, Contradict
<1>5. QED BY <1>3, <1>4

\* The archive with recent bars that do not contradict it.
LEMMA CombinedIsSeries ==
    ASSUME NEW w \in Workers, NEW F \in Series, frame[w] \in Series
    PROVE  /\ Combined(w, F) \in Series
           /\ ~Contradict(F, F) /\ ~Contradict(frame[w], frame[w])
              => ~Contradict(Combined(w, F), Combined(w, F))
<1> DEFINE G == F \cup {x \in frame[w] : x[1] \notin Times(F)}
<1>1. Combined(w, F) \subseteq G
  BY NewestIsPart DEF Combined
<1>2. G \in Series
  BY DEF Series
<1>3. ASSUME ~Contradict(F, F), ~Contradict(frame[w], frame[w])
      PROVE  ~Contradict(G, G)
  BY <1>3 DEF Contradict, Times
<1> HIDE DEF G
<1>4. QED BY <1>1, <1>2, <1>3, PartsAgree DEF Series

-----------------------------------------------------------------------------
(* Type correctness.                                                       *)

\* The end of a call.
LEMMA ReturnType ==
    ASSUME Inv, NEW w \in Workers, NEW outcome \in {"idle", "refused"}, Return(w, outcome)
    PROVE  /\ pc' = [pc EXCEPT ![w] = outcome]
           /\ asOf' \in [Workers -> Bars] /\ source' \in [Workers -> Sources \cup {NoSource}]
           /\ rev' \in [Workers -> Revisions] /\ frame' \in [Workers -> Series]
           /\ conflicts' \in [Workers -> 0 .. 3]
           /\ \A v \in Workers : v # w => source'[v] = source[v] /\ conflicts'[v] = conflicts[v]
           /\ conflicts'[w] = 0
<1>1. 1 \in Bars /\ 1 \in Revisions /\ {} \in Series
  BY IngestionAssumption DEF Bars, Revisions, Series
<1>2. QED BY <1>1 DEF Return, Goto, Inv, TypeOK

\* The tables after a save.
LEMMA StoreType ==
    ASSUME Inv, NEW w \in Workers, pc[w] \in Sourced, Store(w)
    PROVE  /\ stored' \in [Sources -> [Revisions -> Series]]
           /\ snapshots' \subseteq [source : Sources, rev : Revisions, bars : Series]
           /\ rivals' \in [Workers -> Nat]
           /\ Return(w, "idle")
<1>1. source[w] \in Sources /\ rev[w] \in Revisions /\ frame[w] \in Series
  BY DEF Inv, TypeOK, SourcesAreChosen
<1>2. stored[source[w]][rev[w]] \cup frame[w] \in Series
  BY <1>1 DEF Inv, TypeOK, Series
<1>3. stored' \in [Sources -> [Revisions -> Series]]
  BY <1>1, <1>2 DEF Store, Inv, TypeOK
<1>4. snapshots' \subseteq [source : Sources, rev : Revisions, bars : Series]
  BY <1>1 DEF Store, Inv, TypeOK
<1>5. rivals' \in [Workers -> Nat]
  BY DEF Store, Inv, TypeOK
<1>6. QED BY <1>3, <1>4, <1>5 DEF Store, Inv, TypeOK

\* After the end of a call that left well-formed tables.
LEMMA InvAfterReturn ==
    ASSUME Inv, NEW w \in Workers, NEW outcome \in {"idle", "refused"}, Return(w, outcome),
           stored' \in [Sources -> [Revisions -> Series]],
           snapshots' \subseteq [source : Sources, rev : Revisions, bars : Series],
           rivals' \in [Workers -> Nat], UNCHANGED <<market, requests>>
    PROVE  Inv'
<1>1. TypeOK'
  BY ReturnType DEF market, Inv, TypeOK
<1>2. SourcesAreChosen' /\ ConflictsAreOfSaves'
  BY ReturnType DEF Inv, TypeOK, SourcesAreChosen, ConflictsAreOfSaves, Sourced
<1>3. QED BY <1>1, <1>2 DEF Inv

\* An archive that is extended is extended by a series.
LEMMA RecentIsSeries ==
    ASSUME Inv, NEW w \in Workers, FetchRecent(w), frame' # frame
    PROVE  \E F \in Series : /\ frame' = [frame EXCEPT ![w] = Combined(w, F)]
                             /\ ~Contradict(F, F)
<1>1. PICK n : \E h \in {asOf[w] - 1, asOf[w]} \ {0} : \E A \in Answers(n, h) :
        frame' = [frame EXCEPT ![w] = Combined(w, Served(source[w], A))]
  BY DEF FetchRecent
<1>2. PICK h \in {asOf[w] - 1, asOf[w]} \ {0} : \E A \in Answers(n, h) :
        frame' = [frame EXCEPT ![w] = Combined(w, Served(source[w], A))]
  BY <1>1
<1>3. PICK A \in Answers(n, h) :
        frame' = [frame EXCEPT ![w] = Combined(w, Served(source[w], A))]
  BY <1>2
<1>4. h \in Bars /\ source[w] \in Sources
  BY IngestionAssumption DEF FetchRecent, Inv, TypeOK, SourcesAreChosen, Sourced, Bars
<1>5. Served(source[w], A) \in Series /\ ~Contradict(Served(source[w], A), Served(source[w], A))
  BY <1>3, <1>4, ServedIsSeries DEF Inv
<1>6. QED BY <1>3, <1>5

\* Init establishes the invariant.
LEMMA InvInit == Init => Inv
<1> SUFFICES ASSUME Init PROVE Inv
  OBVIOUS
<1>1. 1 \in Bars /\ Archived \in Bars /\ 1 \in Revisions /\ {} \in Series
  BY IngestionAssumption DEF Bars, Revisions, Series
<1>2. (1 .. Archived) \X {0} \in Series
  BY IngestionAssumption DEF Series, Bars
<1>3. stored \in [Sources -> [Revisions -> Series]]
  BY <1>1, <1>2 DEF Init
<1>4. /\ now \in Bars /\ adjusted \in Nat /\ requests \in 0 .. MaxRequests
      /\ conflicts \in [Workers -> 0 .. 3] /\ rivals \in [Workers -> Nat]
  BY <1>1, IngestionAssumption DEF Init
<1>5. TypeOK
  BY <1>1, <1>3, <1>4, IngestionAssumption DEF Init, TypeOK
<1>6. QED BY <1>5 DEF Init, Inv, SourcesAreChosen, ConflictsAreOfSaves, Sourced

\* Every step preserves it.
LEMMA InvStep == Inv /\ [Next]_vars => Inv'
<1> SUFFICES ASSUME Inv, [Next]_vars PROVE Inv'
  OBVIOUS
<1> USE DEF market, tables, local
<1>1. CASE Close
  <2>1. now + 1 \in Bars
    BY <1>1, IngestionAssumption DEF Close, Inv, TypeOK, Bars
  <2>2. QED BY <1>1, <2>1 DEF Close, Inv, TypeOK, SourcesAreChosen, ConflictsAreOfSaves
<1>2. CASE \E s \in Sources : Adjust(s)
  <2>1. PICK s \in Sources : Adjust(s)
    BY <1>2
  <2>2. adjusted' \in Nat
    BY <2>1, IngestionAssumption DEF Adjust, Inv, TypeOK
  <2>3. quote' \in [Sources -> [Bars -> Nat]]
    BY <2>1 DEF Adjust, Inv, TypeOK
  <2>4. QED BY <2>1, <2>2, <2>3 DEF Adjust, Inv, TypeOK, SourcesAreChosen, ConflictsAreOfSaves
<1>3. ASSUME NEW w \in Workers, Request(w) PROVE Inv'
  <2>1. requests + 1 \in 0 .. MaxRequests
    BY <1>3, IngestionAssumption DEF Request, Inv, TypeOK
  <2>2. asOf' \in [Workers -> Bars]
    BY <1>3, IngestionAssumption DEF Request, Inv, TypeOK, Bars
  <2>3. QED BY <1>3, <2>1, <2>2
            DEF Request, Goto, Inv, TypeOK, SourcesAreChosen, ConflictsAreOfSaves, Sourced
<1>4. ASSUME NEW w \in Workers, LoadHeader(w) PROVE Inv'
  <2>1. Headers(asOf[w]) \subseteq Sources \X Revisions
    BY DEF Headers
  <2>2. QED BY <1>4, <2>1
            DEF LoadHeader, Goto, Inv, TypeOK, SourcesAreChosen, ConflictsAreOfSaves, Sourced
<1>5. ASSUME NEW w \in Workers, LoadRows(w) PROVE Inv'
  <2>1. stored[source[w]][rev[w]] \in Series
    BY <1>5 DEF LoadRows, Inv, TypeOK, SourcesAreChosen, Sourced
  <2> DEFINE F == Newest({x \in stored[source[w]][rev[w]] : x[1] <= asOf[w]}, Window[w])
             step == IF Cardinality(F) < MinCache THEN "full" ELSE "check"
  <2>2. F \in Series
    BY <2>1, NewestIsPart DEF Series
  <2>3. frame' = [frame EXCEPT ![w] = F] /\ pc' = [pc EXCEPT ![w] = step]
    BY <1>5 DEF LoadRows, Goto
  <2>4. step \in {"full", "check"}
    OBVIOUS
  <2> HIDE DEF F, step
  <2>5. QED BY <1>5, <2>2, <2>3, <2>4
            DEF LoadRows, Inv, TypeOK, SourcesAreChosen, ConflictsAreOfSaves, Sourced
<1>6. ASSUME NEW w \in Workers, CheckRevision(w) PROVE Inv'
  <2> DEFINE step == IF IsLatest(source[w], rev[w]) THEN "recent" ELSE "full"
  <2>1. pc' = [pc EXCEPT ![w] = step] /\ step \in {"recent", "full"}
    BY <1>6 DEF CheckRevision, Goto
  <2> HIDE DEF step
  <2>2. QED BY <1>6, <2>1
            DEF CheckRevision, Inv, TypeOK, SourcesAreChosen, ConflictsAreOfSaves, Sourced
<1>7. ASSUME NEW w \in Workers, FetchRecent(w) PROVE Inv'
  <2>1. frame' \in [Workers -> Series]
    <3>1. CASE frame' = frame
      BY <3>1 DEF Inv, TypeOK
    <3>2. CASE frame' # frame
      <4>1. PICK F \in Series : frame' = [frame EXCEPT ![w] = Combined(w, F)]
        BY <1>7, <3>2, RecentIsSeries
      <4>2. QED BY <4>1, CombinedIsSeries DEF Inv, TypeOK
    <3>3. QED BY <3>1, <3>2
  <2>2. \E step \in {"choose", "extend", "full"} : pc' = [pc EXCEPT ![w] = step]
    BY <1>7 DEF FetchRecent, Goto
  <2>3. QED BY <1>7, <2>1, <2>2
            DEF FetchRecent, Inv, TypeOK, SourcesAreChosen, ConflictsAreOfSaves, Sourced
<1>8. ASSUME NEW w \in Workers, FetchFull(w) PROVE Inv'
  <2>1. CASE pc' = [pc EXCEPT ![w] = "choose"]
    <3>1. PICK s \in Sources : /\ source' = [source EXCEPT ![w] = s]
                               /\ \E A \in Answers(Window[w], asOf[w]) :
                                    frame' = [frame EXCEPT ![w] = Served(s, A)]
                               /\ UNCHANGED <<asOf, rev, conflicts>>
      <4>1. pc'[w] = "choose"
        BY <2>1 DEF Inv, TypeOK
      <4>2. ~Return(w, "refused") /\ ~Return(w, "idle")
        BY <4>1 DEF Return, Goto, Inv, TypeOK
      <4>3. QED BY <1>8, <4>2 DEF FetchFull
    <3>2. \A A \in Answers(Window[w], asOf[w]) : Served(s, A) \in Series
      BY ServedIsSeries DEF Inv, TypeOK
    <3>3. QED BY <1>8, <2>1, <3>1, <3>2
              DEF FetchFull, Inv, TypeOK, SourcesAreChosen, ConflictsAreOfSaves, Sourced
  <2>2. ASSUME NEW outcome \in {"idle", "refused"}, Return(w, outcome) PROVE Inv'
    BY <1>8, <2>2, InvAfterReturn DEF FetchFull, Inv, TypeOK
  <2>3. QED BY <1>8, <2>1, <2>2 DEF FetchFull, Goto
<1>9. ASSUME NEW w \in Workers, ChooseRevision(w) PROVE Inv'
  <2>1. rev' \in [Workers -> Revisions]
    <3>1. PICK n \in 0 .. MaxRevision : rev' = [rev EXCEPT ![w] = FirstRevision(n)]
      BY <1>9 DEF ChooseRevision
    <3>2. FirstRevision(n) \in Revisions
      BY IngestionAssumption DEF FirstRevision, Greatest, Revisions
    <3>3. QED BY <3>1, <3>2 DEF Inv, TypeOK
  <2>2. conflicts[w] = 0
    BY <1>9 DEF ChooseRevision, Inv, ConflictsAreOfSaves
  <2>3. QED BY <1>9, <2>1, <2>2
            DEF ChooseRevision, Goto, Inv, TypeOK, SourcesAreChosen, ConflictsAreOfSaves, Sourced
<1>10. ASSUME NEW w \in Workers, Extend(w) PROVE Inv'
  <2>1. CASE Store(w)
    <3>1. pc[w] \in Sourced /\ UNCHANGED <<market, requests>>
      BY <1>10 DEF Extend, Sourced
    <3>2. QED BY <2>1, <3>1, StoreType, InvAfterReturn
  <2>2. CASE Goto(w, "full") /\ UNCHANGED <<tables, local, rivals>>
    BY <1>10, <2>2
       DEF Extend, Goto, Inv, TypeOK, SourcesAreChosen, ConflictsAreOfSaves, Sourced
  <2>3. QED BY <1>10, <2>1, <2>2 DEF Extend
<1>11. ASSUME NEW w \in Workers, Save(w) PROVE Inv'
  <2>1. CASE Store(w)
    <3>1. pc[w] \in Sourced /\ UNCHANGED <<market, requests>>
      BY <1>11 DEF Save, Sourced
    <3>2. QED BY <2>1, <3>1, StoreType, InvAfterReturn
  <2>2. CASE ~Store(w)
    <3>1. conflicts[w] + 1 \in 0 .. 3
      BY <1>11 DEF Save, Inv, TypeOK, ConflictsAreOfSaves
    <3>2. QED BY <1>11, <2>2, <3>1
              DEF Save, Goto, Inv, TypeOK, SourcesAreChosen, ConflictsAreOfSaves, Sourced
  <2>3. QED BY <2>1, <2>2
<1>12. ASSUME NEW w \in Workers, NextAttempt(w) PROVE Inv'
  <2>1. CASE conflicts[w] = 3
    <3>1. /\ Return(w, "idle") /\ rivals' = [rivals EXCEPT ![w] = 0]
          /\ UNCHANGED <<market, tables, requests>>
      BY <1>12, <2>1 DEF NextAttempt
    <3>2. /\ stored' \in [Sources -> [Revisions -> Series]]
          /\ snapshots' \subseteq [source : Sources, rev : Revisions, bars : Series]
          /\ rivals' \in [Workers -> Nat]
      BY <3>1 DEF Inv, TypeOK
    <3>3. QED BY <3>1, <3>2, InvAfterReturn
  <2>2. CASE conflicts[w] # 3
    <3>1. /\ pc[w] = "next" /\ pc' = [pc EXCEPT ![w] = "save"]
          /\ \E n \in Revisions : rev' = [rev EXCEPT ![w] = n]
          /\ UNCHANGED <<market, tables, asOf, source, frame, conflicts, rivals, requests>>
      BY <1>12, <2>2 DEF NextAttempt, Goto
    <3>2. TypeOK'
      BY <3>1 DEF Inv, TypeOK
    <3>3. conflicts[w] < 3
      BY <2>2 DEF Inv, TypeOK
    <3>4. SourcesAreChosen' /\ ConflictsAreOfSaves'
      BY <3>1, <3>3 DEF Inv, TypeOK, SourcesAreChosen, ConflictsAreOfSaves, Sourced
    <3>5. QED BY <3>2, <3>4 DEF Inv
  <2>3. QED BY <2>1, <2>2
<1>13. CASE UNCHANGED vars
  BY <1>13 DEF vars, Inv, TypeOK, SourcesAreChosen, ConflictsAreOfSaves
<1>14. QED BY <1>1, <1>2, <1>3, <1>4, <1>5, <1>6, <1>7, <1>8, <1>9, <1>10, <1>11, <1>12, <1>13
           DEF Next, Ingest

\* The inductive invariant of types holds.
LEMMA InvHolds == Spec => []Inv
BY InvInit, InvStep, PTL DEF Spec

\* Every variable keeps its type: a frame has bars that closed, a save is tried at
\* most three times.
THEOREM TypeCorrect == Spec => []TypeOK
<1>1. Inv => TypeOK
  BY DEF Inv
<1>2. QED BY <1>1, InvHolds, PTL

-----------------------------------------------------------------------------
(* Snapshots can be rebuilt.                                               *)

\* The transaction of a save whose frame does not contradict the revision.
LEMMA StoreAgrees ==
    ASSUME Inv, AgreeInv, NEW w \in Workers, pc[w] \in Sourced, Store(w), ~Conflicting(w)
    PROVE  AgreeInv'
<1> DEFINE s == source[w]
           F == stored[s][rev[w]] \cup frame[w]
<1>1. s \in Sources /\ rev[w] \in Revisions
  BY DEF Inv, TypeOK, SourcesAreChosen
<1>2. /\ stored' = [stored EXCEPT ![s][rev[w]] = F]
      /\ snapshots' = snapshots \cup {[source |-> s, rev |-> rev[w], bars |-> frame[w]]}
      /\ frame' = [frame EXCEPT ![w] = {}]
  BY DEF Store, Return
<1>3. ~Contradict(F, F)
  <2>1. ~Contradict(frame[w], frame[w]) /\ ~Contradict(stored[s][rev[w]], stored[s][rev[w]])
    BY <1>1 DEF AgreeInv, FramesAgree, RevisionsAgree
  <2>2. ~Contradict(frame[w], stored[s][rev[w]])
    BY DEF Conflicting
  <2>3. QED BY <2>1, <2>2 DEF Contradict
<1>4. /\ \A q \in Sources, r \in Revisions :
            stored'[q][r] = IF q = s /\ r = rev[w] THEN F ELSE stored[q][r]
      /\ \A v \in Workers : frame'[v] = IF v = w THEN {} ELSE frame[v]
  BY <1>1, <1>2 DEF Inv, TypeOK
<1>5. \A q \in Sources, r \in Revisions : stored[q][r] \subseteq stored'[q][r]
  BY <1>4
<1>6. frame[w] \subseteq stored'[s][rev[w]]
  BY <1>1, <1>4
<1> HIDE DEF s, F
<1>7. FramesAgree'
  BY <1>4 DEF AgreeInv, FramesAgree, Contradict
<1>8. RevisionsAgree'
  BY <1>3, <1>4 DEF AgreeInv, RevisionsAgree, Contradict
<1>9. SnapshotsAreStored'
  <2> SUFFICES ASSUME NEW x \in snapshots' PROVE x.bars \subseteq stored'[x.source][x.rev]
    BY DEF SnapshotsAreStored
  <2>1. CASE x \in snapshots
    <3>1. x.source \in Sources /\ x.rev \in Revisions
      BY <2>1 DEF Inv, TypeOK
    <3>2. QED BY <2>1, <3>1, <1>5 DEF AgreeInv, SnapshotsAreStored
  <2>2. CASE x = [source |-> s, rev |-> rev[w], bars |-> frame[w]]
    BY <2>2, <1>6
  <2>3. QED BY <1>2, <2>1, <2>2
<1>10. QED BY <1>7, <1>8, <1>9 DEF AgreeInv

\* A worker changes its own frame to one that agrees with itself.
LEMMA FrameAgrees ==
    ASSUME Inv, AgreeInv, NEW w \in Workers, NEW F, ~Contradict(F, F),
           frame' = [frame EXCEPT ![w] = F], UNCHANGED tables
    PROVE  AgreeInv'
<1>1. FramesAgree'
  BY DEF Inv, TypeOK, AgreeInv, FramesAgree
<1>2. QED BY <1>1 DEF tables, AgreeInv, RevisionsAgree, SnapshotsAreStored, Contradict

\* Initially the tables have at most one series of one price.
LEMMA AgreeInit == Init => AgreeInv
<1> SUFFICES ASSUME Init PROVE AgreeInv
  OBVIOUS
<1>1. \A s \in Sources, r \in Revisions :
        stored[s][r] \in {{}, (1 .. Archived) \X {0}}
  BY DEF Init
<1>2. ~Contradict({}, {}) /\ ~Contradict((1 .. Archived) \X {0}, (1 .. Archived) \X {0})
  BY DEF Contradict
<1>3. FramesAgree /\ RevisionsAgree
  BY <1>1, <1>2 DEF Init, FramesAgree, RevisionsAgree
<1>4. QED BY <1>3 DEF Init, AgreeInv, SnapshotsAreStored

\* Every step preserves the agreement.
LEMMA AgreeStep == Inv /\ AgreeInv /\ [Next]_vars => AgreeInv'
<1> SUFFICES ASSUME Inv, AgreeInv, [Next]_vars PROVE AgreeInv'
  OBVIOUS
<1>1. ASSUME UNCHANGED <<tables, frame>> PROVE AgreeInv'
  BY <1>1 DEF tables, AgreeInv, FramesAgree, RevisionsAgree, SnapshotsAreStored, Contradict
<1>2. ASSUME NEW w \in Workers, NEW outcome, Return(w, outcome), UNCHANGED tables
      PROVE  AgreeInv'
  <2>1. ~Contradict({}, {})
    BY DEF Contradict
  <2>2. QED BY <1>2, <2>1, FrameAgrees DEF Return
<1>3. CASE Close \/ \E s \in Sources : Adjust(s)
  BY <1>1, <1>3 DEF Close, Adjust, local
<1>4. ASSUME NEW w \in Workers,
             Request(w) \/ LoadHeader(w) \/ CheckRevision(w) \/ ChooseRevision(w)
      PROVE  AgreeInv'
  BY <1>1, <1>4 DEF Request, LoadHeader, CheckRevision, ChooseRevision, local
<1>5. ASSUME NEW w \in Workers, LoadRows(w) PROVE AgreeInv'
  <2> DEFINE G == stored[source[w]][rev[w]]
             F == Newest({x \in G : x[1] <= asOf[w]}, Window[w])
  <2>1. source[w] \in Sources /\ rev[w] \in Revisions
    BY <1>5 DEF LoadRows, Inv, TypeOK, SourcesAreChosen, Sourced
  <2>2. ~Contradict(G, G)
    BY <2>1 DEF AgreeInv, RevisionsAgree
  <2>3. F \subseteq G
    BY NewestIsPart
  <2>4. frame' = [frame EXCEPT ![w] = F] /\ UNCHANGED tables
    BY <1>5 DEF LoadRows
  <2> HIDE DEF F, G
  <2>5. QED BY <2>2, <2>3, <2>4, PartsAgree, FrameAgrees
<1>6. ASSUME NEW w \in Workers, FetchRecent(w) PROVE AgreeInv'
  <2>1. UNCHANGED tables
    BY <1>6 DEF FetchRecent
  <2>2. CASE frame' = frame
    BY <1>1, <2>1, <2>2
  <2>3. CASE frame' # frame
    <3>1. PICK F \in Series : /\ frame' = [frame EXCEPT ![w] = Combined(w, F)]
                              /\ ~Contradict(F, F)
      BY <1>6, <2>3, RecentIsSeries
    <3>2. frame[w] \in Series /\ ~Contradict(frame[w], frame[w])
      BY DEF Inv, TypeOK, AgreeInv, FramesAgree
    <3>3. ~Contradict(Combined(w, F), Combined(w, F))
      BY <3>1, <3>2, CombinedIsSeries
    <3>4. QED BY <2>1, <3>1, <3>3, FrameAgrees
  <2>4. QED BY <2>2, <2>3
<1>7. ASSUME NEW w \in Workers, FetchFull(w) PROVE AgreeInv'
  <2>1. CASE Return(w, "refused") \/ Return(w, "idle")
    BY <1>2, <1>7, <2>1 DEF FetchFull
  <2>2. CASE ~(Return(w, "refused") \/ Return(w, "idle"))
    <3>1. PICK s \in Sources, A \in Answers(Window[w], asOf[w]) :
            frame' = [frame EXCEPT ![w] = Served(s, A)]
      BY <1>7, <2>2 DEF FetchFull
    <3>2. ~Contradict(Served(s, A), Served(s, A))
      BY DEF Served, Contradict
    <3>3. QED BY <1>7, <3>1, <3>2, FrameAgrees DEF FetchFull
  <2>3. QED BY <2>1, <2>2
<1>8. ASSUME NEW w \in Workers, Extend(w) PROVE AgreeInv'
  <2>1. CASE ~Conflicting(w) /\ Store(w)
    BY <1>8, <2>1, StoreAgrees DEF Extend, Sourced
  <2>2. CASE UNCHANGED <<tables, local, rivals>>
    BY <1>1, <2>2 DEF local
  <2>3. QED BY <1>8, <2>1, <2>2 DEF Extend
<1>9. ASSUME NEW w \in Workers, Save(w) PROVE AgreeInv'
  <2>1. CASE ~Conflicting(w) /\ Store(w)
    BY <1>9, <2>1, StoreAgrees DEF Save, Sourced
  <2>2. CASE UNCHANGED <<tables, asOf, source, rev, frame, rivals>>
    BY <1>1, <2>2
  <2>3. QED BY <1>9, <2>1, <2>2 DEF Save
<1>10. ASSUME NEW w \in Workers, NextAttempt(w) PROVE AgreeInv'
  <2>1. UNCHANGED tables /\ (Return(w, "idle") \/ UNCHANGED frame)
    BY <1>10 DEF NextAttempt
  <2>2. QED BY <1>1, <1>2, <2>1
<1>11. CASE UNCHANGED vars
  BY <1>1, <1>11 DEF vars, tables
<1>12. QED BY <1>3, <1>4, <1>5, <1>6, <1>7, <1>8, <1>9, <1>10, <1>11 DEF Next, Ingest

\* A series that agrees with itself is finite.
LEMMA SeriesAreFinite ==
    ASSUME NEW F \in Series, ~Contradict(F, F)
    PROVE  IsFiniteSet(F)
<1> DEFINE f == [x \in F |-> x[1]]
<1>1. \A x, y \in F : x[1] = y[1] => x = y
  <2> SUFFICES ASSUME NEW x \in F, NEW y \in F, x[1] = y[1] PROVE x = y
    OBVIOUS
  <2>1. x[2] = y[2]
    BY DEF Contradict
  <2>2. x = <<x[1], x[2]>> /\ y = <<y[1], y[2]>>
    BY DEF Series
  <2>3. QED BY <2>1, <2>2
<1>2. f \in [F -> Bars]
  BY DEF Series
<1>3. f \in Injection(F, Bars)
  BY <1>1, <1>2 DEF Injection, IsInjective
<1>4. IsFiniteSet(Bars)
  BY FS_Interval, IngestionAssumption DEF Bars
<1>5. QED BY <1>3, <1>4, FS_Injection

\* docs/setup/operations.md: a snapshot names bars, and for any number of writers and
\* corrections of the vendors those bars are kept and stay the only ones of their
\* revision that say something of their time; if their number is still that of its row,
\* what is rebuilt is what was scanned.
THEOREM SnapshotsStay == Spec => []SnapshotsRebuild
<1>1. Inv /\ AgreeInv => SnapshotsRebuild
  <2> SUFFICES ASSUME Inv, AgreeInv, NEW x \in snapshots
               PROVE  /\ x.bars \subseteq Rebuild(x) /\ ~Contradict(Rebuild(x), x.bars)
                      /\ Cardinality(Rebuild(x)) = Cardinality(x.bars) => Rebuild(x) = x.bars
    BY DEF SnapshotsRebuild
  <2> DEFINE F == stored[x.source][x.rev]
  <2>1. x.source \in Sources /\ x.rev \in Revisions /\ x.bars \in Series /\ F \in Series
    BY DEF Inv, TypeOK
  <2>2. x.bars \subseteq F
    BY DEF AgreeInv, SnapshotsAreStored
  <2>3. ~Contradict(F, F)
    BY <2>1 DEF AgreeInv, RevisionsAgree
  <2>4. Rebuild(x) \subseteq F
    BY DEF Rebuild
  <2>5. x.bars \subseteq Rebuild(x)
    <3> SUFFICES ASSUME NEW y \in x.bars PROVE y \in Rebuild(x)
      OBVIOUS
    <3>1. y[1] \in Times(x.bars) /\ y[1] \in Int
      BY <2>1, IngestionAssumption DEF Times, Series, Bars
    <3>2. y[1] <= y[1]
      BY <3>1
    <3>3. QED BY <2>2, <3>1, <3>2 DEF Rebuild
  <2>6. ~Contradict(Rebuild(x), x.bars)
    BY <2>3, <2>4, <2>5 DEF Contradict
  <2>7. IsFiniteSet(F)
    BY <2>1, <2>3, SeriesAreFinite
  <2> HIDE DEF F
  <2>8. IsFiniteSet(Rebuild(x))
    BY <2>4, <2>7, FS_Subset
  <2>9. Cardinality(Rebuild(x)) = Cardinality(x.bars) => Rebuild(x) = x.bars
    BY <2>5, <2>8, FS_Subset
  <2>10. QED BY <2>5, <2>6, <2>9
<1>2. QED BY <1>1, AgreeInit, AgreeStep, InvHolds, PTL DEF Spec

-----------------------------------------------------------------------------
(* Conflicts are the doing of others.                                      *)

\* A step after which w does not save and has no more conflicts than before.
LEMMA QuietStep ==
    ASSUME Inv, RivalInv, NEW w \in Workers, UNCHANGED <<stored, rivals>>, pc'[w] # "save",
           conflicts'[w] \in {0, conflicts[w]},
           \A v \in Workers \ {w} : /\ pc'[v] = pc[v] /\ source'[v] = source[v]
                                    /\ rev'[v] = rev[v] /\ conflicts'[v] = conflicts[v]
    PROVE  RivalInv'
<1>1. rivals[w] \in Nat
  BY DEF Inv, TypeOK
<1>2. ConflictsAreExcused'
  <2> SUFFICES ASSUME NEW v \in Workers PROVE conflicts'[v] <= 1 + rivals'[v]
    BY DEF ConflictsAreExcused
  <2>1. conflicts[v] <= 1 + rivals[v]
    BY DEF RivalInv, ConflictsAreExcused
  <2>2. QED BY <1>1, <2>1
<1>3. RivalsOpened'
  <2> SUFFICES ASSUME NEW v \in Workers, pc'[v] = "save",
                      stored'[source'[v]][rev'[v]] # {}
               PROVE  conflicts'[v] <= rivals'[v]
    BY DEF RivalsOpened
  <2>1. v # w
    OBVIOUS
  <2>2. /\ pc[v] = "save" /\ stored[source[v]][rev[v]] # {}
        /\ conflicts'[v] = conflicts[v] /\ rivals'[v] = rivals[v]
    BY <2>1
  <2>3. QED BY <2>2 DEF RivalInv, RivalsOpened
<1>4. QED BY <1>2, <1>3 DEF RivalInv

\* The end of a call that stored nothing.
LEMMA QuietReturn ==
    ASSUME Inv, RivalInv, NEW w \in Workers, NEW outcome \in {"idle", "refused"},
           Return(w, outcome), UNCHANGED <<stored, rivals>>
    PROVE  RivalInv'
<1>1. pc'[w] = outcome /\ conflicts'[w] = 0
  BY DEF Return, Goto, Inv, TypeOK
<1>2. \A v \in Workers \ {w} : /\ pc'[v] = pc[v] /\ source'[v] = source[v]
                               /\ rev'[v] = rev[v] /\ conflicts'[v] = conflicts[v]
  BY DEF Return, Goto, Inv, TypeOK
<1>3. QED BY <1>1, <1>2, QuietStep

\* A save that opens a revision is counted by those that are about to save into it.
LEMMA StoreCounts ==
    ASSUME Inv, RivalInv, NEW w \in Workers, pc[w] \in Sourced, Store(w)
    PROVE  RivalInv'
<1>1. source[w] \in Sources /\ rev[w] \in Revisions
  BY DEF Inv, TypeOK, SourcesAreChosen
<1> DEFINE old == stored[source[w]][rev[w]]
<1>2. /\ pc'[w] = "idle" /\ conflicts'[w] = 0 /\ rivals'[w] = 0
      /\ \A v \in Workers \ {w} :
            /\ pc'[v] = pc[v] /\ source'[v] = source[v] /\ rev'[v] = rev[v]
            /\ conflicts'[v] = conflicts[v]
            /\ rivals'[v] = IF old = {} /\ pc[v] \in {"save", "next"} /\ source[v] = source[w]
                            THEN rivals[v] + 1 ELSE rivals[v]
  BY DEF Store, Return, Goto, Inv, TypeOK
<1>3. stored' = [stored EXCEPT ![source[w]][rev[w]] = old \cup frame[w]]
  BY DEF Store
<1>4. \A v \in Workers : /\ rivals[v] \in Nat /\ conflicts[v] \in Nat
                         /\ conflicts[v] <= 1 + rivals[v]
  BY DEF Inv, TypeOK, RivalInv, ConflictsAreExcused
<1>5. ConflictsAreExcused'
  <2> SUFFICES ASSUME NEW v \in Workers PROVE conflicts'[v] <= 1 + rivals'[v]
    BY DEF ConflictsAreExcused
  <2>1. CASE v = w
    BY <1>2, <2>1
  <2>2. CASE v # w
    BY <1>2, <1>4, <2>2
  <2>3. QED BY <2>1, <2>2
<1>6. RivalsOpened'
  <2> SUFFICES ASSUME NEW v \in Workers, pc'[v] = "save",
                      stored'[source'[v]][rev'[v]] # {}
               PROVE  conflicts'[v] <= rivals'[v]
    BY DEF RivalsOpened
  <2>1. v # w
    BY <1>2
  <2>2. source[v] \in Sources /\ rev[v] \in Revisions /\ pc[v] = "save"
    BY <1>2, <2>1 DEF Inv, TypeOK, SourcesAreChosen, Sourced
  <2>3. stored'[source[v]][rev[v]] # {}
    BY <1>2, <2>1
  <2>4. CASE stored[source[v]][rev[v]] # {}
    <3>1. conflicts[v] <= rivals[v]
      BY <2>2, <2>4 DEF RivalInv, RivalsOpened
    <3>2. QED BY <1>2, <1>4, <2>1, <3>1
  <2>5. CASE stored[source[v]][rev[v]] = {}
    <3>1. source[v] = source[w] /\ rev[v] = rev[w]
      BY <1>1, <1>3, <2>2, <2>3, <2>5 DEF Inv, TypeOK
    <3>2. rivals'[v] = rivals[v] + 1
      BY <1>2, <2>1, <2>2, <2>5, <3>1
    <3>3. QED BY <1>2, <1>4, <2>1, <3>2
  <2>6. QED BY <2>4, <2>5
<1>7. QED BY <1>5, <1>6 DEF RivalInv

\* A conflict is with a revision that has bars.
LEMMA ConflictCounts ==
    ASSUME Inv, RivalInv, NEW w \in Workers, pc[w] = "save", Conflicting(w),
           pc' = [pc EXCEPT ![w] = "next"],
           conflicts' = [conflicts EXCEPT ![w] = @ + 1],
           UNCHANGED <<stored, source, rev, rivals>>
    PROVE  RivalInv'
<1>1. stored[source[w]][rev[w]] # {}
  BY DEF Conflicting, Contradict
<1>2. conflicts[w] <= rivals[w] /\ conflicts[w] \in Nat /\ rivals[w] \in Nat
  <2>1. conflicts[w] <= rivals[w]
    BY <1>1 DEF RivalInv, RivalsOpened
  <2>2. conflicts[w] \in 0 .. 3 /\ rivals[w] \in Nat
    BY DEF Inv, TypeOK
  <2>3. QED BY <2>1, <2>2
<1>3. \A v \in Workers : /\ pc'[v] = IF v = w THEN "next" ELSE pc[v]
                         /\ conflicts'[v] = IF v = w THEN conflicts[w] + 1 ELSE conflicts[v]
  BY DEF Inv, TypeOK
<1>4. ConflictsAreExcused'
  BY <1>2, <1>3 DEF RivalInv, ConflictsAreExcused
<1>5. RivalsOpened'
  BY <1>3 DEF RivalInv, RivalsOpened
<1>6. QED BY <1>4, <1>5 DEF RivalInv

\* Another attempt goes to a revision that has no bar.
LEMMA AttemptIsNew ==
    ASSUME Inv, RivalInv, NEW w \in Workers, NextAttempt(w), conflicts[w] # 3
    PROVE  RivalInv'
<1>1. PICK n \in 0 .. MaxRevision :
        /\ IsLatest(source[w], n) /\ NextRevision(w, n) \in Revisions
        /\ rev' = [rev EXCEPT ![w] = NextRevision(w, n)]
  BY DEF NextAttempt
<1>2. /\ pc' = [pc EXCEPT ![w] = "save"]
      /\ UNCHANGED <<stored, source, conflicts, rivals>>
  BY DEF NextAttempt, Goto, tables
<1>3. source[w] \in Sources /\ rev[w] \in Revisions
  BY DEF NextAttempt, Inv, TypeOK, SourcesAreChosen, Sourced
<1>4. NextRevision(w, n) > n
  BY <1>3, IngestionAssumption DEF NextRevision, Greatest, Revisions
<1>5. stored[source[w]][NextRevision(w, n)] = {}
  BY <1>1, <1>4, IngestionAssumption DEF IsLatest, Revisions
<1>6. stored'[source'[w]][rev'[w]] = {}
  BY <1>1, <1>2, <1>5 DEF Inv, TypeOK
<1>7. \A v \in Workers \ {w} : pc'[v] = pc[v] /\ rev'[v] = rev[v]
  BY <1>1, <1>2 DEF Inv, TypeOK
<1>8. RivalsOpened'
  <2> SUFFICES ASSUME NEW v \in Workers, pc'[v] = "save",
                      stored'[source'[v]][rev'[v]] # {}
               PROVE  conflicts'[v] <= rivals'[v]
    BY DEF RivalsOpened
  <2>1. v # w
    BY <1>6
  <2>2. QED BY <1>2, <1>7, <2>1 DEF RivalInv, RivalsOpened
<1>9. ConflictsAreExcused'
  BY <1>2 DEF RivalInv, ConflictsAreExcused
<1>10. QED BY <1>8, <1>9 DEF RivalInv

\* Every step preserves the count of rivals.
LEMMA RivalStep == Inv /\ RivalInv /\ [Next]_vars => RivalInv'
<1> SUFFICES ASSUME Inv, RivalInv, [Next]_vars PROVE RivalInv'
  OBVIOUS
<1>1. ASSUME UNCHANGED <<stored, pc, source, rev, conflicts, rivals>> PROVE RivalInv'
  BY <1>1 DEF RivalInv, RivalsOpened, ConflictsAreExcused
<1>2. ASSUME NEW w \in Workers, NEW step \in {"header", "rows", "full", "check", "recent",
                                              "choose", "extend"},
             pc' = [pc EXCEPT ![w] = step], UNCHANGED <<stored, rivals, conflicts>>,
             \A v \in Workers \ {w} : source'[v] = source[v] /\ rev'[v] = rev[v]
      PROVE  RivalInv'
  <2>1. pc'[w] # "save" /\ conflicts'[w] \in {0, conflicts[w]}
    BY <1>2 DEF Inv, TypeOK
  <2>2. \A v \in Workers \ {w} : pc'[v] = pc[v] /\ conflicts'[v] = conflicts[v]
    BY <1>2 DEF Inv, TypeOK
  <2>3. QED BY <1>2, <2>1, <2>2, QuietStep
<1>3. CASE Close \/ \E s \in Sources : Adjust(s)
  BY <1>1, <1>3 DEF Close, Adjust, tables, local
<1>4. ASSUME NEW w \in Workers, Request(w) PROVE RivalInv'
  BY <1>2, <1>4 DEF Request, Goto, tables
<1>5. ASSUME NEW w \in Workers, LoadHeader(w) PROVE RivalInv'
  <2>1. \E step \in {"full", "rows"} : pc' = [pc EXCEPT ![w] = step]
    BY <1>5 DEF LoadHeader, Goto
  <2>2. \A v \in Workers \ {w} : source'[v] = source[v] /\ rev'[v] = rev[v]
    BY <1>5 DEF LoadHeader, Inv, TypeOK
  <2>3. UNCHANGED <<stored, rivals, conflicts>>
    BY <1>5 DEF LoadHeader, tables
  <2>4. QED BY <1>2, <2>1, <2>2, <2>3
<1>6. ASSUME NEW w \in Workers, LoadRows(w) \/ CheckRevision(w) \/ FetchRecent(w)
      PROVE  RivalInv'
  <2>1. \E step \in {"full", "check", "recent", "choose", "extend"} :
            pc' = [pc EXCEPT ![w] = step]
    BY <1>6 DEF LoadRows, CheckRevision, FetchRecent, Goto
  <2>2. UNCHANGED <<stored, rivals, conflicts, source, rev>>
    BY <1>6 DEF LoadRows, CheckRevision, FetchRecent, tables, local
  <2>3. QED BY <1>2, <2>1, <2>2
<1>7. ASSUME NEW w \in Workers, FetchFull(w) PROVE RivalInv'
  <2>1. UNCHANGED <<stored, rivals>>
    BY <1>7 DEF FetchFull, tables
  <2>2. CASE Return(w, "refused") \/ Return(w, "idle")
    BY <2>1, <2>2, QuietReturn
  <2>3. CASE ~(Return(w, "refused") \/ Return(w, "idle"))
    <3>1. /\ pc' = [pc EXCEPT ![w] = "choose"] /\ UNCHANGED <<rev, conflicts>>
          /\ \E s \in Sources : source' = [source EXCEPT ![w] = s]
      BY <1>7, <2>3 DEF FetchFull, Goto
    <3>2. \A v \in Workers \ {w} : source'[v] = source[v] /\ rev'[v] = rev[v]
      BY <3>1 DEF Inv, TypeOK
    <3>3. QED BY <1>2, <2>1, <3>1, <3>2
  <2>4. QED BY <2>2, <2>3
<1>8. ASSUME NEW w \in Workers, ChooseRevision(w) PROVE RivalInv'
  <2>1. /\ conflicts[w] = 0 /\ rivals[w] \in Nat
        /\ pc' = [pc EXCEPT ![w] = "save"] /\ UNCHANGED <<stored, source, conflicts, rivals>>
    BY <1>8 DEF ChooseRevision, Goto, tables, Inv, TypeOK, ConflictsAreOfSaves
  <2>2. \A v \in Workers \ {w} : pc'[v] = pc[v] /\ rev'[v] = rev[v]
    BY <1>8 DEF ChooseRevision, Goto, Inv, TypeOK
  <2>3. RivalsOpened'
    <3> SUFFICES ASSUME NEW v \in Workers, pc'[v] = "save",
                        stored'[source'[v]][rev'[v]] # {}
                 PROVE  conflicts'[v] <= rivals'[v]
      BY DEF RivalsOpened
    <3>1. CASE v = w
      BY <2>1, <3>1
    <3>2. CASE v # w
      BY <2>1, <2>2, <3>2 DEF RivalInv, RivalsOpened
    <3>3. QED BY <3>1, <3>2
  <2>4. QED BY <2>1, <2>3 DEF RivalInv, ConflictsAreExcused
<1>9. ASSUME NEW w \in Workers, Extend(w) PROVE RivalInv'
  <2>1. CASE Store(w)
    BY <1>9, <2>1, StoreCounts DEF Extend, Sourced
  <2>2. CASE Goto(w, "full") /\ UNCHANGED <<tables, local, rivals>>
    BY <1>2, <2>2 DEF Goto, tables, local
  <2>3. QED BY <1>9, <2>1, <2>2 DEF Extend
<1>10. ASSUME NEW w \in Workers, Save(w) PROVE RivalInv'
  <2>1. CASE Store(w)
    BY <1>10, <2>1, StoreCounts DEF Save, Sourced
  <2>2. CASE ~Store(w)
    BY <1>10, <2>2, ConflictCounts DEF Save, Goto, tables
  <2>3. QED BY <2>1, <2>2
<1>11. ASSUME NEW w \in Workers, NextAttempt(w) PROVE RivalInv'
  <2>1. CASE conflicts[w] # 3
    BY <1>11, <2>1, AttemptIsNew
  <2>2. CASE conflicts[w] = 3
    <3>1. /\ Return(w, "idle") /\ rivals' = [rivals EXCEPT ![w] = 0] /\ UNCHANGED stored
      BY <1>11, <2>2 DEF NextAttempt, tables
    <3>2. /\ pc'[w] = "idle" /\ conflicts'[w] = 0 /\ rivals'[w] = 0
          /\ \A v \in Workers \ {w} :
                /\ pc'[v] = pc[v] /\ source'[v] = source[v] /\ rev'[v] = rev[v]
                /\ conflicts'[v] = conflicts[v] /\ rivals'[v] = rivals[v]
      BY <3>1 DEF Return, Goto, Inv, TypeOK
    <3>3. ConflictsAreExcused'
      BY <3>2 DEF RivalInv, ConflictsAreExcused
    <3>4. RivalsOpened'
      BY <3>1, <3>2 DEF RivalInv, RivalsOpened
    <3>5. QED BY <3>3, <3>4 DEF RivalInv
  <2>3. QED BY <2>1, <2>2
<1>12. CASE UNCHANGED vars
  BY <1>1, <1>12 DEF vars
<1>13. QED BY <1>3, <1>4, <1>5, <1>6, <1>7, <1>8, <1>9, <1>10, <1>11, <1>12 DEF Next, Ingest

\* The third attempt of a save fails only if two other requests opened a revision of
\* the same series in the meantime, whatever the number of requests: a save that is
\* alone succeeds at the second.
THEOREM ConflictsExcused == Spec => []ConflictsAreExcused
<1>1. Init => RivalInv
  BY DEF Init, RivalInv, RivalsOpened, ConflictsAreExcused
<1>2. RivalInv => ConflictsAreExcused
  BY DEF RivalInv
<1>3. QED BY <1>1, <1>2, RivalStep, InvHolds, PTL DEF Spec

-----------------------------------------------------------------------------
(* Revisions are opened for corrections.                                   *)

\* The bars F contradict a revision before r.
Corrects(s, r, F) == \E q \in 1 .. r - 1 : Contradict(stored[s][q], F)

\* An archive that is extended is stored.
ArchivesAreStored ==
    \A w \in Workers : pc[w] \in {"rows", "check", "recent", "extend"} =>
        stored[source[w]][rev[w]] # {}

\* Who is about to try again was in conflict, and who tries again opens the next
\* revision with a correction, if nobody else has opened it.
AttemptsCorrect ==
    \A w \in Workers :
        /\ pc[w] = "next" => Conflicting(w)
        /\ pc[w] = "save" /\ rev[w] # 1 =>
            /\ stored[source[w]][rev[w] - 1] # {}
            /\ stored[source[w]][rev[w]] # {} \/ Corrects(source[w], rev[w], frame[w])

CorrectionInv == RevisionsAreCorrections /\ ArchivesAreStored /\ AttemptsCorrect

LEMMA ContradictIsSymmetric ==
    ASSUME NEW F, NEW G PROVE Contradict(F, G) = Contradict(G, F)
BY DEF Contradict

\* Bars are only added.
LEMMA StoreAdds ==
    ASSUME Inv, NEW w \in Workers, pc[w] \in Sourced, Store(w)
    PROVE  /\ \A s \in Sources, r \in Revisions : stored[s][r] \subseteq stored'[s][r]
           /\ \A s \in Sources, r \in Revisions :
                stored[s][r] = {} /\ stored'[s][r] # {} =>
                    s = source[w] /\ r = rev[w]
<1>1. source[w] \in Sources /\ rev[w] \in Revisions
  BY DEF Inv, TypeOK, SourcesAreChosen
<1>2. stored' = [stored EXCEPT ![source[w]][rev[w]] = @ \cup frame[w]]
  BY DEF Store
<1>3. QED BY <1>1, <1>2 DEF Inv, TypeOK

\* What was known of the other workers stays true when bars are added.
LEMMA AttemptsStay ==
    ASSUME Inv, CorrectionInv, NEW v \in Workers,
           pc'[v] = pc[v], source'[v] = source[v], rev'[v] = rev[v], frame'[v] = frame[v],
           \A s \in Sources, r \in Revisions : stored[s][r] \subseteq stored'[s][r]
    PROVE  /\ pc'[v] \in {"rows", "check", "recent", "extend"} =>
                stored'[source'[v]][rev'[v]] # {}
           /\ pc'[v] = "next" => Conflicting(v)'
           /\ pc'[v] = "save" /\ rev'[v] # 1 =>
                /\ stored'[source'[v]][rev'[v] - 1] # {}
                /\ stored'[source'[v]][rev'[v]] # {}
                   \/ Corrects(source[v], rev[v], frame[v])'
<1> USE IngestionAssumption
<1>1. rev[v] \in Revisions /\ (rev[v] # 1 => rev[v] - 1 \in Revisions)
  BY DEF Inv, TypeOK, Revisions
<1>2. pc[v] \in Sourced => source[v] \in Sources
  BY DEF Inv, SourcesAreChosen
<1>3. pc'[v] \in {"rows", "check", "recent", "extend"} => stored'[source'[v]][rev'[v]] # {}
  BY <1>1, <1>2 DEF CorrectionInv, ArchivesAreStored, Sourced
<1>4. pc'[v] = "next" => Conflicting(v)'
  BY <1>1, <1>2 DEF CorrectionInv, AttemptsCorrect, Sourced, Conflicting, Contradict
<1>5. ASSUME pc'[v] = "save", rev'[v] # 1
      PROVE  /\ stored'[source'[v]][rev'[v] - 1] # {}
             /\ stored'[source'[v]][rev'[v]] # {} \/ Corrects(source[v], rev[v], frame[v])'
  <2>1. /\ stored[source[v]][rev[v] - 1] # {}
        /\ stored[source[v]][rev[v]] # {} \/ Corrects(source[v], rev[v], frame[v])
    BY <1>5 DEF CorrectionInv, AttemptsCorrect
  <2>2. source[v] \in Sources /\ 1 .. rev[v] - 1 \subseteq Revisions
    BY <1>1, <1>2, <1>5 DEF Sourced, Revisions
  <2>3. Corrects(source[v], rev[v], frame[v]) => Corrects(source[v], rev[v], frame[v])'
    BY <2>2 DEF Corrects, Contradict
  <2>4. QED BY <1>1, <1>5, <2>1, <2>2, <2>3
<1>6. QED BY <1>3, <1>4, <1>5

\* A step of one worker that stores nothing.
LEMMA WorkerStep ==
    ASSUME Inv, CorrectionInv, NEW w \in Workers, UNCHANGED tables,
           \A v \in Workers \ {w} : /\ pc'[v] = pc[v] /\ source'[v] = source[v]
                                    /\ rev'[v] = rev[v] /\ frame'[v] = frame[v],
           pc'[w] \in {"rows", "check", "recent", "extend"} => stored[source'[w]][rev'[w]] # {},
           pc'[w] = "next" => Contradict(frame'[w], stored[source'[w]][rev'[w]]),
           pc'[w] = "save" /\ rev'[w] # 1 =>
                /\ stored[source'[w]][rev'[w] - 1] # {}
                /\ stored[source'[w]][rev'[w]] # {}
                   \/ \E q \in 1 .. rev'[w] - 1 : Contradict(stored[source'[w]][q], frame'[w])
    PROVE  CorrectionInv'
<1>1. stored' = stored /\ snapshots' = snapshots
  BY DEF tables
<1>2. RevisionsAreCorrections'
  BY <1>1 DEF CorrectionInv, RevisionsAreCorrections
<1>3. \A v \in Workers \ {w} :
        /\ pc'[v] \in {"rows", "check", "recent", "extend"} =>
                stored'[source'[v]][rev'[v]] # {}
        /\ pc'[v] = "next" => Conflicting(v)'
        /\ pc'[v] = "save" /\ rev'[v] # 1 =>
                /\ stored'[source'[v]][rev'[v] - 1] # {}
                /\ stored'[source'[v]][rev'[v]] # {}
                   \/ Corrects(source[v], rev[v], frame[v])'
  BY <1>1, AttemptsStay
<1>4. ArchivesAreStored'
  BY <1>1, <1>3 DEF ArchivesAreStored
<1>5. AttemptsCorrect'
  BY <1>1, <1>3 DEF AttemptsCorrect, Conflicting, Corrects
<1>6. QED BY <1>2, <1>4, <1>5 DEF CorrectionInv

\* The end of a call that stored nothing.
LEMMA ReturnCorrects ==
    ASSUME Inv, CorrectionInv, NEW w \in Workers, NEW outcome \in {"idle", "refused"},
           Return(w, outcome), UNCHANGED tables
    PROVE  CorrectionInv'
<1>1. pc'[w] = outcome
  BY DEF Return, Goto, Inv, TypeOK
<1>2. \A v \in Workers \ {w} : /\ pc'[v] = pc[v] /\ source'[v] = source[v]
                               /\ rev'[v] = rev[v] /\ frame'[v] = frame[v]
  BY DEF Return, Goto, Inv, TypeOK
<1>3. QED BY <1>1, <1>2, WorkerStep

\* A save that opens a revision opens it with a correction.
LEMMA StoreCorrects ==
    ASSUME Inv, CorrectionInv, NEW w \in Workers, pc[w] \in {"extend", "save"}, Store(w)
    PROVE  CorrectionInv'
<1> USE IngestionAssumption
<1> DEFINE s == source[w]
           r == rev[w]
<1>1. s \in Sources /\ r \in Revisions /\ pc[w] \in Sourced
  BY DEF Inv, TypeOK, SourcesAreChosen, Sourced
<1>2. /\ \A q \in Sources, k \in Revisions : stored[q][k] \subseteq stored'[q][k]
      /\ \A q \in Sources, k \in Revisions :
            stored[q][k] = {} /\ stored'[q][k] # {} => q = s /\ k = r
  BY <1>1, StoreAdds
<1>3. /\ snapshots' = snapshots \cup {[source |-> s, rev |-> r, bars |-> frame[w]]}
      /\ Return(w, "idle")
  BY DEF Store
<1>4. pc'[w] = "idle" /\ \A v \in Workers \ {w} :
            /\ pc'[v] = pc[v] /\ source'[v] = source[v]
            /\ rev'[v] = rev[v] /\ frame'[v] = frame[v]
  BY <1>3 DEF Return, Goto, Inv, TypeOK
<1>5. stored[s][r] = {} /\ r # 1 => stored[s][r - 1] # {} /\ Corrects(s, r, frame[w])
  BY DEF CorrectionInv, ArchivesAreStored, AttemptsCorrect
<1> HIDE DEF s, r
<1>6. RevisionsAreCorrections'
  <2> SUFFICES ASSUME NEW q \in Sources, NEW k \in Revisions \ {1}, stored'[q][k] # {}
               PROVE  /\ stored'[q][k - 1] # {}
                      /\ \E x \in snapshots', j \in 1 .. k - 1 :
                            x.source = q /\ x.rev = k /\ Contradict(stored'[q][j], x.bars)
    BY DEF RevisionsAreCorrections
  <2>1. k - 1 \in Revisions /\ 1 .. k - 1 \subseteq Revisions
    BY DEF Revisions
  <2>2. CASE stored[q][k] # {}
    <3>1. stored[q][k - 1] # {}
      BY <2>2 DEF CorrectionInv, RevisionsAreCorrections
    <3>2. PICK x \in snapshots, j \in 1 .. k - 1 :
            x.source = q /\ x.rev = k /\ Contradict(stored[q][j], x.bars)
      BY <2>2 DEF CorrectionInv, RevisionsAreCorrections
    <3>3. Contradict(stored'[q][j], x.bars) /\ x \in snapshots'
      BY <1>2, <1>3, <2>1, <3>2 DEF Contradict
    <3>4. QED BY <1>2, <2>1, <3>1, <3>2, <3>3
  <2>3. CASE stored[q][k] = {}
    <3>1. q = s /\ k = r
      BY <1>2, <2>3
    <3>2. stored[q][k - 1] # {} /\ Corrects(q, k, frame[w])
      BY <1>5, <2>3, <3>1
    <3>3. PICK j \in 1 .. k - 1 : Contradict(stored[q][j], frame[w])
      BY <3>2 DEF Corrects
    <3>4. Contradict(stored'[q][j], frame[w])
      BY <1>2, <2>1, <3>3 DEF Contradict
    <3> DEFINE y == [source |-> s, rev |-> r, bars |-> frame[w]]
    <3>5. y \in snapshots'
      BY <1>3
    <3>6. y.source = q /\ y.rev = k /\ y.bars = frame[w]
      BY <3>1
    <3> HIDE DEF y
    <3>7. Contradict(stored'[q][j], y.bars)
      BY <3>4, <3>6
    <3>8. stored'[q][k - 1] # {}
      BY <1>2, <2>1, <3>2
    <3>9. QED BY <3>5, <3>6, <3>7, <3>8
  <2>4. QED BY <2>2, <2>3
<1>7. \A v \in Workers \ {w} :
        /\ pc'[v] \in {"rows", "check", "recent", "extend"} =>
                stored'[source'[v]][rev'[v]] # {}
        /\ pc'[v] = "next" => Conflicting(v)'
        /\ pc'[v] = "save" /\ rev'[v] # 1 =>
                /\ stored'[source'[v]][rev'[v] - 1] # {}
                /\ stored'[source'[v]][rev'[v]] # {}
                   \/ Corrects(source[v], rev[v], frame[v])'
  BY <1>2, <1>4, AttemptsStay
<1>8. ArchivesAreStored'
  BY <1>4, <1>7 DEF ArchivesAreStored
<1>9. AttemptsCorrect'
  BY <1>4, <1>7 DEF AttemptsCorrect
<1>10. QED BY <1>6, <1>8, <1>9 DEF CorrectionInv

\* Another attempt is made with the bars that were in conflict.
LEMMA AttemptCorrects ==
    ASSUME Inv, CorrectionInv, NEW w \in Workers, NextAttempt(w), conflicts[w] # 3
    PROVE  CorrectionInv'
<1> USE IngestionAssumption
<1>1. PICK n \in 0 .. MaxRevision :
        /\ IsLatest(source[w], n) /\ NextRevision(w, n) \in Revisions
        /\ rev' = [rev EXCEPT ![w] = NextRevision(w, n)]
  BY DEF NextAttempt
<1>2. /\ pc[w] = "next" /\ pc' = [pc EXCEPT ![w] = "save"]
      /\ UNCHANGED <<stored, snapshots, source, frame>>
  BY DEF NextAttempt, Goto, tables
<1>3. source[w] \in Sources /\ rev[w] \in Revisions
  BY <1>2 DEF Inv, TypeOK, SourcesAreChosen, Sourced
<1>4. Contradict(frame[w], stored[source[w]][rev[w]])
  BY <1>2 DEF CorrectionInv, AttemptsCorrect, Conflicting
<1>5. stored[source[w]][rev[w]] # {} /\ Contradict(stored[source[w]][rev[w]], frame[w])
  BY <1>4, ContradictIsSymmetric DEF Contradict
<1>6. stored[source[w]][NextRevision(w, n) - 1] # {}
  <2>1. NextRevision(w, n) - 1 = rev[w] \/ (NextRevision(w, n) - 1 = n /\ n # 0)
    BY <1>3 DEF NextRevision, Greatest, Revisions
  <2>2. QED BY <1>1, <1>5, <2>1 DEF IsLatest
<1>7. rev[w] \in 1 .. NextRevision(w, n) - 1
  BY <1>3 DEF NextRevision, Greatest, Revisions
<1>8. /\ pc'[w] = "save" /\ rev'[w] = NextRevision(w, n) /\ source'[w] = source[w]
      /\ frame'[w] = frame[w]
      /\ \A v \in Workers \ {w} : /\ pc'[v] = pc[v] /\ source'[v] = source[v]
                                  /\ rev'[v] = rev[v] /\ frame'[v] = frame[v]
  BY <1>1, <1>2 DEF Inv, TypeOK
<1>9. QED BY <1>2, <1>5, <1>6, <1>7, <1>8, WorkerStep DEF tables

\* Every step opens revisions for corrections only.
LEMMA CorrectionStep == Inv /\ CorrectionInv /\ [Next]_vars => CorrectionInv'
<1> SUFFICES ASSUME Inv, CorrectionInv, [Next]_vars PROVE CorrectionInv'
  OBVIOUS
<1> USE IngestionAssumption
<1>1. ASSUME UNCHANGED <<stored, snapshots, pc, source, rev, frame>> PROVE CorrectionInv'
  BY <1>1 DEF CorrectionInv, RevisionsAreCorrections, ArchivesAreStored, AttemptsCorrect,
              Conflicting, Corrects
<1>2. CASE Close \/ (\E s \in Sources : Adjust(s)) \/ UNCHANGED vars
  BY <1>1, <1>2 DEF Close, Adjust, vars, tables, local
<1>3. ASSUME NEW w \in Workers, Request(w) PROVE CorrectionInv'
  <2>1. UNCHANGED <<tables, source, rev, frame>> /\ pc' = [pc EXCEPT ![w] = "header"]
    BY <1>3 DEF Request, Goto
  <2>2. pc'[w] = "header" /\ \A v \in Workers \ {w} : pc'[v] = pc[v]
    BY <2>1 DEF Inv, TypeOK
  <2>3. QED BY <2>1, <2>2, WorkerStep
<1>4. ASSUME NEW w \in Workers, LoadHeader(w) PROVE CorrectionInv'
  <2>1. CASE pc' = [pc EXCEPT ![w] = "full"] /\ UNCHANGED <<source, rev>>
    <3>1. pc'[w] = "full" /\ \A v \in Workers \ {w} : pc'[v] = pc[v]
      BY <2>1 DEF Inv, TypeOK
    <3>2. UNCHANGED <<tables, frame>>
      BY <1>4 DEF LoadHeader
    <3>3. QED BY <2>1, <3>1, <3>2, WorkerStep
  <2>2. ASSUME NEW c \in Headers(asOf[w]), source' = [source EXCEPT ![w] = c[1]],
               rev' = [rev EXCEPT ![w] = c[2]], pc' = [pc EXCEPT ![w] = "rows"]
        PROVE  CorrectionInv'
    <3>1. stored[c[1]][c[2]] # {}
      BY DEF Headers
    <3>2. /\ pc'[w] = "rows" /\ source'[w] = c[1] /\ rev'[w] = c[2]
          /\ \A v \in Workers \ {w} : /\ pc'[v] = pc[v] /\ source'[v] = source[v]
                                      /\ rev'[v] = rev[v]
      BY <2>2 DEF Inv, TypeOK
    <3>3. UNCHANGED <<tables, frame>>
      BY <1>4 DEF LoadHeader
    <3>4. QED BY <3>1, <3>2, <3>3, WorkerStep
  <2>3. QED BY <1>4, <2>1, <2>2 DEF LoadHeader, Goto
<1>5. ASSUME NEW w \in Workers, LoadRows(w) \/ CheckRevision(w) \/ FetchRecent(w)
      PROVE  CorrectionInv'
  <2>1. UNCHANGED <<tables, source, rev>> /\ pc[w] \in {"rows", "check", "recent"}
    BY <1>5 DEF LoadRows, CheckRevision, FetchRecent, local
  <2>2. \A v \in Workers \ {w} : frame'[v] = frame[v]
    BY <1>5 DEF LoadRows, CheckRevision, FetchRecent, local, Inv, TypeOK
  <2>3. PICK step \in {"full", "check", "recent", "choose", "extend"} :
            pc' = [pc EXCEPT ![w] = step]
    BY <1>5 DEF LoadRows, CheckRevision, FetchRecent, Goto
  <2>4. pc'[w] = step /\ \A v \in Workers \ {w} : pc'[v] = pc[v]
    BY <2>3 DEF Inv, TypeOK
  <2>5. stored[source[w]][rev[w]] # {}
    BY <2>1 DEF CorrectionInv, ArchivesAreStored
  <2>6. QED BY <2>1, <2>2, <2>4, <2>5, WorkerStep
<1>6. ASSUME NEW w \in Workers, FetchFull(w) PROVE CorrectionInv'
  <2>1. UNCHANGED tables
    BY <1>6 DEF FetchFull
  <2>2. CASE Return(w, "refused") \/ Return(w, "idle")
    BY <2>1, <2>2, ReturnCorrects
  <2>3. CASE ~(Return(w, "refused") \/ Return(w, "idle"))
    <3>1. /\ pc' = [pc EXCEPT ![w] = "choose"] /\ UNCHANGED rev
          /\ \E s : source' = [source EXCEPT ![w] = s]
          /\ \E F : frame' = [frame EXCEPT ![w] = F]
      BY <1>6, <2>3 DEF FetchFull, Goto
    <3>2. pc'[w] = "choose" /\ \A v \in Workers \ {w} :
            pc'[v] = pc[v] /\ source'[v] = source[v] /\ frame'[v] = frame[v]
      BY <3>1 DEF Inv, TypeOK
    <3>3. QED BY <2>1, <3>1, <3>2, WorkerStep
  <2>4. QED BY <2>2, <2>3
<1>7. ASSUME NEW w \in Workers, ChooseRevision(w) PROVE CorrectionInv'
  <2>1. PICK n \in 0 .. MaxRevision : /\ IsLatest(source[w], n)
                                      /\ rev' = [rev EXCEPT ![w] = FirstRevision(n)]
    BY <1>7 DEF ChooseRevision
  <2>2. /\ pc[w] = "choose" /\ pc' = [pc EXCEPT ![w] = "save"]
        /\ UNCHANGED <<tables, source, frame>>
    BY <1>7 DEF ChooseRevision, Goto
  <2>3. source[w] \in Sources
    BY <2>2 DEF Inv, SourcesAreChosen, Sourced
  <2>4. /\ pc'[w] = "save" /\ rev'[w] = FirstRevision(n)
        /\ \A v \in Workers \ {w} : pc'[v] = pc[v] /\ rev'[v] = rev[v]
    BY <2>1, <2>2 DEF Inv, TypeOK
  <2>5. FirstRevision(n) # 1 => n \in Revisions \ {1} /\ FirstRevision(n) = n
    BY DEF FirstRevision, Greatest, Revisions
  <2> DEFINE q == source[w]
  <2>a. q \in Sources /\ RevisionsAreCorrections
    BY <2>3 DEF CorrectionInv
  <2>b. n # 0 => stored[q][n] # {}
    BY <2>1 DEF IsLatest
  <2> HIDE DEF q
  <2>c. n \in Revisions \ {1} => stored[q][n] # {} /\ stored[q][n - 1] # {}
    <3>1. SUFFICES ASSUME n \in Revisions \ {1}
                   PROVE  stored[q][n] # {} /\ stored[q][n - 1] # {}
      OBVIOUS
    <3>2. stored[q][n] # {}
      BY <2>b, <3>1 DEF Revisions
    <3>3. QED BY <2>a, <3>1, <3>2 DEF RevisionsAreCorrections
  <2> USE DEF q
  <2>6. FirstRevision(n) # 1 => stored[source[w]][n] # {} /\ stored[source[w]][n - 1] # {}
    BY <2>5, <2>c
  <2>7. QED BY <2>2, <2>4, <2>5, <2>6, WorkerStep
<1>8. ASSUME NEW w \in Workers, Extend(w) PROVE CorrectionInv'
  <2>1. CASE Store(w)
    BY <1>8, <2>1, StoreCorrects DEF Extend
  <2>2. CASE Goto(w, "full") /\ UNCHANGED <<tables, local>>
    <3>1. pc'[w] = "full" /\ \A v \in Workers \ {w} : pc'[v] = pc[v]
      BY <2>2 DEF Goto, Inv, TypeOK
    <3>2. QED BY <2>2, <3>1, WorkerStep DEF local
  <2>3. QED BY <1>8, <2>1, <2>2 DEF Extend
<1>9. ASSUME NEW w \in Workers, Save(w) PROVE CorrectionInv'
  <2>1. CASE Store(w)
    BY <1>9, <2>1, StoreCorrects DEF Save
  <2>2. CASE ~Store(w)
    <3>1. /\ Conflicting(w) /\ pc' = [pc EXCEPT ![w] = "next"]
          /\ UNCHANGED <<tables, source, rev, frame>>
      BY <1>9, <2>2 DEF Save, Goto
    <3>2. pc'[w] = "next" /\ \A v \in Workers \ {w} : pc'[v] = pc[v]
      BY <3>1 DEF Inv, TypeOK
    <3>3. QED BY <3>1, <3>2, WorkerStep DEF Conflicting
  <2>3. QED BY <2>1, <2>2
<1>10. ASSUME NEW w \in Workers, NextAttempt(w) PROVE CorrectionInv'
  <2>1. CASE conflicts[w] = 3
    BY <1>10, <2>1, ReturnCorrects DEF NextAttempt
  <2>2. CASE conflicts[w] # 3
    BY <1>10, <2>2, AttemptCorrects
  <2>3. QED BY <2>1, <2>2
<1>11. QED BY <1>2, <1>3, <1>4, <1>5, <1>6, <1>7, <1>8, <1>9, <1>10 DEF Next, Ingest

\* A revision is opened only for a correction: whatever the requests that save the
\* series of a vendor at the same time, its revisions have no gap, and each has a
\* snapshot that the bars of an earlier one contradict.
THEOREM RevisionsOpenForCorrections == Spec => []RevisionsAreCorrections
<1>1. Init => CorrectionInv
  <2> SUFFICES ASSUME Init PROVE CorrectionInv
    OBVIOUS
  <2>1. \A s \in Sources, r \in Revisions \ {1} : stored[s][r] = {}
    BY DEF Init
  <2>2. \A w \in Workers : pc[w] = "idle"
    BY DEF Init
  <2>3. QED BY <2>1, <2>2
            DEF CorrectionInv, RevisionsAreCorrections, ArchivesAreStored, AttemptsCorrect
<1>2. CorrectionInv => RevisionsAreCorrections
  BY DEF CorrectionInv
<1>3. QED BY <1>1, <1>2, CorrectionStep, InvHolds, PTL DEF Spec

=============================================================================
