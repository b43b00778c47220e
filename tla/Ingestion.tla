----------------------------- MODULE Ingestion -----------------------------
(***************************************************************************)
(* The ingestion of price bars and the store of canonical series:          *)
(*   application/ingestion.py               (IngestionService)             *)
(*   persistence/postgres/snapshots.py      (PostgresSnapshotStore)        *)
(*   market_data/adapters/fallback.py       (fetch_validated)              *)
(*                                                                         *)
(* A request asks for the last Window bars of one instrument and timeframe *)
(* up to a moment.  The service extends the archived series with a short   *)
(* overlap of its own source, or fetches the whole window from any source, *)
(* and saves the result under a revision of the series of that source.  A  *)
(* revision never changes a bar: a frame that contradicts it is saved under*)
(* the next one.  Every statement before the transaction of a save commits *)
(* by itself, and the requests of several processes interleave.            *)
(*                                                                         *)
(* A bar is its number; what a vendor says of it is the number of times it *)
(* changed the bar, in a price adjustment or a correction.  Answers may    *)
(* have holes: vendors lack bars, and Canonicalizer.build drops those      *)
(* outside the session and the buckets that are incomplete.  A source is a *)
(* vendor with a price basis.                                              *)
(***************************************************************************)
EXTENDS Integers, FiniteSets, FiniteSetsExt

CONSTANTS
    Workers,        \* processes that ingest
    Schedules,      \* sets of them that may run scheduled scans
    Window,         \* bars that a worker asks for
    Lookback,       \* bars that a scheduled scan may be behind
    Sources,        \* vendors with their price basis
    NoSource,       \* none was chosen yet
    MinCache,       \* shortest archive that is extended
    Extra,          \* bars of the overlap that are older than the archive's end
    Archived,       \* bars that may be stored in the beginning
    MaxBar,         \* bound: so many bars close
    MaxGap,         \* bound: so many bars are missing in an answer
    MaxChanges,     \* bound: so many bars close or are changed
    MaxRequests,    \* bound: so many requests
    MaxRevision     \* bound: so many revisions of one source

Bars == 1 .. MaxBar
Revisions == 1 .. MaxRevision
Series == SUBSET (Bars \X Nat)

ASSUME IngestionAssumption ==
    /\ Schedules \subseteq SUBSET Workers /\ NoSource \notin Sources
    /\ Window \in [Workers -> Nat \ {0}]
    /\ Lookback \in Nat \ {0} /\ MinCache \in Nat \ {0} /\ Extra \in Nat /\ Archived \in 1 .. MaxBar
    /\ MaxBar \in Nat \ {0} /\ MaxGap \in Nat /\ MaxChanges \in Nat /\ MaxRequests \in Nat
    /\ MaxRevision \in Nat \ {0}

VARIABLES
    now,            \* bars 1..now are closed
    quote,          \* per source: what the vendor says of each bar
    adjusted,       \* adjustments and corrections so far
    daily,          \* the timeframe is 1d
    scheduled,      \* workers whose requests are for a bar that closed
    stored,         \* canonical_market_bars: per source and revision
    snapshots,      \* data_snapshots: source, revision and, by their hash, the bars
    pc,             \* what a worker does next
    asOf,           \* its request: the last bar that may be in the frame
    source,         \* source of the archive it read, then of its frame
    rev,            \* revision of the archive, then of its frame
    frame,          \* bars it holds: the archive, then the frame
    conflicts,      \* conflicts of the present save
    rivals,         \* history: revisions others opened since it chose its own
    requests        \* requests so far

market == <<now, quote, adjusted, daily, scheduled>>
tables == <<stored, snapshots>>
local == <<asOf, source, rev, frame, conflicts>>
vars == <<now, quote, adjusted, daily, scheduled, stored, snapshots, pc, asOf, source, rev,
          frame, conflicts, rivals, requests>>

Init ==
    /\ now = Archived /\ daily \in BOOLEAN
    /\ quote = [s \in Sources |-> [b \in Bars |-> 0]] /\ adjusted = 0
    /\ scheduled \in Schedules
    /\ \E S \in {{}} \cup {{s} : s \in Sources} :
        stored = [s \in Sources |-> [r \in Revisions |->
                    IF s \in S /\ r = 1 THEN (1 .. Archived) \X {0} ELSE {}]]
    /\ snapshots = {}
    /\ pc = [w \in Workers |-> "idle"]
    /\ asOf = [w \in Workers |-> 1]
    /\ source = [w \in Workers |-> NoSource]
    /\ rev = [w \in Workers |-> 1]
    /\ frame = [w \in Workers |-> {}]
    /\ conflicts = [w \in Workers |-> 0] /\ rivals = [w \in Workers |-> 0]
    /\ requests = 0

-----------------------------------------------------------------------------
Times(F) == {x[1] : x \in F}

\* The last n bars of F.
Newest(F, n) == {x \in F : Cardinality({t \in Times(F) : t > x[1]}) < n}

Contradict(F, G) == \E x \in F, y \in G : x[1] = y[1] /\ x[2] # y[2]

Greatest(a, b) == IF a > b THEN a ELSE b

\* latest_series_revision: n is the last revision with a bar, 0 when there is none.
IsLatest(s, n) ==
    /\ n = 0 \/ (n \in Revisions /\ stored[s][n] # {})
    /\ \A r \in Revisions : stored[s][r] # {} => r <= n

\* The bars of a frame that a vendor answers when it is asked for n bars and the last
\* one is h: older ones may take the place of those that are missing.
Answers(n, h) ==
    {A \in SUBSET (1 .. h) : /\ h \in A /\ Cardinality(A) <= n
                            /\ Cardinality((Min(A) .. h) \ A) <= MaxGap}

\* Mistake: the bar that is still open is not dropped.
Served_Open(s, A) == {<<b, quote[s][Min({b, now})]>> : b \in A \cup {Max(A) + 1}}

\* What the vendor says of these bars.
Served(s, A) == {<<b, quote[s][b]>> : b \in A}

\* LOAD_LATEST_DAILY_SERIES_SQL: the series with the newest bar up to t, of the
\* greatest revision.
Headers(t) ==
    LET C == {c \in Sources \X Revisions : \E x \in stored[c[1]][c[2]] : x[1] <= t}
        End(c) == Max({x \in Times(stored[c[1]][c[2]]) : x <= t})
    IN  {c \in C : \A d \in C : \/ End(c) > End(d)
                                \/ End(c) = End(d) /\ c[2] >= d[2]}

-----------------------------------------------------------------------------
\* A bar closes.
Close ==
    /\ now < MaxBar /\ (now - Archived) + adjusted < MaxChanges /\ now' = now + 1
    /\ UNCHANGED <<quote, adjusted, daily, scheduled, tables, pc, local, rivals, requests>>

\* A vendor adjusts the bars before a dividend or a split, or corrects one bar.
Adjust(s) ==
    /\ (now - Archived) + adjusted < MaxChanges /\ adjusted' = adjusted + 1
    /\ \E e \in 1 .. now : \E B \in {1 .. e, {e}} :
        quote' = [quote EXCEPT ![s] = [b \in Bars |-> IF b \in B THEN @[b] + 1 ELSE @[b]]]
    /\ UNCHANGED <<now, daily, scheduled, tables, pc, local, rivals, requests>>

Goto(w, step) == pc' = [pc EXCEPT ![w] = step]

\* The call of ingest is over.
Return(w, outcome) ==
    /\ Goto(w, outcome)
    /\ asOf' = [asOf EXCEPT ![w] = 1]
    /\ source' = [source EXCEPT ![w] = NoSource]
    /\ rev' = [rev EXCEPT ![w] = 1]
    /\ frame' = [frame EXCEPT ![w] = {}]
    /\ conflicts' = [conflicts EXCEPT ![w] = 0]

\* ingest: a scheduled scan asks for a recent bar that closed; a report, a research
\* and a scan by hand ask for the present.
Request(w) ==
    /\ pc[w] \in {"idle", "refused"}
    /\ requests < MaxRequests /\ requests' = requests + 1
    /\ \E t \in IF w \in scheduled THEN {b \in 1 .. now : b > now - Lookback} ELSE {now} :
        asOf' = [asOf EXCEPT ![w] = t]
    /\ Goto(w, "header")
    /\ UNCHANGED <<market, tables, source, rev, frame, conflicts, rivals>>

\* load_recent_bars, first statement.
LoadHeader(w) ==
    /\ pc[w] = "header"
    /\ IF Headers(asOf[w]) = {}
       THEN Goto(w, "full") /\ UNCHANGED <<source, rev>>
       ELSE \E c \in Headers(asOf[w]) :
                /\ source' = [source EXCEPT ![w] = c[1]]
                /\ rev' = [rev EXCEPT ![w] = c[2]]
                /\ Goto(w, "rows")
    /\ UNCHANGED <<market, tables, asOf, frame, conflicts, rivals, requests>>

\* load_recent_bars, second statement; a short archive is not extended.
LoadRows(w) ==
    /\ pc[w] = "rows"
    /\ LET F == Newest({x \in stored[source[w]][rev[w]] : x[1] <= asOf[w]}, Window[w])
       IN  /\ frame' = [frame EXCEPT ![w] = F]
           /\ Goto(w, IF Cardinality(F) < MinCache THEN "full" ELSE "check")
    /\ UNCHANGED <<market, tables, asOf, source, rev, conflicts, rivals, requests>>

\* The archive must be of the latest revision of its source.
CheckRevision(w) ==
    /\ pc[w] = "check"
    /\ Goto(w, IF IsLatest(source[w], rev[w]) THEN "recent" ELSE "full")
    /\ UNCHANGED <<market, tables, local, rivals, requests>>

\* The recent bars F continue the archive of w.
Verified(w, F) ==
    /\ Cardinality(Times(F) \cap Times(frame[w])) >= 2
    /\ ~Contradict(F, frame[w])
    /\ daily \/ Max(Times(F)) >= Max(Times(frame[w]))

\* The archive with the recent bars in the place of its own.
Combined(w, F) ==
    Newest(F \cup {x \in frame[w] : x[1] \notin Times(F)}, Window[w])

\* fetch_from_source: recent bars of the same vendor, whose last may lag by one.  If they
\* do not continue the archive, if it answers with another price basis or not at
\* all, everything is fetched.
FetchRecent(w) ==
    /\ pc[w] = "recent"
    /\ \/ /\ LET n == Min({Window[w], asOf[w] - Max(Times(frame[w])) + Extra})
            IN  \E h \in {asOf[w] - 1, asOf[w]} \ {0} : \E A \in Answers(n, h) :
                    /\ Verified(w, Served(source[w], A))
                    /\ frame' = [frame EXCEPT ![w] = Combined(w, Served(source[w], A))]
          /\ Goto(w, IF daily THEN "choose" ELSE "extend")
       \/ Goto(w, "full") /\ UNCHANGED frame
    /\ UNCHANGED <<market, tables, asOf, source, rev, conflicts, rivals, requests>>

\* fetch_validated: the whole window of a vendor that has the requested bar.  No bar
\* closes at the moment of a request for the present: what a vendor answers to it
\* is refused.
FetchFull(w) ==
    /\ pc[w] = "full"
    /\ \/ /\ w \in scheduled
          /\ \E s \in Sources, A \in Answers(Window[w], asOf[w]) :
                /\ source' = [source EXCEPT ![w] = s]
                /\ frame' = [frame EXCEPT ![w] = Served(s, A)]
          /\ Goto(w, "choose")
          /\ UNCHANGED <<asOf, rev, conflicts>>
       \/ w \notin scheduled /\ Return(w, "refused")
       \/ Return(w, "idle")
    /\ UNCHANGED <<market, tables, rivals, requests>>

\* Mistake: every save opens a revision.
FirstRevision_Next(n) == n + 1

\* The revision of the first attempt; n is the latest one.
FirstRevision(n) == Greatest(1, n)

ChooseRevision(w) ==
    /\ pc[w] = "choose"
    /\ \E n \in 0 .. MaxRevision :
        IsLatest(source[w], n) /\ rev' = [rev EXCEPT ![w] = FirstRevision(n)]
    /\ Goto(w, "save")
    /\ UNCHANGED <<market, tables, asOf, source, frame, conflicts, rivals, requests>>

\* The transaction of save: the bars and the snapshot.
Store(w) ==
    LET s == source[w]
        old == stored[s][rev[w]]
    IN  /\ stored' = [stored EXCEPT ![s][rev[w]] = @ \cup frame[w]]
        /\ snapshots' = snapshots \cup {[source |-> s, rev |-> rev[w], bars |-> frame[w]]}
        /\ rivals' = [v \in Workers |->
                        IF /\ v # w /\ old = {} /\ pc[v] \in {"save", "next"}
                           /\ source[v] = s
                        THEN rivals[v] + 1
                        ELSE IF v = w THEN 0 ELSE rivals[v]]
        /\ Return(w, "idle")

\* Mistake: what ON CONFLICT DO NOTHING left alone is not looked at.
Conflicting_Never(w) == FALSE

\* FIND_REVISION_CONFLICT_SQL.
Conflicting(w) == Contradict(frame[w], stored[source[w]][rev[w]])

\* Saving the extended archive of an intraday or weekly timeframe.
Extend(w) ==
    /\ pc[w] = "extend"
    /\ \/ ~Conflicting(w) /\ Store(w)
       \/ Conflicting(w) /\ Goto(w, "full") /\ UNCHANGED <<tables, local, rivals>>
    /\ UNCHANGED <<market, requests>>

\* One of three attempts to save.
Save(w) ==
    /\ pc[w] = "save"
    /\ \/ ~Conflicting(w) /\ Store(w)
       \/ /\ Conflicting(w) /\ Goto(w, "next")
          /\ conflicts' = [conflicts EXCEPT ![w] = @ + 1]
          /\ UNCHANGED <<tables, asOf, source, rev, frame, rivals>>
    /\ UNCHANGED <<market, requests>>

\* Mistake: the latest revision n is tried once more.
NextRevision_Same(w, n) == Greatest(rev[w], n)

\* After a conflict, a revision that has no bar; n is the latest one.
NextRevision(w, n) == Greatest(rev[w], n) + 1

\* After a conflict: another revision, or the end after the third.
NextAttempt(w) ==
    /\ pc[w] = "next"
    /\ IF conflicts[w] = 3
       THEN Return(w, "idle") /\ rivals' = [rivals EXCEPT ![w] = 0]
       ELSE /\ \E n \in 0 .. MaxRevision :
                /\ IsLatest(source[w], n) /\ NextRevision(w, n) \in Revisions
                /\ rev' = [rev EXCEPT ![w] = NextRevision(w, n)]
            /\ Goto(w, "save")
            /\ UNCHANGED <<asOf, source, frame, conflicts, rivals>>
    /\ UNCHANGED <<market, tables, requests>>

Ingest(w) ==
    \/ Request(w) \/ LoadHeader(w) \/ LoadRows(w) \/ CheckRevision(w)
    \/ FetchRecent(w) \/ FetchFull(w) \/ ChooseRevision(w)
    \/ Extend(w) \/ Save(w) \/ NextAttempt(w)

Next == Close \/ (\E s \in Sources : Adjust(s)) \/ (\E w \in Workers : Ingest(w))

Spec == Init /\ [][Next]_vars

-----------------------------------------------------------------------------
\* The state is well formed.
TypeOK ==
    /\ now \in Bars /\ quote \in [Sources -> [Bars -> Nat]] /\ adjusted \in Nat
    /\ daily \in BOOLEAN /\ scheduled \subseteq Workers
    /\ stored \in [Sources -> [Revisions -> Series]]
    /\ snapshots \subseteq [source : Sources, rev : Revisions, bars : Series]
    /\ pc \in [Workers -> {"idle", "header", "rows", "check", "recent", "full", "choose",
                           "extend", "save", "next", "refused"}]
    /\ asOf \in [Workers -> Bars] /\ source \in [Workers -> Sources \cup {NoSource}]
    /\ rev \in [Workers -> Revisions] /\ frame \in [Workers -> Series]
    /\ conflicts \in [Workers -> 0 .. 3] /\ rivals \in [Workers -> Nat]
    /\ requests \in 0 .. MaxRequests

\* scripts/atc_saved_scan_plans.py: the bars of a snapshot, from the first to the last of
\* those that its row names.
Rebuild(x) ==
    {y \in stored[x.source][x.rev] :
        \E first, last \in Times(x.bars) : first <= y[1] /\ y[1] <= last}

\* docs/setup/operations.md: a snapshot only names its bars.  They are stored for ever as
\* they were when it was taken; a hole in it may be filled later, but then the number of
\* bars in its row tells it.
SnapshotsRebuild ==
    \A x \in snapshots :
        /\ x.bars \subseteq Rebuild(x) /\ ~Contradict(Rebuild(x), x.bars)
        /\ Cardinality(Rebuild(x)) = Cardinality(x.bars) => Rebuild(x) = x.bars

\* docs/ATC_ARTIMLI_VERI_ARSIVI.md: the store opens a revision when bars conflict.  They
\* are numbered without a gap, and each was opened by a frame that the bars of an earlier
\* one contradict, whoever saved at the same time.
RevisionsAreCorrections ==
    \A s \in Sources, r \in Revisions \ {1} : stored[s][r] # {} =>
        /\ stored[s][r - 1] # {}
        /\ \E x \in snapshots, q \in 1 .. r - 1 :
            x.source = s /\ x.rev = r /\ Contradict(stored[s][q], x.bars)

\* The three attempts of a save are used up only by others: after the first, each
\* conflict is with a revision that another request opened in between.
ConflictsAreExcused == \A w \in Workers : conflicts[w] <= 1 + rivals[w]

\* _cached_daily_fetch: if the provider has an unexpected gap, everything is fetched.
\* From the end of the archive to that of the recent bars none is missing.
GapsAreBackfilled ==
    [][\A w \in Workers :
        daily /\ pc[w] = "recent" /\ pc'[w] = "choose" =>
            Max(Times(frame[w])) .. Max(Times(frame'[w])) \subseteq Times(frame'[w])]_vars

=============================================================================
