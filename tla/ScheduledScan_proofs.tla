------------------------ MODULE ScheduledScan_proofs ------------------------
(***************************************************************************)
(* Theorems about ScheduledScan for a universe of any size, any scanners,  *)
(* processes, lookback, retries and faults.                                *)
(*                                                                         *)
(* A watermark moves only in the hands of the process that owns the lane,  *)
(* and it lost nothing since it planned its run: the bars between a        *)
(* watermark and the bar it works on were left out when it planned, or are *)
(* accounted for by the run itself.                                        *)
(***************************************************************************)
EXTENDS ScheduledScan, FiniteSetTheorems, TLAPS

\* A plan has no gaps; a live turn takes one bar, and only it runs out of time.
PlanIsWhole(p) ==
    /\ \A b, c \in plan[p] : \A x \in Bars : (b <= x /\ x <= c) => x \in plan[p]
    /\ \A b \in plan[p] : b <= closed
    /\ p \in Live => \A b, c \in plan[p] : b = c
    /\ (late[p] \/ spent[p] # {}) => p \in Live
    /\ p \in Live => rounds[p] = 0

\* An instrument waits, is scanned once, or has its outcome.
InstrumentsAreSplit(p) ==
    /\ todo[p] \cap (ok[p] \cup bad[p]) = {}
    /\ \A w \in flight[p] :
        /\ w.inst \notin todo[p] \cup ok[p] \cup bad[p]
        /\ \A v \in flight[p] : v.inst = w.inst => v = w
    /\ step[p] # "work" => todo[p] = {} /\ flight[p] = {}
    /\ step[p] \in {"idle", "cycle"} => ok[p] = {} /\ bad[p] = {}
    /\ step[p] \in {"work", "mark"} => \A i \in Instruments :
            i \in todo[p] \cup ok[p] \cup bad[p] \/ \E w \in flight[p] : w.inst = i

\* An instrument that succeeded has every evaluation of the bar.
WorkIsDone(p) ==
    /\ \A i \in ok[p] : kit[p] \subseteq done[Bar(p)][i]
    /\ \A w \in flight[p] :
        /\ w.bar = Bar(p) /\ w.kit = kit[p]
        /\ \A s \in kit[p] : s \in w.left \/ s \in done[w.bar][w.inst]
    /\ step[p] = "mark" => \A i \in bad[p] \ spent[p] : <<Bar(p), i>> \in failed

Local(p) ==
    WellFormed(p) /\ PlanIsWhole(p) /\ InstrumentsAreSplit(p) /\ WorkIsDone(p)

\* The lane has one owner, and as long as no session is lost nobody else runs.
OneRun ==
    /\ owner # NoProc => step[owner] # "idle"
    /\ faults["disconnect"] = 0 => \A p \in Procs : step[p] # "idle" => owner = p

\* The evaluation of a scanner on a bar is there or has failed, for everyone.
Accounted(s, b) == \A i \in Instruments : s \in done[b][i] \/ <<b, i>> \in failed

\* Between its watermarks and its bar the owner has no bar that is unaccounted for.
OwnerMissesNothing ==
    \A p \in Procs : owner = p => \A s \in kit[p], b \in Bars :
        (0 < watermark[s] /\ watermark[s] < b /\ b < Bar(p) /\ b \notin skipped) =>
            Accounted(s, b)

Marks ==
    /\ \A s \in Scanners : (since[s] = 0) = (watermark[s] = 0)
    /\ OwnerMissesNothing /\ PassedBarsAccountForAll

Inv == Types /\ (\A p \in Procs : Local(p)) /\ OneRun /\ Marks

-----------------------------------------------------------------------------
(* The lowest element of a set of numbers.                                 *)

\* A set that goes up without a gap has a first element: otherwise taking one
\* away from each would be an injection of a finite set that is no surjection.
LEMMA RunsHaveFirst ==
    ASSUME NEW m \in Nat, NEW S \in SUBSET (0 .. m), m \in S,
           \A x \in S : x < m => x + 1 \in S
    PROVE  \E x \in S : x = 0 \/ x - 1 \notin S
<1> SUFFICES ASSUME \A x \in S : x # 0 /\ x - 1 \in S
             PROVE  FALSE
  OBVIOUS
<1> DEFINE f == [x \in S |-> x - 1]
<1>1. f \in Injection(S, S)
  BY DEF Injection, IsInjective
<1>2. IsFiniteSet(S)
  <2>1. IsFiniteSet(0 .. m)
    BY FS_Interval
  <2>2. QED BY <2>1, FS_Subset
<1>3. f \in Surjection(S, S)
  BY <1>1, <1>2, FS_Injection
<1>4. \E x \in S : f[x] = m
  BY <1>3 DEF Surjection
<1>5. QED BY <1>4

LEMMA LowestIsIn ==
    ASSUME NEW S \in SUBSET Nat, S # {}
    PROVE  Lowest(S) \in S /\ \A y \in S : Lowest(S) <= y
<1>1. PICK m \in S : TRUE
  OBVIOUS
<1> DEFINE U == {x \in 0 .. m : \E t \in S : t <= x}
<1>2. m \in Nat /\ U \in SUBSET (0 .. m) /\ m \in U
  BY <1>1
<1>3. \A x \in U : x < m => x + 1 \in U
  BY <1>1
<1> HIDE DEF U
<1>4. PICK x \in U : x = 0 \/ x - 1 \notin U
  BY <1>2, <1>3, RunsHaveFirst
<1>5. PICK t \in S : t <= x
  BY <1>4 DEF U
<1>6. x \in 0 .. m /\ t \in Nat /\ m \in Nat
  BY <1>2
<1>7. \A y \in S : x <= y
  <2> SUFFICES ASSUME NEW y \in S, y < x PROVE FALSE
    BY <1>6
  <2>1. x - 1 \in 0 .. m /\ y <= x - 1
    BY <1>6
  <2>2. x - 1 \in U
    BY <2>1 DEF U
  <2>3. QED BY <1>4, <1>6, <2>1, <2>2
<1>8. t = x
  BY <1>5, <1>6, <1>7
<1>9. x \in S
  BY <1>8
<1>10. QED BY <1>7, <1>9 DEF Lowest

-----------------------------------------------------------------------------
(* Facts about a process and what other processes leave alone.             *)

LEMMA ConstantTypes ==
    /\ Bars \subseteq Nat \ {0} /\ Bars = 1 .. MaxBar /\ Instruments = 1 .. N
    /\ NoProc \notin Procs /\ Live \subseteq Procs /\ Scanners \subseteq Nat
    /\ First \subseteq Scanners
    /\ MaxBar \in Nat /\ N \in Nat \ {0} /\ Retries \in Nat /\ MaxFaults \in Nat
    /\ Lookback \in Nat \ {0} /\ Start \in 0 .. MaxBar /\ IsFiniteSet(Instruments)
<1>1. IsFiniteSet(1 .. N)
  BY ScanAssumption, FS_Interval
<1>2. QED BY <1>1, ScanAssumption DEF Bars, Instruments

\* A process works on the first of its bars.
LEMMA BarIsFirst ==
    ASSUME Types, NEW p \in Procs, plan[p] # {}
    PROVE  Bar(p) \in plan[p] /\ Bar(p) \in Bars /\ \A b \in plan[p] : Bar(p) <= b
<1>1. plan[p] \in SUBSET Nat /\ plan[p] \subseteq Bars
  BY ConstantTypes DEF Types
<1>2. QED BY <1>1, LowestIsIn DEF Bar

\* Evaluations, failures and bars left out are only added.
Grows ==
    /\ \A b \in Bars, i \in Instruments : done[b][i] \subseteq done'[b][i]
    /\ failed \subseteq failed' /\ skipped \subseteq skipped'

SameLocal(q) ==
    /\ step'[q] = step[q] /\ plan'[q] = plan[q] /\ kit'[q] = kit[q] /\ todo'[q] = todo[q]
    /\ flight'[q] = flight[q] /\ ok'[q] = ok[q] /\ bad'[q] = bad[q]
    /\ spent'[q] = spent[q] /\ rounds'[q] = rounds[q] /\ late'[q] = late[q]

\* A process that does nothing is not disturbed by what the others add.
LEMMA OthersKeep ==
    ASSUME Types, NEW q \in Procs, Local(q), Grows, closed \in Nat, closed' \in Nat,
           closed <= closed', SameLocal(q)
    PROVE  Local(q)'
<1> USE ConstantTypes
<1>1. Bar(q)' = Bar(q)
  BY DEF SameLocal, Bar
<1>2. WellFormed(q)' /\ InstrumentsAreSplit(q)'
  BY DEF Local, SameLocal, WellFormed, InstrumentsAreSplit
<1>3. PlanIsWhole(q)'
  <2>1. plan[q] \subseteq Nat
    BY DEF Types
  <2>2. QED BY <2>1 DEF Local, SameLocal, PlanIsWhole
<1>4. WorkIsDone(q)'
  <2>1. ok[q] # {} \/ flight[q] # {} \/ step[q] = "mark" => Bar(q) \in Bars
    <3>1. ok[q] # {} \/ flight[q] # {} \/ step[q] = "mark" => plan[q] # {}
      BY DEF Local, InstrumentsAreSplit, WellFormed
    <3>2. QED BY <3>1, BarIsFirst
  <2>2. \A w \in flight[q] : w.inst \in Instruments
    BY DEF Types, Scans
  <2>3. \A i \in ok[q] : i \in Instruments
    BY DEF Types
  <2>4. \A i \in ok'[q] : kit'[q] \subseteq done'[Bar(q)'][i]
    BY <1>1, <2>1, <2>3 DEF Local, WorkIsDone, SameLocal, Grows
  <2>5. \A w \in flight'[q] :
          /\ w.bar = Bar(q)' /\ w.kit = kit'[q]
          /\ \A s \in kit'[q] : s \in w.left \/ s \in done'[w.bar][w.inst]
    BY <1>1, <2>1, <2>2 DEF Local, WorkIsDone, SameLocal, Grows
  <2>6. step'[q] = "mark" => \A i \in bad'[q] \ spent'[q] : <<Bar(q)', i>> \in failed'
    BY <1>1 DEF Local, WorkIsDone, SameLocal, Grows
  <2>7. QED BY <2>4, <2>5, <2>6 DEF WorkIsDone
<1>5. QED BY <1>2, <1>3, <1>4 DEF Local

\* Nothing is lost as long as the marks stay and the owner keeps its plan.
LEMMA MarksKeep ==
    ASSUME Types, Marks, Grows, UNCHANGED <<watermark, since>>,
           owner' = owner \/ owner' = NoProc,
           \A p \in Procs : owner' = p => kit'[p] = kit[p] /\ plan'[p] = plan[p]
    PROVE  Marks'
<1> USE ConstantTypes
<1>1. \A s \in Scanners, b \in Bars : Accounted(s, b) => Accounted(s, b)'
  BY DEF Accounted, Grows
<1>2. OwnerMissesNothing'
  <2> SUFFICES ASSUME NEW p \in Procs, owner' = p, NEW s \in kit'[p], NEW b \in Bars,
                      0 < watermark'[s], watermark'[s] < b, b < Bar(p)', b \notin skipped'
               PROVE  Accounted(s, b)'
    BY DEF OwnerMissesNothing
  <2>1. owner = p /\ kit'[p] = kit[p] /\ Bar(p)' = Bar(p) /\ s \in Scanners
    BY DEF Types, Bar
  <2>2. b \notin skipped
    BY DEF Grows
  <2>3. QED BY <1>1, <2>1, <2>2 DEF Marks, OwnerMissesNothing
<1>3. PassedBarsAccountForAll'
  BY <1>1 DEF Marks, PassedBarsAccountForAll, Accounted, Grows
<1>4. QED BY <1>2, <1>3 DEF Marks

\* The parts of a step of one process.
LEMMA ProcessStep ==
    ASSUME Inv, NEW p \in Procs, Types', Local(p)', Grows, closed' = closed,
           \A q \in Procs \ {p} : SameLocal(q), OneRun', Marks'
    PROVE  Inv'
<1>1. closed \in Nat
  BY ConstantTypes DEF Inv, Types
<1>2. \A q \in Procs \ {p} : Local(q)'
  BY <1>1, OthersKeep DEF Inv
<1>3. QED BY <1>2 DEF Inv

LEMMA OneRunKeeps ==
    ASSUME OneRun, Types, owner' = owner,
           \A q \in Procs : (step'[q] = "idle") = (step[q] = "idle"),
           faults'["disconnect"] = 0 => faults["disconnect"] = 0
    PROVE  OneRun'
BY DEF OneRun, Types

LEMMA FaultCount ==
    ASSUME Types, FaultAllowed, NEW f \in FaultKinds, Count(f)
    PROVE  /\ faults' \in [FaultKinds -> 0 .. MaxFaults]
           /\ faults'["disconnect"] = 0 => faults["disconnect"] = 0
           /\ faults' = [faults EXCEPT ![f] = @ + 1]
<1> USE ConstantTypes
<1>1. faults \in [FaultKinds -> 0 .. MaxFaults] /\ faults' = [faults EXCEPT ![f] = @ + 1]
  BY DEF Types, Count
<1>2. /\ faults["instrument"] \in 0 .. MaxFaults /\ faults["crash"] \in 0 .. MaxFaults
      /\ faults["disconnect"] \in 0 .. MaxFaults
  BY <1>1 DEF FaultKinds
<1>3. f \in {"instrument", "crash", "disconnect"}
  BY DEF FaultKinds
<1>4. faults[f] + 1 \in 0 .. MaxFaults
  BY <1>2, <1>3 DEF FaultAllowed
<1>5. faults' \in [FaultKinds -> 0 .. MaxFaults]
  BY <1>1, <1>4
<1>6. faults'["disconnect"] = 0 => faults["disconnect"] = 0
  BY <1>1, <1>2, <1>3 DEF FaultKinds
<1>7. QED BY <1>1, <1>5, <1>6

-----------------------------------------------------------------------------
(* The initial states and the clock.                                       *)

LEMMA InitInv == Init => Inv
<1> SUFFICES ASSUME Init PROVE Inv
  OBVIOUS
<1> USE ConstantTypes DEF Init
<1>1. Types
  <2>1. /\ closed \in 0 .. MaxBar /\ settled \in 0 .. closed /\ catalogue \subseteq Scanners
        /\ watermark \in [Scanners -> 0 .. closed] /\ since \in [Scanners -> 0 .. closed]
    OBVIOUS
  <2>2. cycle \in [Bars -> {"none", "running", "completed", "completed_with_errors"}]
    OBVIOUS
  <2>3. done \in [Bars -> [Instruments -> SUBSET Scanners]]
    OBVIOUS
  <2>4. reports \subseteq Bars \X Instruments
    <3>1. (Bars \cap {Start}) \X Instruments \subseteq Bars \X Instruments
      OBVIOUS
    <3>2. QED BY <3>1
  <2>5. faults \in [FaultKinds -> 0 .. MaxFaults]
    OBVIOUS
  <2>6. \A p \in Procs : 0 \in 0 .. Retries /\ 0 \in 0 .. N - 1
    OBVIOUS
  <2>7. QED BY <2>1, <2>2, <2>3, <2>4, <2>5, <2>6 DEF Types
<1>2. \A p \in Procs : Local(p)
  BY DEF Local, WellFormed, PlanIsWhole, InstrumentsAreSplit, WorkIsDone
<1>3. OneRun
  BY DEF OneRun
<1>4. Marks
  <2>1. OwnerMissesNothing
    BY DEF OwnerMissesNothing
  <2>2. PassedBarsAccountForAll
    <3> SUFFICES ASSUME NEW s \in Scanners, NEW b \in Bars,
                        0 < since[s], since[s] <= b, b <= watermark[s]
                 PROVE  \A i \in Instruments : s \in done[b][i]
      BY DEF PassedBarsAccountForAll
    <3>1. s \in First /\ watermark[s] = Start /\ since[s] = Start
      OBVIOUS
    <3>2. b = Start
      BY <3>1
    <3>3. QED BY <3>1, <3>2
  <2>3. QED BY <2>1, <2>2 DEF Marks
<1>5. QED BY <1>1, <1>2, <1>3, <1>4 DEF Inv

\* What happens outside the processes.
LEMMA ClockStep ==
    ASSUME Inv, Types', Grows, closed <= closed', UNCHANGED <<local, owner, watermark, since>>,
           faults' = faults
    PROVE  Inv'
<1>1. closed \in Nat /\ closed' \in Nat
  BY ConstantTypes DEF Inv, Types
<1>2. \A q \in Procs : SameLocal(q)
  BY DEF local, SameLocal
<1>3. \A q \in Procs : Local(q)'
  BY <1>1, <1>2, OthersKeep DEF Inv
<1>4. OneRun'
  BY OneRunKeeps DEF Inv, local
<1>5. Marks'
  BY <1>2, MarksKeep DEF Inv, SameLocal
<1>6. QED BY <1>3, <1>4, <1>5 DEF Inv

LEMMA SameGrows == ASSUME UNCHANGED <<done, failed, skipped>> PROVE Grows
BY DEF Grows

LEMMA CloseBarStep == ASSUME Inv, CloseBar PROVE Inv'
<1> USE ConstantTypes
<1>1. /\ closed < MaxBar /\ closed' = closed + 1
      /\ UNCHANGED <<settled, catalogue, watermark, cycle, done, reports, owner, local,
                     since, skipped, failed, unreported, faults>>
  BY DEF CloseBar, tables, history
<1>2. Types'
  <2>1. /\ closed' \in 0 .. MaxBar /\ 0 .. closed \subseteq 0 .. closed'
    BY <1>1 DEF Inv, Types
  <2>2. /\ watermark' \in [Scanners -> 0 .. closed'] /\ since' \in [Scanners -> 0 .. closed']
        /\ settled' \in 0 .. closed'
    BY <1>1, <2>1 DEF Inv, Types
  <2>3. QED BY <1>1, <2>1, <2>2 DEF Inv, Types, local
<1>3. closed <= closed'
  BY <1>1 DEF Inv, Types
<1>4. QED BY <1>1, <1>2, <1>3, ClockStep, SameGrows

LEMMA SettleStep == ASSUME Inv, Settle PROVE Inv'
<1> USE ConstantTypes
<1>1. /\ settled < closed /\ settled' = settled + 1
      /\ UNCHANGED <<closed, catalogue, watermark, cycle, done, reports, owner, local,
                     since, skipped, failed, unreported, faults>>
  BY DEF Settle, tables, history
<1>2. settled' \in 0 .. closed /\ closed \in Nat
  BY <1>1 DEF Inv, Types
<1>3. Types'
  BY <1>1, <1>2 DEF Inv, Types, local
<1>4. QED BY <1>1, <1>2, <1>3, ClockStep, SameGrows

LEMMA EnableScannerStep ==
    ASSUME Inv, NEW s \in Scanners, EnableScanner(s) PROVE Inv'
<1> USE ConstantTypes
<1>1. /\ catalogue' = catalogue \cup {s}
      /\ UNCHANGED <<closed, settled, watermark, cycle, done, reports, owner, local,
                     since, skipped, failed, unreported, faults>>
  BY DEF EnableScanner, tables, history
<1>2. catalogue' \subseteq Scanners /\ closed \in Nat
  BY <1>1 DEF Inv, Types
<1>3. Types'
  BY <1>1, <1>2 DEF Inv, Types, local
<1>4. closed <= closed'
  BY <1>1, <1>2
<1>5. QED BY <1>1, <1>3, <1>4, ClockStep, SameGrows

\* The evaluation of a scan is of its bar, its instrument and a scanner it has left.
LEMMA PersistGrows ==
    ASSUME Types, NEW w \in Scans, w.left # {}, Persist(w)
    PROVE  /\ done' \in [Bars -> [Instruments -> SUBSET Scanners]]
           /\ \A b \in Bars, i \in Instruments : done[b][i] \subseteq done'[b][i]
           /\ Advanced(w) \in Scans /\ Advanced(w).bar = w.bar /\ Advanced(w).inst = w.inst
           /\ Advanced(w).kit = w.kit
           /\ \A s \in w.left : s \in Advanced(w).left \/ s \in done'[w.bar][w.inst]
<1> USE ConstantTypes
<1>1. /\ w.bar \in Bars /\ w.inst \in Instruments /\ w.left \subseteq Scanners
      /\ w = [bar |-> w.bar, inst |-> w.inst, kit |-> w.kit, left |-> w.left]
  BY DEF Scans
<1>2. Lowest(w.left) \in w.left
  BY <1>1, LowestIsIn
<1>3. /\ Advanced(w) \in Scans /\ Advanced(w).bar = w.bar /\ Advanced(w).inst = w.inst
      /\ Advanced(w).left = w.left \ {Lowest(w.left)} /\ Advanced(w).kit = w.kit
  BY <1>1 DEF Advanced, Scans
<1>4. done' = [done EXCEPT ![w.bar][w.inst] = @ \cup {Lowest(w.left)}]
  BY DEF Persist
<1>5. done \in [Bars -> [Instruments -> SUBSET Scanners]]
  BY DEF Types
<1>6. done' \in [Bars -> [Instruments -> SUBSET Scanners]]
  BY <1>1, <1>2, <1>4, <1>5
<1>7. \A b \in Bars, i \in Instruments : done[b][i] \subseteq done'[b][i]
  BY <1>1, <1>4, <1>5
<1>8. Lowest(w.left) \in done'[w.bar][w.inst]
  BY <1>1, <1>4, <1>5
<1>9. QED BY <1>3, <1>6, <1>7, <1>8

\* The end of a scan reports it, or notes that nobody will.
LEMMA EndsInPairs ==
    ASSUME Types, NEW w \in Scans, NEW overtaken \in BOOLEAN, EndOfScan(w, overtaken)
    PROVE  /\ reports' \subseteq Bars \X Instruments /\ unreported' \subseteq Bars \X Instruments
           /\ reports \subseteq reports' /\ unreported \subseteq unreported'
<1>1. <<w.bar, w.inst>> \in Bars \X Instruments
  BY DEF Scans
<1>2. QED BY <1>1 DEF EndOfScan, Types

LEMMA OrphanScanStep == ASSUME Inv, OrphanScan PROVE Inv'
<1> USE ConstantTypes
<1>1. /\ UNCHANGED <<closed, settled, catalogue, watermark, cycle, owner, step, plan, kit, todo,
                     flight, ok, bad, spent, rounds, late, offset, since, skipped, failed,
                     faults>>
      /\ \E w \in orphans :
            \/ w.left # {} /\ Persist(w) /\ UNCHANGED <<reports, unreported>>
               /\ orphans' = (orphans \ {w}) \cup {Advanced(w)}
            \/ EndOfScan(w, TRUE) /\ done' = done
               /\ orphans' = orphans \ {w}
  BY DEF OrphanScan, clock, history
<1>2. Types /\ orphans \subseteq Scans
  BY DEF Inv, Types
<1>3. PICK w \in Scans :
            \/ w.left # {} /\ Persist(w) /\ UNCHANGED <<reports, unreported>>
               /\ orphans' = (orphans \ {w}) \cup {Advanced(w)}
            \/ EndOfScan(w, TRUE) /\ done' = done
               /\ orphans' = orphans \ {w}
  BY <1>1, <1>2
<1>4. /\ done' \in [Bars -> [Instruments -> SUBSET Scanners]]
      /\ \A b \in Bars, i \in Instruments : done[b][i] \subseteq done'[b][i]
  BY <1>2, <1>3, PersistGrows DEF Types
<1>5. orphans' \subseteq Scans
  <2>1. orphans' = orphans \ {w} \/ (w.left # {} /\ Persist(w)
                                    /\ orphans' = (orphans \ {w}) \cup {Advanced(w)})
    BY <1>3
  <2>2. w.left # {} /\ Persist(w) => Advanced(w) \in Scans
    BY <1>2, PersistGrows
  <2>3. QED BY <1>2, <2>1, <2>2
<1>6. reports' \subseteq Bars \X Instruments /\ unreported' \subseteq Bars \X Instruments
  <2>1. reports \subseteq Bars \X Instruments /\ unreported \subseteq Bars \X Instruments
    BY <1>2 DEF Types
  <2>2. CASE EndOfScan(w, TRUE)
    BY <1>2, <2>2, EndsInPairs
  <2>3. QED BY <1>3, <2>1, <2>2
<1>7. Types' /\ closed \in Nat
  BY <1>1, <1>2, <1>4, <1>5, <1>6 DEF Types
<1>8. Grows
  BY <1>1, <1>4 DEF Grows
<1>9. \A q \in Procs : SameLocal(q)
  BY <1>1 DEF SameLocal
<1>10. \A q \in Procs : Local(q)'
  BY <1>1, <1>2, <1>7, <1>8, <1>9, OthersKeep DEF Inv
<1>11. OneRun'
  BY <1>1, <1>2, OneRunKeeps DEF Inv
<1>12. Marks'
  BY <1>1, <1>2, <1>8, MarksKeep DEF Inv
<1>13. QED BY <1>7, <1>10, <1>11, <1>12 DEF Inv

-----------------------------------------------------------------------------
(* A run.                                                                  *)

\* No scanner has a watermark before the earliest one.
LEMMA EarliestIsLeast ==
    ASSUME Types, catalogue # {}
    PROVE  /\ EarliestWatermark(catalogue) \in Nat
           /\ \A s \in catalogue : EarliestWatermark(catalogue) <= watermark[s]
<1> USE ConstantTypes
<1>1. \A s \in catalogue : watermark[s] \in Nat
  BY DEF Types
<1>2. CASE \E s \in catalogue : watermark[s] = 0
  BY <1>1, <1>2 DEF EarliestWatermark
<1>3. CASE ~ \E s \in catalogue : watermark[s] = 0
  <2> DEFINE M == {watermark[s] : s \in catalogue}
  <2>1. M \in SUBSET Nat /\ M # {}
    BY <1>1
  <2>2. EarliestWatermark(catalogue) = Lowest(M)
    BY <1>3 DEF EarliestWatermark
  <2> HIDE DEF M
  <2>3. Lowest(M) \in M /\ \A y \in M : Lowest(M) <= y
    BY <2>1, LowestIsIn
  <2>4. \A s \in catalogue : watermark[s] \in M
    BY DEF M
  <2>5. QED BY <2>1, <2>2, <2>3, <2>4
<1>4. QED BY <1>2, <1>3

\* The due bars have closed and have no gaps; a live worker takes one.
LEMMA DueBarsAreWhole ==
    ASSUME Types, NEW p \in Procs, DueBars(p) # {}
    PROVE  /\ Horizon(p) \in 0 .. closed /\ DueBars(p) \subseteq 1 .. Horizon(p)
           /\ DueBars(p) \subseteq 1 .. closed /\ DueBars(p) \subseteq Bars /\ catalogue # {}
           /\ \A b, c \in DueBars(p) : \A x \in Bars : (b <= x /\ x <= c) => x \in DueBars(p)
           /\ p \in Live => \A b, c \in DueBars(p) : b = c
           /\ (p \notin Live /\ EarliestWatermark(catalogue) # 0) =>
                \A b \in 1 .. Horizon(p) : \/ b \in DueBars(p)
                                            \/ b <= EarliestWatermark(catalogue)
                                            \/ b <= Horizon(p) - Lookback
<1> USE ConstantTypes
<1> DEFINE now == Horizon(p)
           mark == EarliestWatermark(catalogue)
           missing == {b \in 1 .. now : b > mark /\ b > now - Lookback}
<1>1. closed \in 0 .. MaxBar /\ closed \in Nat /\ now \in 0 .. closed
  BY DEF Types, Horizon
<1>2. DueBars(p) = IF mark = 0 \/ p \in Live THEN {now} ELSE missing
  BY DEF DueBars
<1>3. catalogue # {} /\ missing # {}
  BY DEF DueBars
<1>4. mark \in Nat
  BY <1>3, EarliestIsLeast
<1> HIDE DEF now, mark
<1>6. now \in 1 .. now /\ missing \subseteq 1 .. now /\ 1 .. now \subseteq 1 .. closed
  BY <1>1, <1>3
<1>7. 1 .. closed \subseteq Bars
  BY <1>1
<1>8. CASE mark = 0 \/ p \in Live
  <2>1. DueBars(p) = {now}
    BY <1>2, <1>8
  <2>2. \A x \in Bars : (now <= x /\ x <= now) => x = now
    BY <1>1, <1>6
  <2>3. QED BY <1>1, <1>3, <1>6, <1>7, <1>8, <2>1, <2>2 DEF mark, now
<1>9. CASE ~ (mark = 0 \/ p \in Live)
  <2>1. DueBars(p) = missing
    BY <1>2, <1>9
  <2>2. \A b, c \in missing : \A x \in Bars : (b <= x /\ x <= c) => x \in missing
    BY <1>1, <1>4
  <2>3. \A b \in 1 .. now : b \in missing \/ b <= mark \/ b <= now - Lookback
    BY <1>1, <1>4
  <2>4. QED BY <1>1, <1>3, <1>6, <1>7, <1>9, <2>1, <2>2, <2>3 DEF mark, now
<1>10. QED BY <1>8, <1>9

LEMMA StartRunStep == ASSUME Inv, NEW p \in Procs, StartRun(p) PROVE Inv'
<1> USE ConstantTypes
<1>1. /\ step[p] = "idle" /\ DueBars(p) # {} /\ owner = NoProc /\ owner' = p
      /\ step' = [step EXCEPT ![p] = "cycle"]
      /\ plan' = [plan EXCEPT ![p] = DueBars(p)]
      /\ kit' = [kit EXCEPT ![p] = catalogue]
      /\ skipped' = skipped \cup LeftOut(p)
      /\ UNCHANGED <<closed, settled, catalogue, watermark, cycle, done, reports, todo, flight,
                     orphans, ok, bad, spent, rounds, late, offset, since, failed, unreported,
                     faults>>
  BY DEF StartRun, clock, tables
<1>2. Types /\ Local(p) /\ OneRun /\ Marks
  BY DEF Inv
<1>3. /\ Horizon(p) \in 0 .. closed /\ DueBars(p) \subseteq 1 .. Horizon(p)
      /\ DueBars(p) \subseteq 1 .. closed /\ DueBars(p) \subseteq Bars /\ catalogue # {}
      /\ \A b, c \in DueBars(p) : \A x \in Bars : (b <= x /\ x <= c) => x \in DueBars(p)
      /\ p \in Live => \A b, c \in DueBars(p) : b = c
  BY <1>1, <1>2, DueBarsAreWhole
<1>4. closed \in Nat /\ closed \in 0 .. MaxBar /\ LeftOut(p) \subseteq Bars
  <2>1. closed \in Nat /\ closed \in 0 .. MaxBar
    BY <1>2 DEF Types
  <2>2. QED BY <1>3, <2>1 DEF LeftOut
<1>5. Types'
  <2>1. catalogue \subseteq Scanners
    BY <1>2 DEF Types
  <2>2. plan' \in [Procs -> SUBSET Bars] /\ kit' \in [Procs -> SUBSET Scanners]
        /\ step' \in [Procs -> {"idle", "cycle", "work", "mark"}]
    BY <1>1, <1>2, <1>3, <2>1 DEF Types
  <2>3. QED BY <1>1, <1>2, <1>4, <2>2 DEF Types
<1>6. /\ step'[p] = "cycle" /\ plan'[p] = DueBars(p) /\ kit'[p] = catalogue
      /\ todo[p] = {} /\ flight[p] = {} /\ ok[p] = {} /\ bad[p] = {} /\ spent[p] = {}
      /\ p \in Live => rounds[p] \in Nat
  BY <1>1, <1>2 DEF Types, Local, InstrumentsAreSplit, WellFormed
<1>7. Grows
  BY <1>1 DEF Grows
<1>8. \A q \in Procs \ {p} : SameLocal(q)
  BY <1>1, <1>2 DEF Types, SameLocal
<1>9. Local(p)'
  <2>1. WellFormed(p)' /\ InstrumentsAreSplit(p)' /\ WorkIsDone(p)'
    BY <1>1, <1>6 DEF WellFormed, InstrumentsAreSplit, WorkIsDone
  <2>2. PlanIsWhole(p)'
    <3>1. \A b \in DueBars(p) : b <= closed
      BY <1>3, <1>4
    <3>2. (late[p] \/ spent[p] # {}) => p \in Live
      BY <1>2 DEF Local, PlanIsWhole
    <3>3. p \in Live => rounds[p] = 0
      BY <1>2 DEF Local, PlanIsWhole
    <3>4. QED BY <1>1, <1>3, <1>6, <3>1, <3>2, <3>3 DEF PlanIsWhole
  <2>3. QED BY <2>1, <2>2 DEF Local
<1>10. OneRun'
  <2>1. faults["disconnect"] = 0 => \A q \in Procs : step[q] = "idle"
    BY <1>1, <1>2 DEF OneRun
  <2>2. QED BY <1>1, <1>2, <1>6, <2>1 DEF OneRun, Types
<1>11. Marks'
  <2>1. \A s \in Scanners, b \in Bars : Accounted(s, b) => Accounted(s, b)'
    BY <1>1 DEF Accounted
  <2>2. PassedBarsAccountForAll'
    BY <1>1, <1>2 DEF Marks, PassedBarsAccountForAll
  <2>3. OwnerMissesNothing'
    <3> SUFFICES ASSUME NEW s \in catalogue, NEW b \in Bars, 0 < watermark[s],
                        watermark[s] < b, b < Bar(p)', b \notin skipped'
                 PROVE  Accounted(s, b)'
      BY <1>1, <1>6 DEF OwnerMissesNothing
    <3>1. Bar(p)' \in DueBars(p) /\ \A c \in DueBars(p) : Bar(p)' <= c
      <4>1. DueBars(p) \in SUBSET Nat
        BY <1>3
      <4>2. Bar(p)' = Lowest(DueBars(p))
        BY <1>6 DEF Bar
      <4>3. QED BY <1>1, <4>1, <4>2, LowestIsIn
    <3>2. Bar(p)' \in 1 .. Horizon(p)
      BY <1>3, <3>1
    <3>3. b \in 1 .. Horizon(p) /\ b \notin DueBars(p)
      BY <1>3, <1>4, <3>1, <3>2
    <3>4. watermark[s] \in Nat /\ EarliestWatermark(catalogue) <= watermark[s]
          /\ EarliestWatermark(catalogue) \in Nat
      <4>1. watermark[s] \in Nat
        BY <1>2 DEF Types
      <4>2. QED BY <1>2, <1>3, <4>1, EarliestIsLeast
    <3>5. p \in Live \/ EarliestWatermark(catalogue) = 0 \/ b <= Horizon(p) - Lookback
      <4>1. ~ (b <= EarliestWatermark(catalogue))
        BY <3>4
      <4>2. QED BY <1>1, <1>2, <3>3, <4>1, DueBarsAreWhole
    <3>6. b \in LeftOut(p)
      BY <3>3, <3>4, <3>5 DEF LeftOut
    <3>7. QED BY <1>1, <3>6
  <2>4. QED BY <1>1, <1>2, <2>2, <2>3 DEF Marks
<1>12. QED BY <1>1, <1>5, <1>7, <1>8, <1>9, <1>10, <1>11, ProcessStep

LEMMA StartCycleStep == ASSUME Inv, NEW p \in Procs, StartCycle(p) PROVE Inv'
<1> USE ConstantTypes
<1>1. /\ step[p] = "cycle" /\ owner = p
      /\ cycle' = [cycle EXCEPT ![Bar(p)] = "running"]
      /\ step' = [step EXCEPT ![p] = "work"]
      /\ todo' = [todo EXCEPT ![p] = Instruments]
      /\ ok' = [ok EXCEPT ![p] = {}]
      /\ bad' = [bad EXCEPT ![p] = {}]
      /\ spent' = [spent EXCEPT ![p] = {}]
      /\ rounds' = [rounds EXCEPT ![p] = IF p \in Live THEN 0 ELSE Retries]
      /\ late' = [late EXCEPT ![p] = FALSE]
      /\ UNCHANGED <<closed, settled, catalogue, watermark, done, reports, owner, plan, kit,
                     flight, orphans, offset, since, skipped, failed, unreported, faults>>
  BY DEF StartCycle, clock, history
<1>2. Types /\ Local(p) /\ OneRun /\ Marks
  BY DEF Inv
<1>3. 0 \in 0 .. Retries /\ Retries \in 0 .. Retries
  OBVIOUS
<1>4. Types'
  BY <1>1, <1>2, <1>3 DEF Types
<1>5. /\ step'[p] = "work" /\ todo'[p] = Instruments /\ ok'[p] = {} /\ bad'[p] = {}
      /\ spent'[p] = {} /\ (p \in Live => rounds'[p] = 0) /\ late'[p] = FALSE
      /\ plan[p] # {} /\ flight[p] = {} /\ Bar(p)' = Bar(p)
  BY <1>1, <1>2 DEF Types, Local, InstrumentsAreSplit, WellFormed, Bar
<1>6. Local(p)'
  <2>1. WellFormed(p)' /\ InstrumentsAreSplit(p)' /\ WorkIsDone(p)'
    BY <1>1, <1>5 DEF WellFormed, InstrumentsAreSplit, WorkIsDone
  <2>2. PlanIsWhole(p)'
    BY <1>1, <1>2, <1>5 DEF Local, PlanIsWhole
  <2>3. QED BY <2>1, <2>2 DEF Local
<1>7. \A q \in Procs \ {p} : SameLocal(q)
  BY <1>1, <1>2 DEF Types, SameLocal
<1>8. OneRun'
  BY <1>1, <1>2, <1>5, <1>7, OneRunKeeps DEF SameLocal
<1>9. Grows
  BY <1>1, SameGrows
<1>10. Marks'
  BY <1>1, <1>2, <1>9, MarksKeep
<1>11. QED BY <1>1, <1>4, <1>6, <1>7, <1>8, <1>9, <1>10, ProcessStep

LEMMA BeginStep == ASSUME Inv, NEW p \in Procs, Begin(p) PROVE Inv'
<1> USE ConstantTypes
<1>1. /\ step[p] = "work"
      /\ UNCHANGED <<closed, settled, catalogue, watermark, cycle, done, reports, owner, step,
                     plan, kit, orphans, rounds, late, offset, since, skipped, failed,
                     unreported, faults>>
  BY DEF Begin, clock, tables, history
<1>2. PICK i \in todo[p] :
        /\ todo' = [todo EXCEPT ![p] = @ \ {i}]
        /\ \/ /\ late[p]
              /\ bad' = [bad EXCEPT ![p] = @ \cup {i}]
              /\ spent' = [spent EXCEPT ![p] = @ \cup {i}]
              /\ UNCHANGED <<ok, flight>>
           \/ /\ ~late[p] /\ Resumed(p, i)
              /\ ok' = [ok EXCEPT ![p] = @ \cup {i}]
              /\ UNCHANGED <<bad, spent, flight>>
           \/ /\ ~late[p] /\ ~Resumed(p, i)
              /\ flight' = [flight EXCEPT ![p] = @ \cup {NewScan(p, i)}]
              /\ UNCHANGED <<ok, bad, spent>>
  BY DEF Begin
<1>3. Types /\ Local(p) /\ OneRun /\ Marks
  BY DEF Inv
<1>4. i \in Instruments /\ plan[p] # {} /\ kit[p] \in SUBSET Scanners
  BY <1>1, <1>3 DEF Types, Local, WellFormed
<1>5. Bar(p) \in Bars /\ Bar(p)' = Bar(p)
  BY <1>1, <1>3, <1>4, BarIsFirst DEF Bar
<1> DEFINE w == NewScan(p, i)
<1>6. w \in Scans /\ w.bar = Bar(p) /\ w.inst = i /\ w.left = kit[p] /\ w.kit = kit[p]
  BY <1>4, <1>5 DEF Scans, NewScan
<1> HIDE DEF w
<1>7. todo'[p] = todo[p] \ {i} /\ i \in todo[p] /\ i \notin ok[p] \cup bad[p]
      /\ \A v \in flight[p] : v.inst # i
  BY <1>2, <1>3 DEF Types, Local, InstrumentsAreSplit
<1>8. \/ /\ late[p] /\ bad'[p] = bad[p] \cup {i} /\ spent'[p] = spent[p] \cup {i}
         /\ ok'[p] = ok[p] /\ flight'[p] = flight[p]
      \/ /\ kit[p] \subseteq done[Bar(p)][i] /\ ok'[p] = ok[p] \cup {i}
         /\ bad'[p] = bad[p] /\ spent'[p] = spent[p] /\ flight'[p] = flight[p]
      \/ /\ flight'[p] = flight[p] \cup {w} /\ ok'[p] = ok[p] /\ bad'[p] = bad[p]
         /\ spent'[p] = spent[p]
  BY <1>2, <1>3 DEF Types, Resumed, w
<1>9. Types'
  <2>1. todo' \in [Procs -> SUBSET Instruments]
    BY <1>2, <1>3 DEF Types
  <2>2. /\ ok' = ok \/ ok' = [ok EXCEPT ![p] = @ \cup {i}]
        /\ bad' = bad \/ bad' = [bad EXCEPT ![p] = @ \cup {i}]
        /\ spent' = spent \/ spent' = [spent EXCEPT ![p] = @ \cup {i}]
        /\ flight' = flight \/ flight' = [flight EXCEPT ![p] = @ \cup {w}]
    BY <1>2 DEF w
  <2>3. /\ ok \in [Procs -> SUBSET Instruments] /\ bad \in [Procs -> SUBSET Instruments]
        /\ spent \in [Procs -> SUBSET Instruments] /\ flight \in [Procs -> SUBSET Scans]
    BY <1>3 DEF Types
  <2>4. ok' \in [Procs -> SUBSET Instruments]
    <3>1. CASE ok' = ok
      BY <2>3, <3>1
    <3>2. CASE ok' = [ok EXCEPT ![p] = @ \cup {i}]
      <4>1. ok[p] \cup {i} \in SUBSET Instruments
        BY <1>4, <2>3
      <4>2. QED BY <2>3, <3>2, <4>1
    <3>3. QED BY <2>2, <3>1, <3>2
  <2>5. bad' \in [Procs -> SUBSET Instruments]
    <3>1. CASE bad' = bad
      BY <2>3, <3>1
    <3>2. CASE bad' = [bad EXCEPT ![p] = @ \cup {i}]
      <4>1. bad[p] \cup {i} \in SUBSET Instruments
        BY <1>4, <2>3
      <4>2. QED BY <2>3, <3>2, <4>1
    <3>3. QED BY <2>2, <3>1, <3>2
  <2>6. spent' \in [Procs -> SUBSET Instruments]
    <3>1. CASE spent' = spent
      BY <2>3, <3>1
    <3>2. CASE spent' = [spent EXCEPT ![p] = @ \cup {i}]
      <4>1. spent[p] \cup {i} \in SUBSET Instruments
        BY <1>4, <2>3
      <4>2. QED BY <2>3, <3>2, <4>1
    <3>3. QED BY <2>2, <3>1, <3>2
  <2>7. flight' \in [Procs -> SUBSET Scans]
    <3>1. CASE flight' = flight
      BY <2>3, <3>1
    <3>2. CASE flight' = [flight EXCEPT ![p] = @ \cup {w}]
      BY <1>6, <2>3, <3>2
    <3>3. QED BY <2>2, <3>1, <3>2
  <2>8. QED BY <1>1, <1>3, <2>1, <2>4, <2>5, <2>6, <2>7 DEF Types
<1>10. Local(p)'
  <2>1. WellFormed(p)'
    BY <1>1, <1>3, <1>7, <1>8 DEF Local, WellFormed
  <2>2. PlanIsWhole(p)'
    BY <1>1, <1>3, <1>8 DEF Local, PlanIsWhole
  <2>3. InstrumentsAreSplit(p)'
    BY <1>1, <1>3, <1>6, <1>7, <1>8 DEF Local, InstrumentsAreSplit
  <2>4. WorkIsDone(p)'
    BY <1>1, <1>3, <1>5, <1>6, <1>8 DEF Local, WorkIsDone
  <2>5. QED BY <2>1, <2>2, <2>3, <2>4 DEF Local
<1>11. \A q \in Procs \ {p} : SameLocal(q)
  BY <1>1, <1>2, <1>3 DEF Types, SameLocal
<1>12. OneRun'
  BY <1>1, <1>3, OneRunKeeps
<1>13. Grows
  BY <1>1, SameGrows
<1>14. Marks'
  BY <1>1, <1>3, <1>13, MarksKeep
<1>15. QED BY <1>1, <1>9, <1>10, <1>11, <1>12, <1>13, <1>14, ProcessStep

LEMMA EvaluateStep == ASSUME Inv, NEW p \in Procs, Evaluate(p) PROVE Inv'
<1> USE ConstantTypes
<1>1. UNCHANGED <<closed, settled, catalogue, watermark, cycle, reports, owner, step, plan, kit,
                  todo, orphans, ok, bad, spent, rounds, late, offset, since, skipped, failed,
                  unreported, faults>>
  BY DEF Evaluate, clock, history
<1>2. PICK w \in flight[p] :
        /\ w.left # {} /\ Persist(w)
        /\ flight' = [flight EXCEPT ![p] = (@ \ {w}) \cup {Advanced(w)}]
  BY DEF Evaluate
<1>3. Types /\ Local(p) /\ OneRun /\ Marks
  BY DEF Inv
<1>4. w \in Scans
  BY <1>3 DEF Types
<1>5. /\ done' \in [Bars -> [Instruments -> SUBSET Scanners]]
      /\ \A b \in Bars, i \in Instruments : done[b][i] \subseteq done'[b][i]
      /\ Advanced(w) \in Scans /\ Advanced(w).bar = w.bar /\ Advanced(w).inst = w.inst
      /\ Advanced(w).kit = w.kit
      /\ \A s \in w.left : s \in Advanced(w).left \/ s \in done'[w.bar][w.inst]
  BY <1>2, <1>3, <1>4, PersistGrows
<1>6. Types'
  <2>1. flight' \in [Procs -> SUBSET Scans]
    BY <1>2, <1>3, <1>5 DEF Types
  <2>2. QED BY <1>1, <1>3, <1>5, <2>1 DEF Types
<1>7. flight'[p] = (flight[p] \ {w}) \cup {Advanced(w)} /\ Bar(p)' = Bar(p)
  BY <1>1, <1>2, <1>3 DEF Types, Bar
<1>8. Grows
  BY <1>1, <1>5 DEF Grows
<1>9. Local(p)'
  <2>1. WellFormed(p)' /\ PlanIsWhole(p)'
    BY <1>1, <1>3 DEF Local, WellFormed, PlanIsWhole
  <2>2. InstrumentsAreSplit(p)'
    BY <1>1, <1>2, <1>3, <1>5, <1>7 DEF Local, InstrumentsAreSplit
  <2>3. WorkIsDone(p)'
    <3>1. Bar(p) \in Bars /\ w.bar = Bar(p) /\ w.kit = kit[p] /\ w.inst \in Instruments
      BY <1>2, <1>3, <1>4 DEF Local, WorkIsDone, Scans
    <3>2. \A i \in ok[p] : kit[p] \subseteq done'[Bar(p)][i]
      <4>1. \A i \in ok[p] : i \in Instruments
        BY <1>3 DEF Types
      <4>2. QED BY <1>3, <1>5, <3>1, <4>1 DEF Local, WorkIsDone
    <3>3. \A v \in flight[p] : /\ v.bar = Bar(p) /\ v.kit = kit[p] /\ v.inst \in Instruments
                               /\ \A s \in kit[p] : s \in v.left \/ s \in done'[v.bar][v.inst]
      <4>1. \A v \in flight[p] : v.inst \in Instruments
        BY <1>3 DEF Types, Scans
      <4>2. QED BY <1>3, <1>5, <3>1, <4>1 DEF Local, WorkIsDone
    <3>4. \A s \in kit[p] : s \in Advanced(w).left \/ s \in done'[w.bar][w.inst]
      BY <1>2, <1>5, <3>3
    <3>5. \A v \in flight'[p] :
            /\ v.bar = Bar(p) /\ v.kit = kit[p]
            /\ \A s \in kit[p] : s \in v.left \/ s \in done'[v.bar][v.inst]
      BY <1>5, <1>7, <3>1, <3>3, <3>4
    <3>6. step[p] = "mark" => \A i \in bad[p] \ spent[p] : <<Bar(p), i>> \in failed
      BY <1>3 DEF Local, WorkIsDone
    <3>7. QED BY <1>1, <1>7, <3>2, <3>5, <3>6 DEF WorkIsDone
  <2>4. QED BY <2>1, <2>2, <2>3 DEF Local
<1>10. \A q \in Procs \ {p} : SameLocal(q)
  BY <1>1, <1>2, <1>3 DEF Types, SameLocal
<1>11. OneRun'
  BY <1>1, <1>3, OneRunKeeps
<1>12. Marks'
  BY <1>1, <1>3, <1>8, MarksKeep
<1>13. QED BY <1>1, <1>6, <1>8, <1>9, <1>10, <1>11, <1>12, ProcessStep

LEMMA ReportStep == ASSUME Inv, NEW p \in Procs, Report(p) PROVE Inv'
<1> USE ConstantTypes
<1>1. UNCHANGED <<closed, settled, catalogue, watermark, cycle, done, owner, step, plan, kit,
                  todo, orphans, bad, spent, rounds, late, offset, since, skipped, failed,
                  faults>>
  BY DEF Report, clock, history
<1>2. PICK w \in flight[p] :
        /\ w.left = {}
        /\ EndOfScan(w, owner # p)
        /\ ok' = [ok EXCEPT ![p] = @ \cup {w.inst}]
        /\ flight' = [flight EXCEPT ![p] = @ \ {w}]
  BY DEF Report
<1>3. Types /\ Local(p) /\ OneRun /\ Marks
  BY DEF Inv
<1>4. w \in Scans /\ w.bar \in Bars /\ w.inst \in Instruments
  BY <1>3 DEF Types, Scans
<1>5. Types'
  <2>1. flight' \in [Procs -> SUBSET Scans] /\ ok' \in [Procs -> SUBSET Instruments]
    BY <1>2, <1>3, <1>4 DEF Types
  <2>2. reports' \subseteq Bars \X Instruments /\ unreported' \subseteq Bars \X Instruments
    BY <1>2, <1>3, <1>4, EndsInPairs
  <2>3. QED BY <1>1, <1>3, <2>1, <2>2 DEF Types
<1>6. /\ flight'[p] = flight[p] \ {w} /\ ok'[p] = ok[p] \cup {w.inst} /\ Bar(p)' = Bar(p)
      /\ w.inst \notin todo[p] \cup ok[p] \cup bad[p] /\ step[p] = "work"
      /\ \A v \in flight[p] \ {w} : v.inst # w.inst
      /\ w.bar = Bar(p) /\ kit[p] \subseteq done[Bar(p)][w.inst]
  <2>1. /\ w.inst \notin todo[p] \cup ok[p] \cup bad[p] /\ step[p] = "work"
        /\ \A v \in flight[p] \ {w} : v.inst # w.inst
    BY <1>3 DEF Local, InstrumentsAreSplit
  <2>2. w.bar = Bar(p) /\ kit[p] \subseteq done[Bar(p)][w.inst]
    BY <1>2, <1>3 DEF Local, WorkIsDone
  <2>3. flight'[p] = flight[p] \ {w} /\ ok'[p] = ok[p] \cup {w.inst} /\ Bar(p)' = Bar(p)
    BY <1>1, <1>2, <1>3 DEF Types, Bar
  <2>4. QED BY <2>1, <2>2, <2>3
<1>7. Local(p)'
  <2>1. WellFormed(p)' /\ PlanIsWhole(p)'
    BY <1>1, <1>3, <1>6 DEF Local, WellFormed, PlanIsWhole
  <2>2. InstrumentsAreSplit(p)'
    BY <1>1, <1>3, <1>6 DEF Local, InstrumentsAreSplit
  <2>3. WorkIsDone(p)'
    BY <1>1, <1>3, <1>6 DEF Local, WorkIsDone
  <2>4. QED BY <2>1, <2>2, <2>3 DEF Local
<1>8. \A q \in Procs \ {p} : SameLocal(q)
  BY <1>1, <1>2, <1>3 DEF Types, SameLocal
<1>9. OneRun'
  BY <1>1, <1>3, OneRunKeeps
<1>10. Grows
  BY <1>1, SameGrows
<1>11. Marks'
  BY <1>1, <1>3, <1>10, MarksKeep
<1>12. QED BY <1>1, <1>5, <1>7, <1>8, <1>9, <1>10, <1>11, ProcessStep

LEMMA FailInstrumentStep == ASSUME Inv, NEW p \in Procs, FailInstrument(p) PROVE Inv'
<1> USE ConstantTypes
<1>1. /\ UNCHANGED <<closed, settled, catalogue, watermark, cycle, done, reports, owner, step,
                     plan, kit, todo, orphans, ok, spent, rounds, late, offset, since, skipped,
                     failed>>
      /\ FaultAllowed /\ Count("instrument")
  BY DEF FailInstrument, clock, tables
<1>2. PICK w \in flight[p] :
        /\ bad' = [bad EXCEPT ![p] = @ \cup {w.inst}]
        /\ flight' = [flight EXCEPT ![p] = @ \ {w}]
        /\ unreported' = unreported \cup AwaitReport({w})
  BY DEF FailInstrument
<1>3. Types /\ Local(p) /\ OneRun /\ Marks
  BY DEF Inv
<1>4. /\ w \in Scans /\ w.bar \in Bars /\ w.inst \in Instruments
      /\ AwaitReport({w}) \subseteq Bars \X Instruments
  BY <1>3 DEF Types, Scans, AwaitReport
<1>5. /\ faults' \in [FaultKinds -> 0 .. MaxFaults]
      /\ faults'["disconnect"] = 0 => faults["disconnect"] = 0
  BY <1>1, <1>3, FaultCount DEF FaultKinds
<1>6. Types'
  <2>1. flight' \in [Procs -> SUBSET Scans] /\ bad' \in [Procs -> SUBSET Instruments]
    BY <1>2, <1>3, <1>4 DEF Types
  <2>2. QED BY <1>1, <1>2, <1>3, <1>4, <1>5, <2>1 DEF Types
<1>7. /\ flight'[p] = flight[p] \ {w} /\ bad'[p] = bad[p] \cup {w.inst} /\ Bar(p)' = Bar(p)
      /\ w.inst \notin todo[p] \cup ok[p] \cup bad[p] /\ step[p] = "work"
      /\ \A v \in flight[p] \ {w} : v.inst # w.inst
  BY <1>1, <1>2, <1>3 DEF Types, Bar, Local, InstrumentsAreSplit
<1>8. Local(p)'
  <2>1. WellFormed(p)' /\ PlanIsWhole(p)'
    BY <1>1, <1>3, <1>7 DEF Local, WellFormed, PlanIsWhole
  <2>2. InstrumentsAreSplit(p)'
    BY <1>1, <1>3, <1>7 DEF Local, InstrumentsAreSplit
  <2>3. WorkIsDone(p)'
    BY <1>1, <1>3, <1>7 DEF Local, WorkIsDone
  <2>4. QED BY <2>1, <2>2, <2>3 DEF Local
<1>9. \A q \in Procs \ {p} : SameLocal(q)
  BY <1>1, <1>2, <1>3 DEF Types, SameLocal
<1>10. OneRun'
  BY <1>1, <1>3, <1>5, OneRunKeeps
<1>11. Grows
  BY <1>1, SameGrows
<1>12. Marks'
  BY <1>1, <1>3, <1>11, MarksKeep
<1>13. QED BY <1>1, <1>6, <1>8, <1>9, <1>10, <1>11, <1>12, ProcessStep

LEMMA ExpireStep == ASSUME Inv, NEW p \in Procs, Expire(p) PROVE Inv'
<1>1. /\ p \in Live /\ late' = [late EXCEPT ![p] = TRUE]
      /\ UNCHANGED <<closed, settled, catalogue, watermark, cycle, done, reports, owner, step,
                     plan, kit, todo, flight, orphans, ok, bad, spent, rounds, offset, since,
                     skipped, failed, unreported, faults>>
  BY DEF Expire, clock, tables, history
<1>2. Types /\ Local(p) /\ OneRun /\ Marks
  BY DEF Inv
<1>3. Types' /\ Bar(p)' = Bar(p)
  BY <1>1, <1>2 DEF Types, Bar
<1>4. Local(p)'
  BY <1>1, <1>2, <1>3 DEF Local, WellFormed, PlanIsWhole, InstrumentsAreSplit, WorkIsDone
<1>5. \A q \in Procs \ {p} : SameLocal(q)
  BY <1>1, <1>2 DEF Types, SameLocal
<1>6. OneRun' /\ Grows
  BY <1>1, <1>2, OneRunKeeps, SameGrows
<1>7. Marks'
  BY <1>1, <1>2, <1>6, MarksKeep
<1>8. QED BY <1>1, <1>3, <1>4, <1>5, <1>6, <1>7, ProcessStep

LEMMA RetryStep == ASSUME Inv, NEW p \in Procs, Retry(p) PROVE Inv'
<1> USE ConstantTypes
<1>1. /\ RoundOver(p) /\ rounds[p] > 0
      /\ todo' = [todo EXCEPT ![p] = bad[p]]
      /\ bad' = [bad EXCEPT ![p] = {}]
      /\ rounds' = [rounds EXCEPT ![p] = @ - 1]
      /\ UNCHANGED <<closed, settled, catalogue, watermark, cycle, done, reports, owner, step,
                     plan, kit, flight, orphans, ok, spent, late, offset, since, skipped,
                     failed, unreported, faults>>
  BY DEF Retry, clock, tables, history
<1>2. Types /\ Local(p) /\ OneRun /\ Marks
  BY DEF Inv
<1>3. /\ step[p] = "work" /\ todo[p] = {} /\ flight[p] = {} /\ rounds[p] \in 0 .. Retries
      /\ p \notin Live /\ spent[p] = {} /\ Bar(p)' = Bar(p)
  BY <1>1, <1>2 DEF RoundOver, Types, Local, PlanIsWhole, Bar
<1>4. rounds[p] - 1 \in 0 .. Retries
  BY <1>1, <1>3
<1>5. Types' /\ todo'[p] = bad[p] /\ bad'[p] = {}
  BY <1>1, <1>2, <1>4 DEF Types
<1>6. Local(p)'
  <2>1. WellFormed(p)' /\ PlanIsWhole(p)'
    BY <1>1, <1>2, <1>3, <1>5 DEF Local, WellFormed, PlanIsWhole
  <2>2. InstrumentsAreSplit(p)'
    BY <1>1, <1>2, <1>3, <1>5 DEF Local, InstrumentsAreSplit, WellFormed
  <2>3. WorkIsDone(p)'
    BY <1>1, <1>2, <1>3 DEF Local, WorkIsDone
  <2>4. QED BY <2>1, <2>2, <2>3 DEF Local
<1>7. \A q \in Procs \ {p} : SameLocal(q)
  BY <1>1, <1>2 DEF Types, SameLocal
<1>8. OneRun' /\ Grows
  BY <1>1, <1>2, OneRunKeeps, SameGrows
<1>9. Marks'
  BY <1>1, <1>2, <1>8, MarksKeep
<1>10. QED BY <1>1, <1>5, <1>6, <1>7, <1>8, <1>9, ProcessStep

LEMMA FinishCycleStep == ASSUME Inv, NEW p \in Procs, FinishCycle(p) PROVE Inv'
<1> USE ConstantTypes
<1>1. /\ RoundOver(p)
      /\ cycle' = [cycle EXCEPT ![Bar(p)] =
                     IF bad[p] = {} THEN "completed" ELSE "completed_with_errors"]
      /\ failed' = failed \cup {<<Bar(p), i>> : i \in bad[p] \ spent[p]}
      /\ step' = [step EXCEPT ![p] = "mark"]
      /\ UNCHANGED <<closed, settled, catalogue, watermark, done, reports, owner, plan, kit,
                     todo, flight, orphans, ok, bad, spent, rounds, late, offset, since,
                     skipped, unreported, faults>>
  BY DEF FinishCycle, clock
<1>2. Types /\ Local(p) /\ OneRun /\ Marks
  BY DEF Inv
<1>3. step[p] = "work" /\ todo[p] = {} /\ flight[p] = {} /\ plan[p] # {} /\ Bar(p)' = Bar(p)
  BY <1>1, <1>2 DEF RoundOver, Local, WellFormed, Bar
<1>4. Bar(p) \in Bars
  BY <1>2, <1>3, BarIsFirst
<1>5. Types'
  <2>1. failed' \subseteq Bars \X Instruments
    <3>1. bad[p] \subseteq Instruments /\ failed \subseteq Bars \X Instruments
      BY <1>2 DEF Types
    <3>2. QED BY <1>1, <1>4, <3>1
  <2>2. step' \in [Procs -> {"idle", "cycle", "work", "mark"}]
    BY <1>1, <1>2 DEF Types
  <2>3. cycle' \in [Bars -> {"none", "running", "completed", "completed_with_errors"}]
    BY <1>1, <1>2 DEF Types
  <2>4. QED BY <1>1, <1>2, <2>1, <2>2, <2>3 DEF Types
<1>6. step'[p] = "mark"
  BY <1>1, <1>2 DEF Types
<1>7. Local(p)'
  <2>1. WellFormed(p)' /\ PlanIsWhole(p)'
    BY <1>1, <1>2, <1>3, <1>6 DEF Local, WellFormed, PlanIsWhole
  <2>2. InstrumentsAreSplit(p)'
    BY <1>1, <1>2, <1>3, <1>6 DEF Local, InstrumentsAreSplit
  <2>3. WorkIsDone(p)'
    BY <1>1, <1>2, <1>3 DEF Local, WorkIsDone
  <2>4. QED BY <2>1, <2>2, <2>3 DEF Local
<1>8. \A q \in Procs \ {p} : SameLocal(q)
  BY <1>1, <1>2 DEF Types, SameLocal
<1>9. OneRun'
  BY <1>1, <1>2, <1>3, <1>6, <1>8, OneRunKeeps DEF SameLocal
<1>10. Grows
  BY <1>1 DEF Grows
<1>11. Marks'
  BY <1>1, <1>2, <1>10, MarksKeep
<1>12. QED BY <1>1, <1>5, <1>7, <1>8, <1>9, <1>10, <1>11, ProcessStep

\* The offset of a lane stays in the universe.
LEMMA OffsetType ==
    ASSUME Types, NEW p \in Procs
    PROVE  NextOffset(p) \in 0 .. N - 1
<1> USE ConstantTypes
<1>1. ok[p] \subseteq Instruments /\ bad[p] \ spent[p] \subseteq Instruments
  BY DEF Types
<1>2. IsFiniteSet(ok[p]) /\ IsFiniteSet(bad[p] \ spent[p])
  <2>1. IsFiniteSet(Instruments)
    OBVIOUS
  <2>2. QED BY <1>1, <2>1, FS_Subset
<1>3. Cardinality(ok[p]) \in Nat /\ Cardinality(bad[p] \ spent[p]) \in Nat
  BY <1>2, FS_CardinalityType
<1>4. offset[p] \in Nat
  BY DEF Types
<1> DEFINE k == offset[p] + Cardinality(ok[p]) + Cardinality(bad[p] \ spent[p])
<1>5. k \in Nat
  BY <1>3, <1>4
<1>6. NextOffset(p) = IF p \in Live THEN k % N ELSE 0
  BY DEF NextOffset
<1> HIDE DEF k
<1>7. QED BY <1>5, <1>6

\* When a process marks, every instrument has the evaluations or a failure.
LEMMA MarkedIsAccounted ==
    ASSUME Types, NEW p \in Procs, Local(p), step[p] = "mark", spent[p] = {}
    PROVE  \A s \in kit[p] : Accounted(s, Bar(p))
<1> SUFFICES ASSUME NEW s \in kit[p], NEW i \in Instruments
             PROVE  s \in done[Bar(p)][i] \/ <<Bar(p), i>> \in failed
  BY DEF Accounted
<1>1. i \in ok[p] \/ i \in bad[p]
  BY DEF Local, InstrumentsAreSplit
<1>2. QED BY <1>1 DEF Local, WorkIsDone

LEMMA MarkStep == ASSUME Inv, NEW p \in Procs, Mark(p) PROVE Inv'
<1> USE ConstantTypes
<1> DEFINE more == plan[p] # {Bar(p)}
<1>1. /\ step[p] = "mark" /\ owner = p
      /\ watermark' = [s \in Scanners |->
            IF Advances(p) /\ s \in kit[p] /\ Bar(p) > watermark[s]
            THEN Bar(p) ELSE watermark[s]]
      /\ since' = [s \in Scanners |-> IF since[s] = 0 THEN watermark'[s] ELSE since[s]]
      /\ plan' = [plan EXCEPT ![p] = @ \ {Bar(p)}]
      /\ ok' = [ok EXCEPT ![p] = {}]
      /\ bad' = [bad EXCEPT ![p] = {}]
      /\ spent' = [spent EXCEPT ![p] = {}]
      /\ UNCHANGED <<closed, settled, catalogue, cycle, done, reports, todo, flight, orphans,
                     rounds, skipped, failed, unreported, faults>>
  BY DEF Mark, clock
<1>2. IF more
      THEN /\ step' = [step EXCEPT ![p] = "cycle"]
           /\ owner' = owner /\ kit' = kit /\ offset' = offset /\ late' = late
      ELSE /\ step' = [step EXCEPT ![p] = "idle"]
           /\ owner' = NoProc
           /\ kit' = [kit EXCEPT ![p] = {}]
           /\ late' = [late EXCEPT ![p] = FALSE]
           /\ offset' = [offset EXCEPT ![p] = NextOffset(p)]
  BY DEF Mark
<1> HIDE DEF more
<1>3. Types /\ Local(p) /\ OneRun /\ Marks
  BY DEF Inv
<1>4. plan[p] # {} /\ todo[p] = {} /\ flight[p] = {} /\ plan[p] \subseteq Bars
  BY <1>1, <1>3 DEF Types, Local, WellFormed, InstrumentsAreSplit
<1>5. Bar(p) \in plan[p] /\ Bar(p) \in Bars /\ \A b \in plan[p] : Bar(p) <= b
  BY <1>3, <1>4, BarIsFirst
<1>6. Bar(p) \in 0 .. closed /\ closed \in Nat
  <2>1. Bar(p) <= closed /\ closed \in Nat
    BY <1>3, <1>5 DEF Local, PlanIsWhole, Types
  <2>2. QED BY <1>5, <2>1
<1>7. plan'[p] = plan[p] \ {Bar(p)} /\ (more => plan'[p] # {}) /\ (~more => plan'[p] = {})
  BY <1>1, <1>3, <1>5 DEF Types, more
<1>8. Types'
  <2>1. watermark' \in [Scanners -> 0 .. closed]
    BY <1>1, <1>3, <1>6 DEF Types
  <2>2. since' \in [Scanners -> 0 .. closed]
    BY <1>1, <1>3, <2>1 DEF Types
  <2>3. /\ plan' \in [Procs -> SUBSET Bars] /\ ok' \in [Procs -> SUBSET Instruments]
        /\ bad' \in [Procs -> SUBSET Instruments] /\ spent' \in [Procs -> SUBSET Instruments]
    BY <1>1, <1>3 DEF Types
  <2>4. /\ step' \in [Procs -> {"idle", "cycle", "work", "mark"}]
        /\ owner' \in Procs \cup {NoProc} /\ kit' \in [Procs -> SUBSET Scanners]
        /\ late' \in [Procs -> BOOLEAN] /\ offset' \in [Procs -> 0 .. N - 1]
    <3>1. CASE more
      BY <1>1, <1>2, <1>3, <3>1 DEF Types
    <3>2. CASE ~more
      <4>1. NextOffset(p) \in 0 .. N - 1
        BY <1>3, OffsetType
      <4>2. /\ step' \in [Procs -> {"idle", "cycle", "work", "mark"}]
            /\ owner' \in Procs \cup {NoProc}
        BY <1>2, <1>3, <3>2 DEF Types
      <4>3. kit' \in [Procs -> SUBSET Scanners] /\ late' \in [Procs -> BOOLEAN]
        BY <1>2, <1>3, <3>2 DEF Types
      <4>4. offset' \in [Procs -> 0 .. N - 1]
        <5>1. PICK k \in 0 .. N - 1 : offset' = [offset EXCEPT ![p] = k]
          BY <1>2, <3>2, <4>1
        <5>2. QED BY <1>3, <5>1 DEF Types
      <4>5. QED BY <4>2, <4>3, <4>4
    <3>3. QED BY <3>1, <3>2
  <2>5. QED BY <1>1, <1>3, <2>1, <2>2, <2>3, <2>4 DEF Types
<1>9. /\ ok'[p] = {} /\ bad'[p] = {} /\ spent'[p] = {}
      /\ step'[p] = IF more THEN "cycle" ELSE "idle"
      /\ late'[p] => late[p]
  <2>1. ok'[p] = {} /\ bad'[p] = {} /\ spent'[p] = {}
    BY <1>1, <1>3 DEF Types
  <2>2. step'[p] = IF more THEN "cycle" ELSE "idle"
    BY <1>2, <1>3 DEF Types
  <2>3. late'[p] => late[p]
    BY <1>2, <1>3 DEF Types
  <2>4. QED BY <2>1, <2>2, <2>3
<1>10. Local(p)'
  <2>1. WellFormed(p)'
    BY <1>7, <1>9 DEF WellFormed
  <2>2. PlanIsWhole(p)'
    <3>1. \A b, c \in plan'[p] : \A x \in Bars : (b <= x /\ x <= c) => x \in plan'[p]
      <4> SUFFICES ASSUME NEW b \in plan'[p], NEW c \in plan'[p], NEW x \in Bars,
                          b <= x, x <= c
                   PROVE  x \in plan'[p]
        OBVIOUS
      <4>1. b \in plan[p] /\ c \in plan[p] /\ b # Bar(p) /\ Bar(p) <= b
        BY <1>5, <1>7
      <4>2. b \in Nat /\ Bar(p) \in Nat /\ x \in Nat
        BY <1>4, <1>5, <4>1
      <4>3. x # Bar(p)
        BY <4>1, <4>2
      <4>4. x \in plan[p]
        BY <1>3, <4>1 DEF Local, PlanIsWhole
      <4>5. QED BY <1>7, <4>3, <4>4
    <3>2. QED BY <1>1, <1>3, <1>7, <1>9, <3>1 DEF Local, PlanIsWhole
  <2>3. InstrumentsAreSplit(p)' /\ WorkIsDone(p)'
    BY <1>1, <1>4, <1>9 DEF InstrumentsAreSplit, WorkIsDone
  <2>4. QED BY <2>1, <2>2, <2>3 DEF Local
<1>11. \A q \in Procs \ {p} : SameLocal(q)
  <2>1. CASE more
    BY <1>1, <1>2, <1>3, <2>1 DEF Types, SameLocal
  <2>2. CASE ~more
    BY <1>1, <1>2, <1>3, <2>2 DEF Types, SameLocal
  <2>3. QED BY <2>1, <2>2
<1>12. Grows
  BY <1>1, SameGrows
<1>13. OneRun'
  <2>1. CASE more
    BY <1>1, <1>2, <1>3, <1>9, <1>11, <2>1, OneRunKeeps DEF SameLocal
  <2>2. CASE ~more
    <3>1. faults'["disconnect"] = 0 => \A q \in Procs \ {p} : step'[q] = "idle"
      BY <1>1, <1>3, <1>11 DEF OneRun, SameLocal
    <3>2. QED BY <1>2, <1>9, <2>2, <3>1 DEF OneRun
  <2>3. QED BY <2>1, <2>2
<1>14. \A s \in Scanners, b \in Bars : Accounted(s, b)' = Accounted(s, b)
  BY <1>1 DEF Accounted
<1>15. \A s \in Scanners :
        /\ watermark[s] \in Nat /\ since[s] \in Nat /\ (since[s] = 0) = (watermark[s] = 0)
        /\ \/ watermark'[s] = watermark[s]
           \/ /\ watermark'[s] = Bar(p) /\ watermark[s] < Bar(p)
              /\ s \in kit[p] /\ spent[p] = {}
        /\ since'[s] = IF since[s] = 0 THEN watermark'[s] ELSE since[s]
  BY <1>1, <1>3, <1>5 DEF Types, Marks, Advances
<1>16. spent[p] = {} => \A s \in kit[p] : Accounted(s, Bar(p))
  BY <1>1, <1>3, MarkedIsAccounted
<1>17. \A s \in kit[p], b \in Bars :
        (0 < watermark[s] /\ watermark[s] < b /\ b < Bar(p) /\ b \notin skipped) =>
            Accounted(s, b)
  BY <1>1, <1>3 DEF Marks, OwnerMissesNothing
<1>18. PassedBarsAccountForAll'
  <2> SUFFICES ASSUME NEW s \in Scanners, NEW b \in Bars, 0 < since'[s], since'[s] <= b,
                      b <= watermark'[s], b \notin skipped'
               PROVE  Accounted(s, b)'
    BY DEF PassedBarsAccountForAll, Accounted
  <2>1. b \notin skipped /\ b \in Nat \ {0} /\ Bar(p) \in Nat \ {0}
    BY <1>1, <1>5
  <2>2. CASE 0 < since[s] /\ b <= watermark[s]
    <3>1. since[s] <= b
      BY <1>15, <2>2
    <3>2. Accounted(s, b)
      BY <1>3, <2>1, <2>2, <3>1 DEF Marks, PassedBarsAccountForAll, Accounted
    <3>3. QED BY <1>14, <3>2
  <2>3. CASE ~ (0 < since[s] /\ b <= watermark[s])
    <3>1. /\ watermark'[s] = Bar(p) /\ watermark[s] < Bar(p)
          /\ s \in kit[p] /\ spent[p] = {}
      BY <1>15, <2>3
    <3>2. b = Bar(p) \/ (b < Bar(p) /\ 0 < watermark[s] /\ watermark[s] < b)
      BY <1>15, <2>1, <2>3, <3>1
    <3>3. Accounted(s, b)
      BY <1>16, <1>17, <2>1, <3>1, <3>2
    <3>4. QED BY <1>14, <3>3
  <2>4. QED BY <2>2, <2>3
<1>19. OwnerMissesNothing'
  <2> SUFFICES ASSUME more, NEW s \in kit[p], NEW b \in Bars, 0 < watermark'[s],
                      watermark'[s] < b, b < Bar(p)', b \notin skipped
               PROVE  Accounted(s, b)'
    BY <1>1, <1>2 DEF OwnerMissesNothing
  <2>1. s \in Scanners /\ b \in Nat \ {0} /\ Bar(p) \in Nat \ {0}
    BY <1>3, <1>5 DEF Types
  <2>2. Bar(p)' \in plan'[p] /\ \A c \in plan'[p] : Bar(p)' <= c
    <3>1. plan'[p] \in SUBSET Nat /\ plan'[p] # {}
      BY <1>4, <1>7
    <3>2. Bar(p)' = Lowest(plan'[p])
      BY DEF Bar
    <3>3. QED BY <3>1, <3>2, LowestIsIn
  <2>3. CASE b < Bar(p)
    <3>1. watermark'[s] = watermark[s]
      BY <1>15, <2>1, <2>3
    <3>2. QED BY <1>14, <1>17, <2>1, <2>3, <3>1
  <2>4. CASE b = Bar(p)
    <3>1. p \notin Live
      BY <1>3, <1>5, <1>7, <2>2 DEF Local, PlanIsWhole
    <3>2. spent[p] = {}
      BY <1>3, <3>1 DEF Local, PlanIsWhole
    <3>3. QED BY <1>14, <1>16, <2>1, <2>4, <3>2
  <2>5. CASE b > Bar(p)
    <3>1. Bar(p)' \in plan[p] /\ Bar(p)' \in Nat
      BY <1>4, <1>7, <2>2
    <3>2. Bar(p) <= b /\ b <= Bar(p)'
      BY <2>1, <2>5, <3>1
    <3>3. b \in plan[p]
      BY <1>3, <1>5, <3>1, <3>2 DEF Local, PlanIsWhole
    <3>4. b \in plan'[p]
      BY <1>7, <2>1, <2>5, <3>3
    <3>5. QED BY <2>1, <2>2, <3>1, <3>4
  <2>6. QED BY <2>1, <2>3, <2>4, <2>5
<1>20. Marks'
  <2>1. \A s \in Scanners : (since'[s] = 0) = (watermark'[s] = 0)
    BY <1>5, <1>15
  <2>2. QED BY <1>18, <1>19, <2>1 DEF Marks
<1>21. QED BY <1>1, <1>8, <1>10, <1>11, <1>12, <1>13, <1>20, ProcessStep

\* A process that gives its run up has nothing left.
LEMMA ForgetLocal ==
    ASSUME Types, NEW p \in Procs, NEW k \in 0 .. N - 1, Forget(p, k), Local(p)
    PROVE  /\ Local(p)'
           /\ \A q \in Procs \ {p} : SameLocal(q)
           /\ step' \in [Procs -> {"idle", "cycle", "work", "mark"}] /\ step'[p] = "idle"
           /\ plan' \in [Procs -> SUBSET Bars] /\ kit' \in [Procs -> SUBSET Scanners]
           /\ todo' \in [Procs -> SUBSET Instruments] /\ flight' \in [Procs -> SUBSET Scans]
           /\ ok' \in [Procs -> SUBSET Instruments] /\ bad' \in [Procs -> SUBSET Instruments]
           /\ spent' \in [Procs -> SUBSET Instruments] /\ rounds' \in [Procs -> 0 .. Retries]
           /\ late' \in [Procs -> BOOLEAN] /\ offset' \in [Procs -> 0 .. N - 1]
           /\ owner' = IF owner = p THEN NoProc ELSE owner
<1> USE ConstantTypes DEF Forget
<1>1. 0 \in 0 .. Retries
  OBVIOUS
<1>2. /\ step' \in [Procs -> {"idle", "cycle", "work", "mark"}] /\ step'[p] = "idle"
      /\ plan' \in [Procs -> SUBSET Bars] /\ kit' \in [Procs -> SUBSET Scanners]
      /\ todo' \in [Procs -> SUBSET Instruments] /\ flight' \in [Procs -> SUBSET Scans]
  BY DEF Types
<1>3. /\ ok' \in [Procs -> SUBSET Instruments] /\ bad' \in [Procs -> SUBSET Instruments]
      /\ spent' \in [Procs -> SUBSET Instruments] /\ rounds' \in [Procs -> 0 .. Retries]
      /\ late' \in [Procs -> BOOLEAN] /\ offset' \in [Procs -> 0 .. N - 1]
  BY <1>1 DEF Types
<1>4. \A q \in Procs \ {p} : SameLocal(q)
  BY DEF Types, SameLocal
<1>5. /\ plan'[p] = {} /\ todo'[p] = {} /\ flight'[p] = {} /\ ok'[p] = {} /\ bad'[p] = {}
      /\ spent'[p] = {} /\ rounds'[p] = 0 /\ late'[p] = FALSE
  BY DEF Types
<1>6. Local(p)'
  BY <1>2, <1>5 DEF Local, WellFormed, PlanIsWhole, InstrumentsAreSplit, WorkIsDone
<1>7. QED BY <1>2, <1>3, <1>4, <1>6

LEMMA ForgetOneRun ==
    ASSUME OneRun, Types, NEW p \in Procs, step'[p] = "idle",
           \A q \in Procs \ {p} : SameLocal(q),
           owner' = IF owner = p THEN NoProc ELSE owner,
           faults'["disconnect"] = 0 => faults["disconnect"] = 0
    PROVE  OneRun'
BY DEF OneRun, Types, SameLocal

LEMMA CrashStep == ASSUME Inv, NEW p \in Procs, Crash(p) PROVE Inv'
<1> USE ConstantTypes
<1> DEFINE lost == flight[p] \cup (IF p \in Live THEN orphans ELSE {})
<1>1. /\ FaultAllowed /\ Count("crash") /\ Forget(p, 0)
      /\ unreported' = unreported \cup AwaitReport(lost) /\ orphans' = orphans \ lost
      /\ UNCHANGED <<closed, settled, catalogue, watermark, cycle, done, reports, since,
                     skipped, failed>>
  BY DEF Crash, clock, tables
<1> HIDE DEF lost
<1>2. Types /\ Local(p) /\ OneRun /\ Marks
  BY DEF Inv
<1>3. 0 \in 0 .. N - 1
  OBVIOUS
<1>4. /\ faults' \in [FaultKinds -> 0 .. MaxFaults]
      /\ faults'["disconnect"] = 0 => faults["disconnect"] = 0
  BY <1>1, <1>2, FaultCount DEF FaultKinds
<1>5. AwaitReport(lost) \subseteq Bars \X Instruments
  <2>1. lost \subseteq Scans
    BY <1>2 DEF Types, lost
  <2>2. QED BY <2>1 DEF AwaitReport, Scans
<1>6. unreported' \subseteq Bars \X Instruments /\ orphans' \subseteq Scans
  BY <1>1, <1>2, <1>5 DEF Types
<1>7. Types'
  <2>1. owner' \in Procs \cup {NoProc}
    BY <1>1, <1>2, <1>3, ForgetLocal DEF Types
  <2>2. QED BY <1>1, <1>2, <1>3, <1>4, <1>6, <2>1, ForgetLocal DEF Types
<1>8. Local(p)' /\ (\A q \in Procs \ {p} : SameLocal(q)) /\ step'[p] = "idle"
      /\ owner' = IF owner = p THEN NoProc ELSE owner
  BY <1>1, <1>2, <1>3, ForgetLocal
<1>9. OneRun'
  BY <1>2, <1>4, <1>8, ForgetOneRun
<1>10. Grows
  BY <1>1, SameGrows
<1>11. Marks'
  BY <1>1, <1>2, <1>8, <1>10, MarksKeep DEF SameLocal
<1>12. QED BY <1>1, <1>7, <1>8, <1>9, <1>10, <1>11, ProcessStep

LEMMA AbortStep == ASSUME Inv, NEW p \in Procs, Abort(p) PROVE Inv'
<1> USE ConstantTypes
<1>1. /\ Forget(p, offset[p]) /\ orphans' = orphans \cup flight[p]
      /\ UNCHANGED <<closed, settled, catalogue, watermark, cycle, done, reports, since,
                     skipped, failed, unreported, faults>>
  BY DEF Abort, clock, tables, history
<1>2. Types /\ Local(p) /\ OneRun /\ Marks
  BY DEF Inv
<1>3. offset[p] \in 0 .. N - 1 /\ orphans' \subseteq Scans
  BY <1>1, <1>2 DEF Types
<1>4. Types'
  <2>1. owner' \in Procs \cup {NoProc}
    BY <1>1, <1>2, <1>3, ForgetLocal DEF Types
  <2>2. QED BY <1>1, <1>2, <1>3, <2>1, ForgetLocal DEF Types
<1>5. Local(p)' /\ (\A q \in Procs \ {p} : SameLocal(q)) /\ step'[p] = "idle"
      /\ owner' = IF owner = p THEN NoProc ELSE owner
  BY <1>1, <1>2, <1>3, ForgetLocal
<1>6. OneRun'
  BY <1>1, <1>2, <1>5, ForgetOneRun
<1>7. Grows
  BY <1>1, SameGrows
<1>8. Marks'
  BY <1>1, <1>2, <1>5, <1>7, MarksKeep DEF SameLocal
<1>9. QED BY <1>1, <1>4, <1>5, <1>6, <1>7, <1>8, ProcessStep

LEMMA DisconnectStep == ASSUME Inv, NEW p \in Procs, Disconnect(p) PROVE Inv'
<1> USE ConstantTypes
<1>1. /\ FaultAllowed /\ Count("disconnect") /\ owner' = NoProc
      /\ UNCHANGED <<closed, settled, catalogue, watermark, cycle, done, reports, step, plan,
                     kit, todo, flight, orphans, ok, bad, spent, rounds, late, offset, since,
                     skipped, failed, unreported>>
  BY DEF Disconnect, clock, tables, local, history
<1>2. Types /\ Local(p) /\ OneRun /\ Marks
  BY DEF Inv
<1>3. /\ faults' \in [FaultKinds -> 0 .. MaxFaults]
      /\ faults' = [faults EXCEPT !["disconnect"] = @ + 1]
  BY <1>1, <1>2, FaultCount DEF FaultKinds
<1>4. faults'["disconnect"] # 0
  <2>1. faults["disconnect"] \in Nat /\ "disconnect" \in DOMAIN faults
    BY <1>2 DEF Types, FaultKinds
  <2>2. QED BY <1>3, <2>1
<1>5. Types'
  BY <1>1, <1>2, <1>3 DEF Types
<1>6. closed \in Nat /\ \A q \in Procs : SameLocal(q)
  BY <1>1, <1>2 DEF Types, SameLocal
<1>7. OneRun'
  BY <1>1, <1>4 DEF OneRun
<1>8. Grows
  BY <1>1, SameGrows
<1>9. \A q \in Procs : Local(q)'
  BY <1>1, <1>2, <1>6, <1>8, OthersKeep DEF Inv
<1>10. Marks'
  BY <1>1, <1>2, <1>8, MarksKeep
<1>11. QED BY <1>5, <1>7, <1>9, <1>10 DEF Inv

-----------------------------------------------------------------------------
(* The theorems.                                                           *)

LEMMA NextInv == Inv /\ [Next]_vars => Inv'
<1> SUFFICES ASSUME Inv, [Next]_vars PROVE Inv'
  OBVIOUS
<1>1. CASE UNCHANGED vars
  <2>1. /\ UNCHANGED <<closed, settled, catalogue, watermark, cycle, done, reports, owner,
                       local, since, skipped, failed, unreported, faults>>
    BY <1>1 DEF vars, clock, tables, history
  <2>2. Types' /\ closed <= closed'
    BY <2>1, ConstantTypes DEF Inv, Types, local
  <2>3. QED BY <2>1, <2>2, ClockStep, SameGrows
<1>2. CASE CloseBar \/ Settle \/ OrphanScan
  BY <1>2, CloseBarStep, SettleStep, OrphanScanStep
<1>3. CASE \E s \in Scanners : EnableScanner(s)
  BY <1>3, EnableScannerStep
<1>4. CASE \E p \in Procs : Scan(p)
  BY <1>4, StartRunStep, StartCycleStep, BeginStep, EvaluateStep, ReportStep, RetryStep,
     FinishCycleStep, MarkStep, AbortStep DEF Scan
<1>5. CASE \E p \in Procs : FailInstrument(p) \/ Expire(p) \/ Crash(p) \/ Disconnect(p)
  BY <1>5, FailInstrumentStep, ExpireStep, CrashStep, DisconnectStep
<1>6. QED
  BY <1>1, <1>2, <1>3, <1>4, <1>5 DEF Next, Quiet

THEOREM Safe == Spec => []Inv
<1>1. QED BY InitInv, NextInv, PTL DEF Spec

\* The state stays well formed; an instrument of a bar has one outcome.
THEOREM TypeCorrect == Spec => []TypeOK
<1>1. Inv => TypeOK
  BY DEF Inv, TypeOK, Local
<1>2. QED BY <1>1, Safe, PTL

\* Unless the session of an advisory lock is lost, one process serves the lane,
\* whatever crashes and is started again.
THEOREM OneRunAtATime == Spec => []RunsDoNotOverlap
<1>1. Inv => RunsDoNotOverlap
  BY DEF Inv, OneRun, RunsDoNotOverlap
<1>2. QED BY <1>1, Safe, PTL

\* A watermark passes no bar in silence: every instrument has the evaluation or
\* a recorded failure, for every bar that no run left out when it planned.
THEOREM NoBarPassedSilently == Spec => []PassedBarsAccountForAll
<1>1. Inv => PassedBarsAccountForAll
  BY DEF Inv, Marks
<1>2. QED BY <1>1, Safe, PTL

-----------------------------------------------------------------------------
(* The confluence reports.  Nobody scans with more scanners than the owner *)
(* of the lane knows, so an instrument with all their evaluations was      *)
(* scanned by a scan that has come to its end, or has only its report left.*)

\* The evaluations of a scan are complete, perhaps by those of a run before.
HasAll(w) == w.kit \subseteq done[w.bar][w.inst]

\* The report is there, is known to be missing, or a scan has only it left.
Reported(b, i) ==
    Covers(done[b][i]) =>
        \/ <<b, i>> \in reports \cup unreported
        \/ \E w \in UnderWay : w.bar = b /\ w.inst = i /\ HasAll(w)

\* The scanners the next decision about completeness is made with.
Known == IF owner = NoProc THEN catalogue ELSE kit[owner]

KitsAreKnown ==
    /\ \A p \in Procs : kit[p] \subseteq Known /\ kit[p] \subseteq catalogue
    /\ \A w \in UnderWay : w.kit \subseteq Known /\ w.left \subseteq w.kit
    /\ \A b \in Bars, i \in Instruments : done[b][i] \subseteq Known

FullIsReported ==
    \A b \in Bars, i \in Instruments : Known \subseteq done[b][i] => Reported(b, i)

\* Who still works on a bar that another run has completed finds nothing new.
CompletedIsReported ==
    \A b \in Bars : cycle[b] = "completed" =>
        /\ \A i \in Instruments : Reported(b, i)
        /\ \A w \in UnderWay : w.bar = b => HasAll(w)
        /\ \A p \in Procs : step[p] = "work" /\ Bar(p) = b =>
                \A i \in Instruments : kit[p] \subseteq done[b][i]

Coverage == KitsAreKnown /\ FullIsReported /\ CompletedIsReported

\* The same scan, before and after a step.
SameScan(v, w) == v.bar = w.bar /\ v.inst = w.inst /\ v.kit = w.kit

\* A scan came to its end: it is reported, or there is nothing to report.
Ended(w) ==
    \/ <<w.bar, w.inst>> \in reports' \cup unreported'
    \/ ~HasAll(w) \/ ~Covers(done[w.bar][w.inst])

\* What a step does to the scans.
ScansGoOn ==
    /\ \A w \in UnderWay' :
        \/ \E v \in UnderWay : SameScan(v, w) /\ w.left \subseteq v.left
        \/ \E p \in Procs : step[p] = "work" /\ w.bar = Bar(p) /\ w.kit = kit[p] /\ w.left = kit[p]
    /\ \A w \in UnderWay : \/ \E v \in UnderWay' : SameScan(v, w)
                           \/ done' = done /\ Ended(w)

ScansMove ==
    /\ ScansGoOn
    /\ reports \subseteq reports' /\ unreported \subseteq unreported'
    /\ \A b \in Bars, i \in Instruments :
        /\ done[b][i] \subseteq done'[b][i]
        /\ \A s \in done'[b][i] \ done[b][i] :
            \E w \in UnderWay, v \in UnderWay' :
                w.bar = b /\ w.inst = i /\ s \in w.left /\ SameScan(w, v)

LEMMA ScansRest ==
    ASSUME UNCHANGED <<flight, orphans, reports, unreported, done>>
    PROVE  ScansMove
<1>1. UnderWay' = UnderWay
  BY DEF UnderWay
<1>2. ScansGoOn
  BY <1>1 DEF ScansGoOn, SameScan
<1>3. QED BY <1>2 DEF ScansMove

LEMMA UnderWayTypes ==
    ASSUME Types
    PROVE  /\ UnderWay \subseteq Scans
           /\ \A p \in Procs : \A w \in flight[p] : w \in UnderWay
           /\ \A w \in orphans : w \in UnderWay
BY DEF Types, UnderWay

\* A scan goes on: it adds the evaluation of a scanner it had left.
LEMMA PersistMoves ==
    ASSUME Types, NEW w \in UnderWay, w.left # {}, Persist(w),
           UNCHANGED <<reports, unreported>>,
           \A v \in UnderWay' : v \in UnderWay \/ v = Advanced(w),
           Advanced(w) \in UnderWay',
           \A v \in UnderWay : v = w \/ v \in UnderWay'
    PROVE  ScansMove
<1> USE ConstantTypes
<1>1. w \in Scans /\ w.left \in SUBSET Nat
  BY UnderWayTypes DEF Scans
<1>2. Lowest(w.left) \in w.left
  BY <1>1, LowestIsIn
<1>3. SameScan(w, Advanced(w)) /\ SameScan(Advanced(w), w) /\ Advanced(w).left \subseteq w.left
  BY <1>1 DEF Advanced, Scans, SameScan
<1>4. \A b \in Bars, i \in Instruments :
        /\ done[b][i] \subseteq done'[b][i]
        /\ \A s \in done'[b][i] \ done[b][i] : b = w.bar /\ i = w.inst /\ s = Lowest(w.left)
  <2>1. done \in [Bars -> [Instruments -> SUBSET Scanners]]
    BY DEF Types
  <2>2. w.bar \in Bars /\ w.inst \in Instruments
    BY <1>1 DEF Scans
  <2>3. QED BY <2>1, <2>2 DEF Persist
<1>5. ScansGoOn
  BY <1>3 DEF ScansGoOn, SameScan
<1>6. \A b \in Bars, i \in Instruments : \A s \in done'[b][i] \ done[b][i] :
        \E u \in UnderWay, v \in UnderWay' :
            u.bar = b /\ u.inst = i /\ s \in u.left /\ SameScan(u, v)
  BY <1>2, <1>3, <1>4
<1>7. QED BY <1>4, <1>5, <1>6 DEF ScansMove

\* A scan ends.
LEMMA EndMoves ==
    ASSUME UNCHANGED done, UnderWay' \subseteq UnderWay,
           \A w \in UnderWay : w \in UnderWay' \/ Ended(w),
           reports \subseteq reports', unreported \subseteq unreported'
    PROVE  ScansMove
<1>1. ScansGoOn
  BY DEF ScansGoOn, SameScan
<1>2. QED BY <1>1 DEF ScansMove

LEMMA BeginMoves == ASSUME Types, NEW p \in Procs, Begin(p) PROVE ScansMove
<1>1. UNCHANGED <<orphans, reports, unreported, done>> /\ step[p] = "work"
  BY DEF Begin, tables, history
<1>2. CASE flight' = flight
  BY <1>1, <1>2, ScansRest
<1>3. ASSUME NEW i, flight' = [flight EXCEPT ![p] = @ \cup {NewScan(p, i)}]
      PROVE  ScansMove
  <2> DEFINE w == NewScan(p, i)
  <2>1. w.bar = Bar(p) /\ w.kit = kit[p] /\ w.left = kit[p]
    BY DEF NewScan
  <2> HIDE DEF w
  <2>2. \A q \in Procs : flight'[q] = IF q = p THEN flight[q] \cup {w} ELSE flight[q]
    BY <1>3 DEF Types, w
  <2>3. /\ \A v \in UnderWay' : v \in UnderWay \/ v = w
        /\ \A v \in UnderWay : v \in UnderWay'
    BY <1>1, <2>2 DEF UnderWay
  <2>4. ScansGoOn
    BY <1>1, <2>1, <2>3 DEF ScansGoOn, SameScan
  <2>5. QED BY <1>1, <2>4 DEF ScansMove
<1>4. QED BY <1>2, <1>3 DEF Begin

LEMMA EvaluateMoves == ASSUME Types, NEW p \in Procs, Evaluate(p) PROVE ScansMove
<1>1. UNCHANGED <<orphans, reports, unreported>>
  BY DEF Evaluate, history
<1>2. PICK w \in flight[p] :
        /\ w.left # {} /\ Persist(w)
        /\ flight' = [flight EXCEPT ![p] = (@ \ {w}) \cup {Advanced(w)}]
  BY DEF Evaluate
<1>3. \A q \in Procs : flight'[q] = IF q = p THEN (flight[q] \ {w}) \cup {Advanced(w)}
                                    ELSE flight[q]
  BY <1>2 DEF Types
<1>4. /\ \A v \in UnderWay' : v \in UnderWay \/ v = Advanced(w)
      /\ Advanced(w) \in UnderWay' /\ w \in UnderWay
      /\ \A v \in UnderWay : v = w \/ v \in UnderWay'
  BY <1>1, <1>3 DEF UnderWay
<1>5. QED BY <1>1, <1>2, <1>4, PersistMoves

\* Who covers no more than one family has nothing to report, unless it was overtaken.
LEMMA EndOfScanEnds ==
    ASSUME NEW w, NEW overtaken \in BOOLEAN, EndOfScan(w, overtaken),
           overtaken \/ (Covers(done[w.bar][w.inst]) => Covers(w.kit))
    PROVE  Ended(w) /\ reports \subseteq reports' /\ unreported \subseteq unreported'
BY DEF EndOfScan, Ended

LEMMA OrphanMoves == ASSUME Types, OrphanScan PROVE ScansMove
<1>1. UNCHANGED flight
  BY DEF OrphanScan
<1>2. ASSUME NEW w \in orphans, w.left # {}, Persist(w), UNCHANGED <<reports, unreported>>,
             orphans' = (orphans \ {w}) \cup {Advanced(w)}
      PROVE  ScansMove
  <2>1. /\ \A v \in UnderWay' : v \in UnderWay \/ v = Advanced(w)
        /\ Advanced(w) \in UnderWay' /\ w \in UnderWay
        /\ \A v \in UnderWay : v = w \/ v \in UnderWay'
    BY <1>1, <1>2 DEF UnderWay
  <2>2. QED BY <1>2, <2>1, PersistMoves
<1>3. ASSUME NEW w \in orphans, EndOfScan(w, TRUE), orphans' = orphans \ {w}, done' = done
      PROVE  ScansMove
  <2>1. /\ UnderWay' \subseteq UnderWay
        /\ \A v \in UnderWay : v = w \/ v \in UnderWay'
    BY <1>1, <1>3 DEF UnderWay
  <2>2. QED BY <1>3, <2>1, EndMoves, EndOfScanEnds
<1>4. QED BY <1>2, <1>3 DEF OrphanScan

\* The owner knows every scanner that has evaluations.
LEMMA ReportMoves ==
    ASSUME Inv, KitsAreKnown, NEW p \in Procs, Report(p) PROVE ScansMove
<1>1. PICK w \in flight[p] : /\ EndOfScan(w, owner # p)
                             /\ flight' = [flight EXCEPT ![p] = @ \ {w}]
  BY DEF Report
<1>2. Types /\ w \in Scans /\ w.kit = kit[p]
  BY DEF Inv, Types, Local, WorkIsDone
<1>3. \A q \in Procs : flight'[q] = IF q = p THEN flight[q] \ {w} ELSE flight[q]
  BY <1>1, <1>2 DEF Types
<1>4. UNCHANGED <<orphans, done>>
  BY DEF Report
<1>5. /\ UnderWay' \subseteq UnderWay
      /\ \A v \in UnderWay : v = w \/ v \in UnderWay'
  BY <1>3, <1>4 DEF UnderWay
<1>6. owner = p => done[w.bar][w.inst] \subseteq w.kit
  <2>1. owner = p => Known = kit[p]
    BY ConstantTypes DEF Known
  <2>2. done[w.bar][w.inst] \subseteq Known
    BY <1>2 DEF KitsAreKnown, Scans
  <2>3. QED BY <1>2, <2>1, <2>2
<1>7. owner # p \/ (Covers(done[w.bar][w.inst]) => Covers(w.kit))
  BY <1>6 DEF Covers
<1>8. Ended(w) /\ reports \subseteq reports' /\ unreported \subseteq unreported'
  BY <1>1, <1>7, EndOfScanEnds
<1>9. QED BY <1>4, <1>5, <1>8, EndMoves

\* An interrupted scan is on record if nothing but its report was left.
LEMMA FailMoves == ASSUME Types, NEW p \in Procs, FailInstrument(p) PROVE ScansMove
<1>1. PICK w \in flight[p] : /\ unreported' = unreported \cup AwaitReport({w})
                             /\ flight' = [flight EXCEPT ![p] = @ \ {w}]
  BY DEF FailInstrument
<1>2. \A q \in Procs : flight'[q] = IF q = p THEN flight[q] \ {w} ELSE flight[q]
  BY <1>1 DEF Types
<1>3. UNCHANGED <<orphans, done, reports>>
  BY DEF FailInstrument, tables
<1>4. /\ UnderWay' \subseteq UnderWay
      /\ \A v \in UnderWay : v = w \/ v \in UnderWay'
  BY <1>2, <1>3 DEF UnderWay
<1>5. Ended(w)
  BY <1>1 DEF AwaitReport, Ended, HasAll
<1>6. QED BY <1>1, <1>3, <1>4, <1>5, EndMoves

\* A crash interrupts the scans of the process and the orphans it started.
LEMMA CrashMoves == ASSUME Types, NEW p \in Procs, Crash(p) PROVE ScansMove
<1> DEFINE lost == flight[p] \cup (IF p \in Live THEN orphans ELSE {})
<1>1. /\ unreported' = unreported \cup AwaitReport(lost) /\ orphans' = orphans \ lost
      /\ UNCHANGED <<done, reports>>
  BY DEF Crash, tables
<1>2. \A q \in Procs : flight'[q] = IF q = p THEN {} ELSE flight[q]
  BY DEF Crash, Forget, Types
<1>3. flight[p] \subseteq lost
  OBVIOUS
<1> HIDE DEF lost
<1>4. /\ UnderWay' \subseteq UnderWay
      /\ \A v \in UnderWay : v \in lost \/ v \in UnderWay'
  BY <1>1, <1>2, <1>3 DEF UnderWay
<1>5. \A v \in lost : Ended(v)
  BY <1>1 DEF AwaitReport, Ended, HasAll
<1>6. QED BY <1>1, <1>4, <1>5, EndMoves

LEMMA AbortMoves == ASSUME Types, NEW p \in Procs, Abort(p) PROVE ScansMove
<1>1. UNCHANGED <<done, reports, unreported>> /\ orphans' = orphans \cup flight[p]
  BY DEF Abort, tables, history
<1>2. \A q \in Procs : flight'[q] = IF q = p THEN {} ELSE flight[q]
  BY DEF Abort, Forget, Types
<1>3. UnderWay' \subseteq UnderWay /\ UnderWay \subseteq UnderWay'
  BY <1>1, <1>2 DEF UnderWay
<1>4. QED BY <1>1, <1>3, EndMoves

LEMMA EveryScanMoves == Inv /\ KitsAreKnown /\ [Next]_vars => ScansMove
<1> SUFFICES ASSUME Inv, KitsAreKnown, [Next]_vars PROVE ScansMove
  OBVIOUS
<1>1. CASE \/ CloseBar \/ Settle \/ Quiet \/ UNCHANGED vars
           \/ \E s \in Scanners : EnableScanner(s)
           \/ \E p \in Procs : \/ StartRun(p) \/ StartCycle(p) \/ Retry(p) \/ FinishCycle(p)
                               \/ Mark(p) \/ Expire(p) \/ Disconnect(p)
  <2>1. UNCHANGED <<flight, orphans, reports, unreported, done>>
    BY <1>1 DEF CloseBar, Settle, Quiet, EnableScanner, StartRun, StartCycle, Retry,
                FinishCycle, Mark, Expire, Disconnect, vars, tables, local, history
  <2>2. QED BY <2>1, ScansRest
<1>2. Types
  BY DEF Inv
<1>3. QED
  BY <1>1, <1>2, BeginMoves, EvaluateMoves, OrphanMoves, ReportMoves, FailMoves,
     CrashMoves, AbortMoves DEF Next, Scan

\* An instrument stays reported if the scans that touch it find all they need.
LEMMA ReportedStays ==
    ASSUME ScansMove, NEW b \in Bars, NEW i \in Instruments,
           done'[b][i] = done[b][i] => Reported(b, i),
           \A w \in UnderWay : w.bar = b /\ w.inst = i => w.kit \subseteq done'[b][i]
    PROVE  Reported(b, i)'
<1>1. CASE done'[b][i] = done[b][i]
  <2> SUFFICES ASSUME Covers(done[b][i])
               PROVE  \/ <<b, i>> \in reports' \cup unreported'
                      \/ \E w \in UnderWay' : w.bar = b /\ w.inst = i /\ HasAll(w)'
    BY <1>1 DEF Reported
  <2>1. CASE <<b, i>> \in reports \cup unreported
    BY <2>1 DEF ScansMove
  <2>2. ASSUME NEW w \in UnderWay, w.bar = b, w.inst = i, HasAll(w)
        PROVE  \/ <<b, i>> \in reports' \cup unreported'
               \/ \E v \in UnderWay' : v.bar = b /\ v.inst = i /\ HasAll(v)'
    <3>1. CASE \E v \in UnderWay' : SameScan(v, w)
      BY <1>1, <2>2, <3>1 DEF SameScan, HasAll
    <3>2. CASE Ended(w)
      BY <2>2, <3>2 DEF Ended
    <3>3. QED BY <3>1, <3>2 DEF ScansMove, ScansGoOn
  <2>3. QED BY <1>1, <2>1, <2>2 DEF Reported
<1>2. CASE done'[b][i] # done[b][i]
  <2>1. PICK s \in done'[b][i] \ done[b][i] : TRUE
    BY <1>2 DEF ScansMove
  <2>2. PICK w \in UnderWay, v \in UnderWay' :
            w.bar = b /\ w.inst = i /\ s \in w.left /\ SameScan(w, v)
    BY <2>1 DEF ScansMove
  <2>3. v.bar = b /\ v.inst = i /\ HasAll(v)'
    BY <2>2 DEF SameScan, HasAll
  <2>4. QED BY <2>3 DEF Reported
<1>3. QED BY <1>1, <1>2

\* A run reads the catalogue when it owns the lane; nobody knows more.
LEMMA KnownGrows ==
    ASSUME Types, KitsAreKnown, [Next]_vars
    PROVE  /\ Known \subseteq Known'
           /\ \A p \in Procs : kit'[p] \subseteq Known' /\ kit'[p] \subseteq catalogue'
<1> DEFINE Moved ==
        /\ Known \subseteq Known'
        /\ \A q \in Procs : kit'[q] \subseteq Known' /\ kit'[q] \subseteq catalogue'
<1>1. ASSUME UNCHANGED <<kit, owner>>, catalogue \subseteq catalogue'
      PROVE  Moved
  BY <1>1 DEF KitsAreKnown, Known
<1>2. ASSUME NEW p \in Procs, StartRun(p) PROVE Moved
  <2>1. owner = NoProc /\ owner' = p /\ catalogue' = catalogue
    BY <1>2 DEF StartRun, clock
  <2>2. \A q \in Procs : kit'[q] = IF q = p THEN catalogue ELSE kit[q]
    BY <1>2 DEF StartRun, Types
  <2>3. Known = catalogue /\ Known' = catalogue
    BY <2>1, <2>2, ConstantTypes DEF Known
  <2>4. QED BY <2>1, <2>2, <2>3 DEF KitsAreKnown
<1>3. ASSUME NEW p \in Procs, catalogue' = catalogue, owner' = owner \/ owner' = NoProc,
             kit' = [kit EXCEPT ![p] = {}], owner' # p
      PROVE  Moved
  <2>1. \A q \in Procs : kit'[q] = IF q = p THEN {} ELSE kit[q]
    BY <1>3 DEF Types
  <2>2. Known \subseteq catalogue /\ owner \in Procs \cup {NoProc}
    BY DEF KitsAreKnown, Known, Types
  <2>3. Known' = Known \/ Known' = catalogue
    BY <1>3, <2>1, <2>2 DEF Known
  <2>4. QED BY <1>3, <2>1, <2>2, <2>3 DEF KitsAreKnown
<1>4. ASSUME NEW p \in Procs, Crash(p) \/ Abort(p) PROVE Moved
  <2>1. /\ catalogue' = catalogue /\ kit' = [kit EXCEPT ![p] = {}]
        /\ owner' = IF owner = p THEN NoProc ELSE owner
    BY <1>4 DEF Crash, Abort, Forget, clock
  <2>2. owner' # p
    BY <2>1, ConstantTypes
  <2> HIDE DEF Moved
  <2>3. QED BY <1>3, <2>1, <2>2
<1>5. ASSUME NEW p \in Procs, Mark(p) PROVE Moved
  <2>1. /\ catalogue' = catalogue
        /\ \/ UNCHANGED <<kit, owner>>
           \/ kit' = [kit EXCEPT ![p] = {}] /\ owner' = NoProc
    BY <1>5 DEF Mark, clock
  <2> HIDE DEF Moved
  <2>2. QED BY <1>1, <1>3, <2>1, ConstantTypes
<1>6. ASSUME NEW p \in Procs, Disconnect(p) PROVE Moved
  <2>1. owner = p /\ owner' = NoProc /\ UNCHANGED <<kit, catalogue>>
    BY <1>6 DEF Disconnect, clock, local
  <2>2. QED BY <2>1 DEF KitsAreKnown, Known
<1>7. ASSUME \/ CloseBar \/ Settle \/ OrphanScan \/ Quiet \/ UNCHANGED vars
             \/ \E s \in Scanners : EnableScanner(s)
             \/ \E p \in Procs : \/ StartCycle(p) \/ Begin(p) \/ Evaluate(p) \/ Report(p)
                                 \/ Retry(p) \/ FinishCycle(p) \/ FailInstrument(p) \/ Expire(p)
      PROVE  Moved
  <2>1. UNCHANGED <<kit, owner>> /\ catalogue \subseteq catalogue'
    BY <1>7 DEF CloseBar, Settle, OrphanScan, Quiet, EnableScanner, StartCycle, Begin,
                Evaluate, Report, Retry, FinishCycle, FailInstrument, Expire, vars, clock,
                local
  <2> HIDE DEF Moved
  <2>2. QED BY <1>1, <2>1
<1> HIDE DEF Moved
<1>8. Moved
  BY <1>2, <1>4, <1>5, <1>6, <1>7 DEF Next, Scan
<1>9. QED BY <1>8 DEF Moved

LEMMA KitsStep ==
    ASSUME Inv, KitsAreKnown, [Next]_vars
    PROVE  KitsAreKnown'
<1>1. ScansMove /\ Types /\ Known \subseteq Known'
  BY EveryScanMoves, KnownGrows DEF Inv
<1>2. \A w \in UnderWay' : w.kit \subseteq Known' /\ w.left \subseteq w.kit
  <2> SUFFICES ASSUME NEW w \in UnderWay'
               PROVE  w.kit \subseteq Known' /\ w.left \subseteq w.kit
    OBVIOUS
  <2>1. CASE \E v \in UnderWay : SameScan(v, w) /\ w.left \subseteq v.left
    BY <1>1, <2>1 DEF KitsAreKnown, SameScan
  <2>2. CASE \E p \in Procs : w.kit = kit[p] /\ w.left = kit[p]
    BY <1>1, <2>2 DEF KitsAreKnown
  <2>3. QED BY <1>1, <2>1, <2>2 DEF ScansMove, ScansGoOn
<1>3. \A b \in Bars, i \in Instruments : done'[b][i] \subseteq Known'
  <2> SUFFICES ASSUME NEW b \in Bars, NEW i \in Instruments, NEW s \in done'[b][i]
               PROVE  s \in Known
    BY <1>1
  <2>1. CASE s \in done[b][i]
    BY <2>1 DEF KitsAreKnown
  <2>2. CASE s \notin done[b][i]
    BY <1>1, <2>2 DEF ScansMove, KitsAreKnown
  <2>3. QED BY <2>1, <2>2
<1>4. QED BY <1>1, <1>2, <1>3, KnownGrows DEF KitsAreKnown

\* Who has all that is known was reported by the last scan that touched it.
LEMMA FullStep ==
    ASSUME Inv, Coverage, [Next]_vars
    PROVE  FullIsReported'
<1>1. ScansMove /\ Types /\ Known \subseteq Known' /\ KitsAreKnown
  BY EveryScanMoves, KnownGrows DEF Inv, Coverage
<1> SUFFICES ASSUME NEW b \in Bars, NEW i \in Instruments, Known' \subseteq done'[b][i]
             PROVE  Reported(b, i)'
  BY DEF FullIsReported
<1>2. done'[b][i] = done[b][i] => Reported(b, i)
  BY <1>1 DEF Coverage, FullIsReported
<1>3. \A w \in UnderWay : w.kit \subseteq done'[b][i]
  BY <1>1 DEF KitsAreKnown
<1>4. QED BY <1>1, <1>2, <1>3, ReportedStays

\* A process works on its bar as before, or has just started its cycle.
LEMMA WorkersKeep ==
    ASSUME Types, [Next]_vars, NEW p \in Procs, step'[p] = "work", Bar(p)' \in Bars
    PROVE  \/ step[p] = "work" /\ Bar(p)' = Bar(p) /\ kit'[p] = kit[p]
           \/ cycle'[Bar(p)'] = "running"
<1>1. ASSUME NEW q \in Procs, StartCycle(q)
      PROVE  \/ step[p] = "work" /\ Bar(p)' = Bar(p) /\ kit'[p] = kit[p]
             \/ cycle'[Bar(p)'] = "running"
  <2>1. /\ cycle' = [cycle EXCEPT ![Bar(q)] = "running"] /\ UNCHANGED <<plan, kit>>
        /\ step' = [step EXCEPT ![q] = "work"]
    BY <1>1 DEF StartCycle
  <2>2. Bar(p)' = Bar(p)
    BY <2>1 DEF Bar
  <2>3. CASE p = q
    BY <2>1, <2>2, <2>3 DEF Types
  <2>4. CASE p # q
    BY <2>1, <2>2, <2>4 DEF Types
  <2>5. QED BY <2>3, <2>4
<1>2. ASSUME UNCHANGED <<plan, kit>>, step'[p] = step[p]
      PROVE  step[p] = "work" /\ Bar(p)' = Bar(p) /\ kit'[p] = kit[p]
  BY <1>2 DEF Bar
<1>3. ASSUME NEW q \in Procs, NEW x \in {"idle", "cycle", "mark"},
             step' = [step EXCEPT ![q] = x],
             \A r \in Procs \ {q} : plan'[r] = plan[r] /\ kit'[r] = kit[r]
      PROVE  step[p] = "work" /\ Bar(p)' = Bar(p) /\ kit'[p] = kit[p]
  BY <1>3 DEF Types, Bar
<1>4. ASSUME NEW q \in Procs, StartRun(q) \/ FinishCycle(q) \/ Crash(q) \/ Abort(q)
      PROVE  step[p] = "work" /\ Bar(p)' = Bar(p) /\ kit'[p] = kit[p]
  <2>1. /\ \E x \in {"idle", "cycle", "mark"} : step' = [step EXCEPT ![q] = x]
        /\ \A r \in Procs \ {q} : plan'[r] = plan[r] /\ kit'[r] = kit[r]
    BY <1>4 DEF StartRun, FinishCycle, Crash, Abort, Forget, Types
  <2>2. QED BY <1>3, <2>1
<1>5. ASSUME NEW q \in Procs, Mark(q)
      PROVE  step[p] = "work" /\ Bar(p)' = Bar(p) /\ kit'[p] = kit[p]
  <2>1. \/ step' = [step EXCEPT ![q] = "cycle"] /\ kit' = kit
        \/ step' = [step EXCEPT ![q] = "idle"] /\ kit' = [kit EXCEPT ![q] = {}]
    BY <1>5 DEF Mark
  <2>2. plan' = [plan EXCEPT ![q] = @ \ {Bar(q)}]
    BY <1>5 DEF Mark
  <2>3. \A r \in Procs \ {q} : plan'[r] = plan[r] /\ kit'[r] = kit[r]
    BY <2>1, <2>2 DEF Types
  <2>4. QED BY <1>3, <2>1, <2>3
<1>6. CASE \/ CloseBar \/ Settle \/ OrphanScan \/ Quiet \/ UNCHANGED vars
           \/ \E s \in Scanners : EnableScanner(s)
           \/ \E q \in Procs : \/ Begin(q) \/ Evaluate(q) \/ Report(q) \/ Retry(q)
                               \/ FailInstrument(q) \/ Expire(q) \/ Disconnect(q)
  <2>1. UNCHANGED <<plan, kit, step>>
    BY <1>6 DEF CloseBar, Settle, OrphanScan, Quiet, EnableScanner, Begin, Evaluate, Report,
                Retry, FailInstrument, Expire, Disconnect, vars, local
  <2>2. QED BY <1>2, <2>1
<1>7. QED BY <1>1, <1>4, <1>5, <1>6 DEF Next, Scan

\* A cycle is called completed by a run in which no instrument failed.
LEMMA CyclesComplete ==
    ASSUME Types, [Next]_vars, NEW b \in Bars, cycle'[b] = "completed", cycle[b] # "completed"
    PROVE  \E p \in Procs : FinishCycle(p) /\ Bar(p) = b /\ bad[p] = {}
<1>1. ASSUME NEW p \in Procs, FinishCycle(p) PROVE Bar(p) = b /\ bad[p] = {}
  BY <1>1 DEF FinishCycle, Types
<1>2. ASSUME NEW p \in Procs, StartCycle(p) PROVE FALSE
  BY <1>2 DEF StartCycle, Types
<1>3. CASE \/ CloseBar \/ Settle \/ OrphanScan \/ Quiet \/ UNCHANGED vars
           \/ \E s \in Scanners : EnableScanner(s)
           \/ \E p \in Procs : \/ StartRun(p) \/ Begin(p) \/ Evaluate(p) \/ Report(p)
                               \/ Retry(p) \/ Mark(p) \/ Abort(p) \/ FailInstrument(p)
                               \/ Expire(p) \/ Crash(p) \/ Disconnect(p)
  BY <1>3 DEF CloseBar, Settle, OrphanScan, Quiet, EnableScanner, StartRun, Begin, Evaluate,
              Report, Retry, Mark, Abort, FailInstrument, Expire, Crash, Disconnect, vars,
              tables
<1>4. QED BY <1>1, <1>2, <1>3 DEF Next, Scan

\* The owner that calls a bar completed has every evaluation that is known.
LEMMA CompletedIsFull ==
    ASSUME Inv, NEW p \in Procs, FinishCycle(p), bad[p] = {}, NEW i \in Instruments
    PROVE  Known = kit[p] /\ kit[p] \subseteq done[Bar(p)][i]
<1>1. owner = p /\ step[p] = "work" /\ todo[p] = {} /\ flight[p] = {}
  BY DEF FinishCycle, RoundOver
<1>2. Known = kit[p]
  BY <1>1, ConstantTypes DEF Known
<1>3. i \in ok[p]
  BY <1>1 DEF Inv, Local, InstrumentsAreSplit
<1>4. kit[p] \subseteq done[Bar(p)][i]
  BY <1>3 DEF Inv, Local, WorkIsDone
<1>5. QED BY <1>2, <1>4

LEMMA CompletedStep ==
    ASSUME Inv, Coverage, [Next]_vars
    PROVE  CompletedIsReported'
<1>1. ScansMove /\ Types /\ KitsAreKnown
  BY EveryScanMoves DEF Inv, Coverage
<1> SUFFICES ASSUME NEW b \in Bars, cycle'[b] = "completed"
             PROVE  /\ \A i \in Instruments : Reported(b, i)'
                    /\ \A w \in UnderWay' : w.bar = b => HasAll(w)'
                    /\ \A p \in Procs : step'[p] = "work" /\ Bar(p)' = b =>
                            \A i \in Instruments : kit'[p] \subseteq done'[b][i]
  BY DEF CompletedIsReported
<1>2. /\ \A i \in Instruments : Reported(b, i)
      /\ \A w \in UnderWay : w.bar = b => HasAll(w)
      /\ \A p \in Procs : step[p] = "work" /\ Bar(p) = b =>
            \A i \in Instruments : kit[p] \subseteq done[b][i]
  <2>1. CASE cycle[b] = "completed"
    BY <2>1 DEF Coverage, CompletedIsReported
  <2>2. CASE cycle[b] # "completed"
    <3>1. PICK p \in Procs : FinishCycle(p) /\ Bar(p) = b /\ bad[p] = {}
      BY <1>1, <2>2, CyclesComplete
    <3>2. \A i \in Instruments : Known \subseteq done[b][i]
      BY <3>1, CompletedIsFull
    <3>3. \A w \in UnderWay : w.bar = b => HasAll(w)
      <4>1. \A w \in UnderWay : w.kit \subseteq Known /\ w.inst \in Instruments
        BY <1>1, UnderWayTypes DEF KitsAreKnown, Scans
      <4>2. QED BY <3>2, <4>1 DEF HasAll
    <3>4. QED BY <1>1, <3>2, <3>3 DEF KitsAreKnown, Coverage, FullIsReported
  <2>3. QED BY <2>1, <2>2
<1>3. \A i \in Instruments : done[b][i] \subseteq done'[b][i]
  BY <1>1 DEF ScansMove
<1>4. \A i \in Instruments : Reported(b, i)'
  <2> SUFFICES ASSUME NEW i \in Instruments PROVE Reported(b, i)'
    OBVIOUS
  <2>1. \A w \in UnderWay : w.bar = b /\ w.inst = i => w.kit \subseteq done'[b][i]
    BY <1>2, <1>3 DEF HasAll
  <2>2. QED BY <1>1, <1>2, <2>1, ReportedStays
<1>5. ASSUME NEW w \in UnderWay', w.bar = b PROVE HasAll(w)'
  <2>1. CASE \E v \in UnderWay : SameScan(v, w)
    <3>1. PICK v \in UnderWay : SameScan(v, w)
      BY <2>1
    <3>2. HasAll(v) /\ v.inst \in Instruments
      BY <1>1, <1>2, <1>5, <3>1, UnderWayTypes DEF SameScan, Scans
    <3>3. QED BY <1>3, <1>5, <3>1, <3>2 DEF SameScan, HasAll
  <2>2. CASE \E p \in Procs : step[p] = "work" /\ w.bar = Bar(p) /\ w.kit = kit[p]
    <3>1. Types'
      BY NextInv DEF Inv
    <3>2. w.inst \in Instruments
      BY <3>1, <1>5 DEF Types, UnderWay, Scans
    <3>3. QED BY <1>2, <1>3, <1>5, <2>2, <3>2 DEF HasAll
  <2>3. QED BY <1>1, <1>5, <2>1, <2>2 DEF ScansMove, ScansGoOn
<1>6. ASSUME NEW p \in Procs, step'[p] = "work", Bar(p)' = b, NEW i \in Instruments
      PROVE  kit'[p] \subseteq done'[b][i]
  <2>1. step[p] = "work" /\ Bar(p) = b /\ kit'[p] = kit[p]
    BY <1>1, <1>6, WorkersKeep
  <2>2. QED BY <1>2, <1>3, <2>1
<1>7. QED BY <1>4, <1>5, <1>6

\* A cycle that is completed has the report of every instrument whose evaluations cover
\* two families, or it is to come, but for those interrupted between their last evaluation
\* and the report and those that a scan of an overtaken run completed; also when scanners
\* are enabled, sessions lost and runs resumed by another process.
THEOREM CompletedCyclesAreReported == Spec => []CompletedAreReported
<1>1. Init => Coverage
  <2> SUFFICES ASSUME Init PROVE Coverage
    OBVIOUS
  <2> USE DEF Init
  <2>1. UnderWay = {} /\ Known = First /\ \A p \in Procs : step[p] = "idle"
    BY DEF UnderWay, Known
  <2>2. KitsAreKnown
    BY <2>1 DEF KitsAreKnown
  <2>3. \A b \in Bars, i \in Instruments : Reported(b, i)
    <3> SUFFICES ASSUME NEW b \in Bars, NEW i \in Instruments, Covers(done[b][i])
                 PROVE  <<b, i>> \in reports
      BY DEF Reported
    <3>1. ~Covers({})
      BY DEF Covers
    <3>2. b = Start /\ Covers(First)
      BY <3>1
    <3>3. QED BY <3>2
  <2>4. FullIsReported /\ CompletedIsReported
    BY <2>1, <2>3 DEF FullIsReported, CompletedIsReported
  <2>5. QED BY <2>2, <2>4 DEF Coverage
<1>2. ASSUME Inv, Coverage, [Next]_vars PROVE Coverage'
  BY <1>2, KitsStep, FullStep, CompletedStep DEF Coverage
<1>3. Coverage => CompletedAreReported
  BY DEF Coverage, CompletedIsReported, Reported, CompletedAreReported
<1>4. QED BY <1>1, <1>2, <1>3, Safe, PTL DEF Spec

-----------------------------------------------------------------------------
(* Clause 18, where it holds.                                              *)

\* A lane that only scan-due serves, with the scanners it began with.
FixedLane == Live = {} /\ Scanners = First

\* Its scanners are at the same bar: each run has all of them, and moves all of them.
InStep ==
    /\ catalogue = Scanners
    /\ \A p \in Procs : step[p] # "idle" => kit[p] = Scanners
    /\ \A s, t \in Scanners : watermark[s] = watermark[t]

OnlyOldAreSkipped == \A b \in skipped : b + Lookback <= closed

\* A plan that starts at the common watermark leaves out what is too old.
LEMMA OnlyOldAreLeftOut ==
    ASSUME FixedLane, Inv, InStep, NEW p \in Procs, NEW b \in LeftOut(p)
    PROVE  b + Lookback <= closed
<1>1. PICK s \in Scanners : 0 < watermark[s] /\ watermark[s] < b
  BY DEF LeftOut, InStep
<1>2. PICK m : m = watermark[s]
  OBVIOUS
<1>3. \A t \in Scanners : watermark[t] = m
  BY <1>2 DEF InStep
<1>4. m \in Nat /\ m # 0 /\ closed \in Nat /\ b \in Nat
  BY <1>1, <1>2 DEF Inv, Types, LeftOut, Horizon
<1>5. EarliestWatermark(catalogue) = m
  <2>1. ~ \E t \in catalogue : watermark[t] = 0
    BY <1>3, <1>4 DEF InStep
  <2>2. {watermark[t] : t \in catalogue} = {m}
    BY <1>3 DEF InStep
  <2>3. Lowest({m}) = m
    BY <1>4 DEF Lowest
  <2>4. QED BY <2>1, <2>2, <2>3 DEF EarliestWatermark
<1>6. b <= closed - Lookback
  BY <1>4, <1>5 DEF LeftOut, FixedLane, Horizon
<1>7. QED BY <1>4, <1>6, ConstantTypes

\* Every step keeps the scanners together.
LEMMA InStepStep ==
    ASSUME FixedLane
    PROVE  Inv /\ InStep /\ [Next]_vars => InStep'
<1> SUFFICES ASSUME Inv, InStep, [Next]_vars PROVE InStep'
  OBVIOUS
<1>1. ASSUME UNCHANGED <<catalogue, watermark, step, kit>> PROVE InStep'
  BY <1>1 DEF InStep
\* The steps of p within its run.
<1>2. ASSUME NEW p \in Procs, step[p] # "idle", UNCHANGED <<catalogue, watermark, kit>>,
             NEW x, step' = [step EXCEPT ![p] = x]
      PROVE  InStep'
  <2>1. \A q \in Procs : q # p => step'[q] = step[q]
    BY <1>2 DEF Inv, Types
  <2>2. \A q \in Procs : step'[q] # "idle" => step[q] # "idle"
    BY <1>2, <2>1
  <2>3. QED BY <1>2, <2>2 DEF InStep
<1>3. ASSUME NEW p \in Procs, StartRun(p) PROVE InStep'
  <2>1. /\ kit' = [kit EXCEPT ![p] = Scanners] /\ step' = [step EXCEPT ![p] = "cycle"]
        /\ UNCHANGED <<catalogue, watermark>>
    BY <1>3 DEF StartRun, InStep, clock, tables
  <2>2. \A q \in Procs : step'[q] # "idle" => kit'[q] = Scanners
    <3>1. /\ kit'[p] = Scanners
          /\ \A q \in Procs : q # p => kit'[q] = kit[q] /\ step'[q] = step[q]
      BY <2>1 DEF Inv, Types
    <3>2. QED BY <3>1 DEF InStep
  <2>3. QED BY <2>1, <2>2 DEF InStep
<1>4. ASSUME NEW p \in Procs, NEW k, Forget(p, k), UNCHANGED <<catalogue, watermark>>
      PROVE  InStep'
  <2>1. \A q \in Procs : step'[q] # "idle" => step[q] # "idle" /\ kit'[q] = kit[q]
    BY <1>4 DEF Forget, Inv, Types
  <2>2. QED BY <1>4, <2>1 DEF InStep
<1>5. ASSUME NEW p \in Procs, Mark(p) PROVE InStep'
  <2>1. step[p] = "mark" /\ kit[p] = Scanners /\ UNCHANGED catalogue
    BY <1>5 DEF Mark, InStep, clock
  <2>2. \A s, t \in Scanners : watermark'[s] = watermark'[t]
    <3>1. watermark' = [s \in Scanners |-> IF Advances(p) /\ s \in kit[p] /\ Bar(p) > watermark[s]
                                           THEN Bar(p) ELSE watermark[s]]
      BY <1>5 DEF Mark
    <3>2. \A s, t \in Scanners : watermark[s] = watermark[t]
      BY DEF InStep
    <3>3. QED BY <2>1, <3>1, <3>2
  <2>3. \A q \in Procs : step'[q] # "idle" => step[q] # "idle" /\ kit'[q] = kit[q]
    <3>1. CASE plan[p] # {Bar(p)}
      <4>1. step' = [step EXCEPT ![p] = "cycle"] /\ kit' = kit
        BY <1>5, <3>1 DEF Mark
      <4>2. QED BY <2>1, <4>1 DEF Inv, Types
    <3>2. CASE plan[p] = {Bar(p)}
      <4>1. step' = [step EXCEPT ![p] = "idle"] /\ kit' = [kit EXCEPT ![p] = {}]
        BY <1>5, <3>2 DEF Mark
      <4>2. QED BY <4>1 DEF Inv, Types
    <3>3. QED BY <3>1, <3>2
  <2>4. QED BY <2>1, <2>2, <2>3 DEF InStep
<1>6. ASSUME NEW p \in Procs, StartCycle(p) \/ FinishCycle(p) PROVE InStep'
  <2>1. /\ step[p] # "idle" /\ UNCHANGED <<catalogue, watermark, kit>>
        /\ \E x : step' = [step EXCEPT ![p] = x]
    BY <1>6 DEF StartCycle, FinishCycle, RoundOver, clock
  <2>2. QED BY <1>2, <2>1
<1>7. ASSUME NEW p \in Procs,
             \/ Begin(p) \/ Evaluate(p) \/ Report(p) \/ Retry(p)
             \/ FailInstrument(p) \/ Expire(p) \/ Disconnect(p)
      PROVE  InStep'
  BY <1>1, <1>7 DEF Begin, Evaluate, Report, Retry, FailInstrument, Expire, Disconnect,
                    clock, tables, local
<1>8. ASSUME NEW p \in Procs, Crash(p) \/ Abort(p) PROVE InStep'
  <2>1. UNCHANGED <<catalogue, watermark>> /\ \E k : Forget(p, k)
    BY <1>8 DEF Crash, Abort, clock, tables
  <2>2. QED BY <1>4, <2>1
<1>9. CASE \E s \in Scanners : EnableScanner(s)
  BY <1>9 DEF EnableScanner, InStep
<1>10. CASE CloseBar \/ Settle \/ OrphanScan \/ Quiet \/ UNCHANGED vars
  BY <1>1, <1>10 DEF CloseBar, Settle, OrphanScan, Quiet, vars, clock, tables, local
<1>11. QED BY <1>3, <1>5, <1>6, <1>7, <1>8, <1>9, <1>10 DEF Next, Scan

\* A bar that is too old stays so.
LEMMA SkippedStep ==
    ASSUME FixedLane
    PROVE  Inv /\ InStep /\ OnlyOldAreSkipped /\ [Next]_vars => OnlyOldAreSkipped'
<1> SUFFICES ASSUME Inv, InStep, OnlyOldAreSkipped, [Next]_vars PROVE OnlyOldAreSkipped'
  OBVIOUS
<1>1. closed \in Nat /\ Lookback \in Nat /\ skipped \subseteq Nat
  BY ConstantTypes DEF Inv, Types, Bars
<1>2. CASE CloseBar
  <2>1. closed' = closed + 1 /\ skipped' = skipped
    BY <1>2 DEF CloseBar, history
  <2>2. QED BY <1>1, <2>1 DEF OnlyOldAreSkipped
<1>3. ASSUME NEW p \in Procs, StartRun(p) PROVE OnlyOldAreSkipped'
  <2>1. closed' = closed /\ skipped' = skipped \cup LeftOut(p)
    BY <1>3 DEF StartRun, clock
  <2>2. QED BY <2>1, OnlyOldAreLeftOut DEF OnlyOldAreSkipped
<1>4. ASSUME UNCHANGED <<closed, skipped>> PROVE OnlyOldAreSkipped'
  BY <1>4 DEF OnlyOldAreSkipped
<1>5. ASSUME NEW p \in Procs,
             \/ StartCycle(p) \/ Begin(p) \/ Evaluate(p) \/ Report(p) \/ Retry(p)
             \/ FinishCycle(p) \/ Mark(p) \/ Abort(p)
             \/ FailInstrument(p) \/ Expire(p) \/ Crash(p) \/ Disconnect(p)
      PROVE  OnlyOldAreSkipped'
  BY <1>4, <1>5 DEF StartCycle, Begin, Evaluate, Report, Retry, FinishCycle, Mark, Abort,
                    FailInstrument, Expire, Crash, Disconnect, clock, history
<1>6. CASE Settle \/ OrphanScan \/ Quiet \/ (\E s \in Scanners : EnableScanner(s))
           \/ UNCHANGED vars
  BY <1>4, <1>6 DEF Settle, OrphanScan, Quiet, EnableScanner, vars, clock, history
<1>7. QED BY <1>2, <1>3, <1>5, <1>6 DEF Next, Scan

\* scan-due leaves out no bar but those that are older than the lookback, whatever
\* fails, as long as no scanner is enabled and no live worker shares the lane.
THEOREM OnlyOldBarsAreLeftOut ==
    ASSUME FixedLane
    PROVE  Spec => []OnlyOldAreSkipped
<1>1. Init => InStep /\ OnlyOldAreSkipped
  BY DEF Init, FixedLane, InStep, OnlyOldAreSkipped
<1>2. Inv /\ InStep /\ [Next]_vars => InStep'
  BY InStepStep
<1>3. Inv /\ InStep /\ OnlyOldAreSkipped /\ [Next]_vars => OnlyOldAreSkipped'
  BY SkippedStep
<1>4. QED BY <1>1, <1>2, <1>3, Safe, PTL DEF Spec

\* Contract clause 18 of such a lane: while no bar is older than the lookback and no
\* instrument failed for good, no bar between two watermarks is missing, whatever
\* processes crash, lose their sessions and take over.
THEOREM MissedBarsCompleted ==
    ASSUME FixedLane
    PROVE  Spec => [](closed <= Lookback /\ failed = {} => MissedBarsAreCompleted)
<1>1. Inv /\ OnlyOldAreSkipped /\ PassedBarsAccountForAll
      => (closed <= Lookback /\ failed = {} => MissedBarsAreCompleted)
  <2> SUFFICES ASSUME Inv, OnlyOldAreSkipped, PassedBarsAccountForAll,
                      closed <= Lookback, failed = {},
                      NEW s \in Scanners, NEW b \in Bars,
                      0 < since[s], since[s] < b, b <= watermark[s]
               PROVE  \E i \in Instruments : s \in done[b][i]
    BY DEF MissedBarsAreCompleted
  <2>1. b \in Nat /\ b >= 1 /\ since[s] \in Nat /\ closed \in Nat /\ Lookback \in Nat
    BY ConstantTypes DEF Inv, Types, Bars
  <2>2. b \notin skipped
    BY <2>1 DEF OnlyOldAreSkipped
  <2>3. since[s] <= b
    BY <2>1
  <2>4. \A i \in Instruments : s \in done[b][i]
    BY <2>2, <2>3 DEF PassedBarsAccountForAll
  <2>5. 1 \in Instruments
    BY ScanAssumption DEF Instruments
  <2>6. QED BY <2>4, <2>5
<1>2. QED BY <1>1, OnlyOldBarsAreLeftOut, NoBarPassedSilently, Safe, PTL

=============================================================================
