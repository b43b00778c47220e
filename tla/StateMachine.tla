---------------------------- MODULE StateMachine ----------------------------
(***************************************************************************)
(* The pure life cycle of one scanner state:                               *)
(* src/market_intelligence/scanning/state_machine.py, reconcile_state.     *)
(*                                                                         *)
(* A decision is computed from the stored snapshot and one observation.    *)
(* Reasons, metrics and message texts are left out; the counters, the      *)
(* order of the tests and the notify flag are kept.                        *)
(***************************************************************************)
EXTENDS Naturals

CONSTANT Threshold      \* abandon_after_unknown_bars; every caller uses 3

\* The guard of reconcile_state raises below 1.
ASSUME ThresholdAssumption == Threshold \in Nat \ {0}

Verdicts == {"MATCH", "NO_MATCH", "UNKNOWN"}

Statuses == {"ACTIVE", "INACTIVE", "UNKNOWN", "ABANDONED", "SUPERSEDED", "HALTED"}

\* previous = None is the status "NONE".
Outside == {"NONE", "INACTIVE", "ABANDONED", "HALTED"}

Transitions == {"ENTER", "CHANGE", "EXIT", "UNKNOWN", "RESUMED", "EXIT_INFERRED",
                "SUPERSEDED", "ADOPTED", "ABANDONED", "INSTRUMENT_HALTED"}

Snapshots == [status : Statuses \cup {"NONE"}, unknown : Nat]

Decision(status, unknown, transitions, notify) ==
    [status |-> status, unknown |-> unknown,
     transitions |-> transitions, notify |-> notify]

Decisions == [status : Statuses, unknown : Nat,
              transitions : SUBSET Transitions, notify : BOOLEAN]

-----------------------------------------------------------------------------
\* One operator per branch of reconcile_state, in the order it tests them.

HaltDecision(prev) ==
    Decision("HALTED", 0,
             IF prev.status = "HALTED" THEN {} ELSE {"INSTRUMENT_HALTED"},
             FALSE)

\* A new scanner version or ruleset takes the state over without a word.
UpgradeDecision(prev, verdict) ==
    LET superseded == IF prev.status \in {"NONE", "INACTIVE", "SUPERSEDED"}
                      THEN {} ELSE {"SUPERSEDED"}
    IN  IF verdict = "MATCH"
        THEN Decision("ACTIVE", 0, superseded \cup {"ADOPTED"}, FALSE)
        ELSE IF verdict = "NO_MATCH"
        THEN Decision("INACTIVE", 0, superseded, FALSE)
        ELSE Decision("UNKNOWN", 1, superseded, FALSE)

\* Mistake: the counter is reset on every evaluation.
UnknownCount_Stuck(prev) == 1

UnknownCount(prev) == IF prev.status = "UNKNOWN" THEN prev.unknown + 1 ELSE 1

\* Mistake: the threshold itself is still tolerated.
DoubtDecision_Late(prev) ==
    IF UnknownCount(prev) > Threshold
    THEN Decision("ABANDONED", UnknownCount(prev), {"ABANDONED"}, FALSE)
    ELSE Decision("UNKNOWN", UnknownCount(prev), {"UNKNOWN"}, FALSE)

\* Mistake: giving a state up leaves no entry in the log.
DoubtDecision_Unlogged(prev) ==
    Decision(IF UnknownCount(prev) >= Threshold THEN "ABANDONED" ELSE "UNKNOWN",
             UnknownCount(prev),
             IF prev.status = "UNKNOWN" THEN {} ELSE {"UNKNOWN"}, FALSE)

DoubtDecision(prev) ==
    IF UnknownCount(prev) >= Threshold
    THEN Decision("ABANDONED", UnknownCount(prev), {"ABANDONED"}, FALSE)
    ELSE Decision("UNKNOWN", UnknownCount(prev),
                  IF prev.status = "UNKNOWN" THEN {} ELSE {"UNKNOWN"}, FALSE)

\* Mistake: the first match is recorded but not announced.
MatchDecision_Silent(prev, sameKey) ==
    Decision("ACTIVE", 0, IF prev.status = "UNKNOWN" THEN {"RESUMED"} ELSE {"ENTER"}, FALSE)

\* Mistake: a state that comes back from UNKNOWN is announced as a new one.
MatchDecision_EntersAgain(prev, sameKey) ==
    Decision("ACTIVE", 0, {"ENTER"}, prev.status # "ACTIVE")

MatchDecision(prev, sameKey) ==
    IF prev.status \in Outside
    THEN Decision("ACTIVE", 0, {"ENTER"}, TRUE)
    ELSE IF prev.status = "UNKNOWN"
    THEN Decision("ACTIVE", 0, {"RESUMED"}, TRUE)
    ELSE IF ~sameKey
    THEN Decision("ACTIVE", 0, {"CHANGE"}, TRUE)
    ELSE Decision("ACTIVE", 0, {}, FALSE)

\* Mistake: the inferred exit of a doubtful state is not recorded.
NoMatchDecision_NotInferred(prev) ==
    Decision("INACTIVE", 0, IF prev.status = "ACTIVE" THEN {"EXIT"} ELSE {},
             prev.status = "ACTIVE")

NoMatchDecision(prev) ==
    IF prev.status \in Outside
    THEN Decision("INACTIVE", 0, {}, FALSE)
    ELSE Decision("INACTIVE", 0,
                  IF prev.status = "UNKNOWN" THEN {"EXIT_INFERRED"} ELSE {"EXIT"}, TRUE)

Reconcile(prev, verdict, sameKey, changed, halted) ==
    IF halted THEN HaltDecision(prev)
    ELSE IF changed THEN UpgradeDecision(prev, verdict)
    ELSE IF verdict = "UNKNOWN" THEN DoubtDecision(prev)
    ELSE IF verdict = "MATCH" THEN MatchDecision(prev, sameKey)
    ELSE NoMatchDecision(prev)

=============================================================================
