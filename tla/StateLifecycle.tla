--------------------------- MODULE StateLifecycle ---------------------------
(***************************************************************************)
(* What the state machine promises to a subscriber: the clauses on states  *)
(* of docs/architecture/frozen-contract.md (8-13, 21), without rows, bars,   *)
(* versions or transactions.                                               *)
(*                                                                         *)
(* A key moves between phases; a message may be sent about a move, and it  *)
(* is the message of that move.  Several keys may move in one step.        *)
(***************************************************************************)
EXTENDS Naturals

CONSTANT Keys

VARIABLES
    phase,          \* phase of each key
    news            \* messages sent, [key, kind, bar]

Phases == {"outside", "in", "doubt", "lost", "halted"}

\* Moves that have a message, and the message they have.
Announced == [enter  |-> {<<"outside", "in">>, <<"lost", "in">>, <<"halted", "in">>},
              resume |-> {<<"doubt", "in">>},
              exit   |-> {<<"in", "outside">>},
              infer  |-> {<<"doubt", "outside">>}]
MessageOf == [enter |-> "ENTER", resume |-> "RESUMED",
              exit |-> "EXIT", infer |-> "EXIT_INFERRED"]

\* Moves nobody is told of: data goes missing, the wait for it is given up,
\* trading halts, and a halt ends without a match.
SilentMoves == {<<"in", "doubt">>, <<"doubt", "lost">>, <<"halted", "doubt">>,
                <<"halted", "outside">>}
               \cup {<<p, "halted">> : p \in Phases}

Moves == SilentMoves \cup UNION {Announced[a] : a \in DOMAIN Announced}

\* The messages a move may send.
KindsOf(move) == {MessageOf[a] : a \in {x \in DOMAIN Announced : move \in Announced[x]}}

Init ==
    /\ phase = [k \in Keys |-> "outside"]
    /\ news = {}

Next ==
    /\ phase' \in [Keys -> Phases]
    /\ \A k \in Keys : phase'[k] = phase[k] \/ <<phase[k], phase'[k]>> \in Moves
    /\ news \subseteq news'
    /\ \A m \in news' \ news : m.kind \in KindsOf(<<phase[m.key], phase'[m.key]>>)

Spec == Init /\ [][Next]_<<phase, news>>

=============================================================================
