----------------------------- MODULE UpdateFeed -----------------------------
(***************************************************************************)
(* What the Telegram listener promises (frozen-contract.md, clause 26, and *)
(* docs/setup/operations.md): there is one consumer of the updates.  They  *)
(* are consumed in the order they were sent, one at a time, and the answer *)
(* to a command is given together with its consumption, hence once.        *)
(***************************************************************************)
EXTENDS Naturals

CONSTANTS Kinds,        \* kinds of updates
          Commands      \* those that are commands

VARIABLES
    sent,           \* updates 1..sent were sent to the bot
    kind,           \* their kinds
    consumed,       \* updates 1..consumed are consumed
    answered        \* updates that have an answer

Init == /\ sent = 0 /\ kind = <<>>
        /\ consumed = 0 /\ answered = {}

Arrive == /\ sent' = sent + 1
          /\ \E k \in Kinds : kind' = [u \in 1 .. sent + 1 |-> IF u <= sent THEN kind[u] ELSE k]
          /\ UNCHANGED <<consumed, answered>>

Consume == /\ consumed < sent
           /\ consumed' = consumed + 1
           /\ \/ answered' = answered
              \/ /\ kind[consumed + 1] \in Commands
                 /\ answered' = answered \cup {consumed + 1}
           /\ UNCHANGED <<sent, kind>>

Spec == Init /\ [][Arrive \/ Consume]_<<sent, kind, consumed, answered>>

=============================================================================
