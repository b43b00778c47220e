------------------------------- MODULE Outbox -------------------------------
(***************************************************************************)
(* The Telegram outbox and its publishers:                                 *)
(*   persistence/postgres/outbox.py      (claim, mark_sent, mark_failed)   *)
(*   delivery/telegram/publisher.py      (publish_batch)                   *)
(*   delivery/telegram/http_transport.py (send)                            *)
(*   scripts/atc_publish_targeted.py     (a publisher of some messages)    *)
(*                                                                         *)
(* A publisher claims a batch under a lease, sends it message by message   *)
(* and records each outcome.  Neither UPDATE names the claim it settles:   *)
(* they only ask for status = 'processing'.                                *)
(*                                                                         *)
(* Times are kept relative to now, so that the state space is finite:      *)
(* due[m] is available_at - now, lease[m] is lease_until - now.  One tick  *)
(* is the shortest retry delay (30 s in the code).                         *)
(***************************************************************************)
EXTENDS Integers, Sequences, FiniteSets

CONSTANTS
    Messages,       \* outbox rows, by semantic_key
    Publishers,     \* publisher processes, restarted when they die
    Scope,          \* Scope[p]: the messages p claims (atc_publish_targeted)
    Limit,          \* size of a batch (20)
    Lease,          \* lease_minutes in ticks
    DelayCap,       \* longest retry delay in ticks (3600 s)
    MaxAge,         \* bound: waiting times above it are not told apart
    MaxFaults       \* bound: MaxFaults[f] faults of kind f happen

FaultKinds == {"rejected", "ambiguous", "crash", "overrun"}

ASSUME OutboxAssumption ==
    /\ IsFiniteSet(Messages) /\ IsFiniteSet(Publishers)
    /\ Scope \in [Publishers -> SUBSET Messages]
    /\ Limit \in Nat \ {0} /\ Lease \in Nat \ {0}
    /\ DelayCap \in Nat \ {0} /\ MaxAge \in Nat
    /\ MaxFaults \in [FaultKinds -> Nat]

VARIABLES
    status,         \* telegram_outbox.status
    attempts,       \* telegram_outbox.attempt_count
    due,            \* available_at, relative to now
    lease,          \* lease_until, relative to now; 0 when over or NULL
    batch,          \* what is left of a publisher's batch
    elapsed,        \* ticks since the publisher claimed its batch
    reply,          \* what send returned for the head of the batch
    delivered,      \* history: times the chat received a message
    excuses,        \* history: events that may duplicate a message
    faults          \* faults so far, per kind

table == <<status, attempts, due, lease>>
vars == <<status, attempts, due, lease, batch, elapsed, reply,
          delivered, excuses, faults>>

Least(a, b) == IF a <= b THEN a ELSE b
Greatest(a, b) == IF a >= b THEN a ELSE b

Holders(m) == {p \in Publishers : \E i \in DOMAIN batch[p] : batch[p][i].msg = m}
Busy(p) == batch[p] # <<>>
Item(p) == Head(batch[p])

FaultAllowed(f) == faults[f] < MaxFaults[f]
Count(f) == faults' = [faults EXCEPT ![f] = @ + 1]

\* Mistake: the delay doubles for ever.
RetryDelay_Uncapped(attempt) == 2 ^ Greatest(attempt - 1, 0)

\* delay_seconds: 30 * 2^max(attempt - 1, 0), at most 3600.
RetryDelay(attempt) == Least(2 ^ Greatest(attempt - 1, 0), DelayCap)

Init ==
    /\ status = [m \in Messages |-> "absent"]
    /\ attempts = [m \in Messages |-> 0]
    /\ due = [m \in Messages |-> 0]
    /\ lease = [m \in Messages |-> 0]
    /\ batch = [p \in Publishers |-> <<>>]
    /\ elapsed = [p \in Publishers |-> 0]
    /\ reply = [p \in Publishers |-> "none"]
    /\ delivered = [m \in Messages |-> 0]
    /\ excuses = [m \in Messages |-> 0]
    /\ faults = [f \in FaultKinds |-> 0]

\* OUTBOX_SQL; a second insert of the same semantic_key does nothing.
Enqueue(m) ==
    /\ status[m] = "absent"
    /\ status' = [status EXCEPT ![m] = "pending"]
    /\ due' = [due EXCEPT ![m] = 0]
    /\ UNCHANGED <<attempts, lease, batch, elapsed, reply, delivered, excuses, faults>>

\* Mistake: rows in flight can be claimed before their lease ends.
Claimable_Leased(p) ==
    {m \in Scope[p] : \/ status[m] \in {"pending", "failed"} /\ due[m] <= 0
                      \/ status[m] = "processing"}

\* Mistake: rows of a dead publisher are never claimed again.
Claimable_Waiting(p) == {m \in Scope[p] : status[m] \in {"pending", "failed"} /\ due[m] <= 0}

Claimable(p) ==
    {m \in Scope[p] : \/ status[m] \in {"pending", "failed"} /\ due[m] <= 0
                      \/ status[m] = "processing" /\ lease[m] = 0}

\* CLAIM_SQL: the first Limit claimable rows by available_at.
Claimed(p, S) ==
    /\ S \subseteq Claimable(p) /\ S # {} /\ Cardinality(S) <= Limit
    /\ S # Claimable(p) => Cardinality(S) = Limit
    /\ \A m \in S : \A n \in Claimable(p) \ S : due[m] <= due[n]

\* The batch in the order of RETURNING, with the attempt counts it carries.
Batches(S) ==
    {[i \in DOMAIN q |-> [msg |-> q[i], attempt |-> attempts[q[i]] + 1]] :
        q \in {f \in [1 .. Cardinality(S) -> S] :
                  /\ \A i, j \in DOMAIN f : f[i] = f[j] => i = j
                  /\ \A i, j \in DOMAIN f : i < j => due[f[i]] <= due[f[j]]}}

Claim(p) ==
    /\ ~Busy(p)
    /\ \E S \in SUBSET Claimable(p) :
        /\ Claimed(p, S)
        /\ batch' \in {[batch EXCEPT ![p] = b] : b \in Batches(S)}
        /\ status' = [m \in Messages |-> IF m \in S THEN "processing" ELSE status[m]]
        /\ attempts' = [m \in Messages |-> IF m \in S THEN attempts[m] + 1 ELSE attempts[m]]
        /\ lease' = [m \in Messages |-> IF m \in S THEN Lease ELSE lease[m]]
        /\ excuses' = [m \in Messages |-> IF m \in S /\ status[m] = "processing"
                                             /\ lease[m] = 0 /\ Holders(m) # {}
                                          THEN excuses[m] + 1 ELSE excuses[m]]
    /\ elapsed' = [elapsed EXCEPT ![p] = 0]
    /\ UNCHANGED <<due, reply, delivered, faults>>

\* Telegram takes the message and its answer arrives.
SendAccepted(p) ==
    /\ Busy(p) /\ reply[p] = "none"
    /\ delivered' = [delivered EXCEPT ![Item(p).msg] = @ + 1]
    /\ reply' = [reply EXCEPT ![p] = "ok"]
    /\ UNCHANGED <<table, batch, elapsed, excuses, faults>>

\* An HTTP error, 429 after five attempts, a bad payload or a missing file.
SendRejected(p) ==
    /\ Busy(p) /\ reply[p] = "none" /\ FaultAllowed("rejected")
    /\ reply' = [reply EXCEPT ![p] = "error"]
    /\ Count("rejected")
    /\ UNCHANGED <<table, batch, elapsed, delivered, excuses>>

\* Telegram takes the message, but the answer times out, is not JSON, names
\* another topic or has no message_id.
SendAmbiguous(p) ==
    /\ Busy(p) /\ reply[p] = "none" /\ FaultAllowed("ambiguous")
    /\ delivered' = [delivered EXCEPT ![Item(p).msg] = @ + 1]
    /\ excuses' = [excuses EXCEPT ![Item(p).msg] = @ + 1]
    /\ reply' = [reply EXCEPT ![p] = "error"]
    /\ Count("ambiguous")
    /\ UNCHANGED <<table, batch, elapsed>>

NextItem(p) ==
    /\ batch' = [batch EXCEPT ![p] = Tail(@)]
    /\ reply' = [reply EXCEPT ![p] = "none"]

\* Mistake: the UPDATE looks for a status the row no longer has.
MarkSent_WrongStatus(p) ==
    /\ Busy(p) /\ reply[p] = "ok"
    /\ NextItem(p)
    /\ UNCHANGED <<table, elapsed, delivered, excuses, faults>>

\* MARK_SENT_SQL: no row is updated unless the status is still processing.
MarkSent(p) ==
    /\ Busy(p) /\ reply[p] = "ok"
    /\ LET m == Item(p).msg
       IN  IF status[m] = "processing"
           THEN /\ status' = [status EXCEPT ![m] = "sent"]
                /\ lease' = [lease EXCEPT ![m] = 0]
           ELSE UNCHANGED <<status, lease>>
    /\ NextItem(p)
    /\ UNCHANGED <<attempts, due, elapsed, delivered, excuses, faults>>

\* Mistake: a message that cannot be sent is closed.
MarkFailed_Closes(p) ==
    /\ Busy(p) /\ reply[p] = "error"
    /\ status' = [status EXCEPT ![Item(p).msg] = "sent"]
    /\ NextItem(p)
    /\ UNCHANGED <<attempts, due, lease, elapsed, delivered, excuses, faults>>

\* MARK_FAILED_SQL: retry_at counts from the time the batch was claimed.
MarkFailed(p) ==
    /\ Busy(p) /\ reply[p] = "error"
    /\ LET m == Item(p).msg
       IN  IF status[m] = "processing"
           THEN /\ status' = [status EXCEPT ![m] = "failed"]
                /\ lease' = [lease EXCEPT ![m] = 0]
                /\ due' = [due EXCEPT ![m] =
                             Greatest(RetryDelay(Item(p).attempt) - elapsed[p], -MaxAge)]
           ELSE UNCHANGED <<status, lease, due>>
    /\ NextItem(p)
    /\ UNCHANGED <<attempts, elapsed, delivered, excuses, faults>>

\* The process dies, or a statement fails and publish_batch raises: the rest
\* of the batch is forgotten until its leases run out.
Crash(p) ==
    /\ Busy(p) /\ FaultAllowed("crash")
    /\ excuses' = IF reply[p] = "ok"
                  THEN [excuses EXCEPT ![Item(p).msg] = @ + 1] ELSE excuses
    /\ batch' = [batch EXCEPT ![p] = <<>>]
    /\ reply' = [reply EXCEPT ![p] = "none"]
    /\ Count("crash")
    /\ UNCHANGED <<table, elapsed, delivered>>

\* Time passes.  A tick that ends the lease of a batch still being sent (a slow
\* Telegram, 429 waits of up to two minutes) is an overrun.
Overruns == {m \in Messages : /\ status[m] = "processing" /\ lease[m] = 1
                              /\ Holders(m) # {}}
Tick ==
    /\ IF Overruns = {} THEN UNCHANGED faults
                        ELSE FaultAllowed("overrun") /\ Count("overrun")
    /\ due' = [m \in Messages |-> IF status[m] \notin {"absent", "sent"}
                                  THEN Greatest(due[m] - 1, -MaxAge) ELSE due[m]]
    /\ lease' = [m \in Messages |-> Greatest(lease[m] - 1, 0)]
    /\ elapsed' = [p \in Publishers |-> IF Busy(p)
                                        THEN Least(elapsed[p] + 1, MaxAge + DelayCap) ELSE 0]
    /\ UNCHANGED <<status, attempts, batch, reply, delivered, excuses>>

Publish(p) == Claim(p) \/ SendAccepted(p) \/ MarkSent(p) \/ MarkFailed(p)

Next ==
    \/ \E m \in Messages : Enqueue(m)
    \/ \E p \in Publishers : \/ Publish(p) \/ SendRejected(p) \/ SendAmbiguous(p) \/ Crash(p)
    \/ Tick

Spec == Init /\ [][Next]_vars

\* publisher-loop claims every --interval seconds and works through its batch;
\* a dead process is restarted; time passes.  Failures are finitely many.
Fairness ==
    /\ WF_vars(Tick)
    /\ \A p \in Publishers : WF_vars(Publish(p))

FairSpec == Spec /\ Fairness

-----------------------------------------------------------------------------
Items == [msg : Messages, attempt : Nat \ {0}]

TypeOK ==
    /\ status \in [Messages -> {"absent", "pending", "processing", "failed", "sent"}]
    /\ attempts \in [Messages -> Nat]
    /\ due \in [Messages -> -MaxAge .. DelayCap]
    /\ lease \in [Messages -> 0 .. Lease]
    /\ batch \in [Publishers -> Seq(Items)]
    /\ elapsed \in [Publishers -> 0 .. MaxAge + DelayCap]
    /\ reply \in [Publishers -> {"none", "ok", "error"}]
    /\ delivered \in [Messages -> Nat]
    /\ excuses \in [Messages -> Nat]
    /\ faults \in [FaultKinds -> Nat]

\* Clause 25: the chat sees a message again only after an answer was lost, a
\* publisher died before it recorded an answer, or a lease ran out under a
\* publisher that was still sending.
DuplicatesAreExcused == \A m \in Messages : delivered[m] <= 1 + excuses[m]

\* Without overruns a message is in the hands of one publisher at a time; each
\* overrun adds at most one, whatever the stale outcomes do to the row.
HoldersAreExcused ==
    \A m \in Messages : Cardinality(Holders(m)) <= 1 + faults["overrun"]

Promise == INSTANCE AtLeastOnce WITH
    wanted <- {m \in Messages : status[m] # "absent"},
    closed <- {m \in Messages : status[m] = "sent"}

\* Clauses 24 and 25 as the abstract specification: what is closed was
\* delivered and stays closed, what is delivered was wanted.
ImplementsAtLeastOnce == Promise!Spec

\* When failures stop, every message in the outbox is recorded as sent.
EverythingIsServed == Promise!Served

\* docs/setup/operations.md: overlapping publishers do not send it again.
NoResend == \A m \in Messages : delivered[m] <= 1

=============================================================================
