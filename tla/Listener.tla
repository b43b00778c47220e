------------------------------ MODULE Listener ------------------------------
(***************************************************************************)
(* The consumer of Telegram updates:                                       *)
(*   application/telegram_listener.py            (TelegramListener)        *)
(*   persistence/postgres/telegram_updates.py    (offset, lock, checkpoint)*)
(*   application/symbol_commands.py              (handle)                  *)
(*   cli.py                                (_listener_once, _listener_loop)*)
(*                                                                         *)
(* A consumer takes the advisory lock of the listener and then runs: it    *)
(* reads the stored offset, polls Telegram from there, handles the updates *)
(* in order and stores, per update, the answer and the new offset in one   *)
(* transaction.  A command for a long job first inserts the job, in a      *)
(* transaction of its own over the same session.  The lock belongs to the  *)
(* session: a consumer whose session is lost goes on until its next        *)
(* statement fails, while the server may already give the lock away, or    *)
(* may keep it for a session nobody uses any more.                         *)
(*                                                                         *)
(* Updates are numbered in the order Telegram got them; texts, topics and  *)
(* the parts of an answer are left out.                                    *)
(***************************************************************************)
EXTENDS Naturals

CONSTANTS
    Consumers,      \* processes that listen: the service, the pulse workflow
    NoConsumer,     \* nobody holds the lock
    Ghost,          \* the lock is held by a session that nobody uses any more
    Modes,          \* sets of consumers whose delivery mode may be live
    Kinds,          \* kinds of updates that are sent
    Limit,          \* updates of one answer of getUpdates
    MaxUpdates,     \* bound: so many updates are sent
    MaxFaults       \* bound: so many crashes, disconnects and failed polls

Updates == 1 .. MaxUpdates

\* A command that is answered from stored results; one for a long job; one for a
\* long job of a symbol that no instrument has; anything else.
AllKinds == {"read", "job", "unknown", "other"}
Commands == {"read", "job", "unknown"}

ASSUME ListenerAssumption ==
    /\ NoConsumer \notin Consumers /\ Ghost \notin Consumers /\ NoConsumer # Ghost
    /\ Modes \subseteq SUBSET Consumers /\ Kinds \subseteq AllKinds
    /\ Limit \in Nat \ {0} /\ MaxUpdates \in Nat /\ MaxFaults \in Nat

VARIABLES
    sent,           \* Telegram: updates 1..sent arrived
    kind,           \* their kinds
    confirmed,      \* Telegram: updates below it are forgotten
    last,           \* telegram_consumers.last_update_id, 0 when there is no row
    replies,        \* updates whose answer is in the outbox, by semantic key
    jobs,           \* command_jobs: rows inserted for an update
    live,           \* consumers in delivery mode live
    lock,           \* the session that holds the advisory lock
    session,        \* consumers whose session is alive
    pc,             \* "idle", "connected", "poll", "batch", "commit" or "over"
    offset,         \* of the run
    batch,          \* updates of the run that are not committed yet
    cut,            \* history: sessions lost between job and checkpoint
    muted,          \* history: commands consumed by a consumer that is not live
    faults          \* faults so far

telegram == <<sent, kind, confirmed, live>>
tables == <<last, replies, jobs>>
local == <<pc, offset, batch>>
history == <<cut, muted>>
vars == <<sent, kind, confirmed, last, replies, jobs, live, lock, session, pc,
          offset, batch, cut, muted, faults>>

Init ==
    /\ sent = 0 /\ kind = <<>> /\ confirmed = 1
    /\ last = 0 /\ replies = {} /\ jobs = [u \in Updates |-> 0]
    /\ live \in Modes /\ lock = NoConsumer /\ session = {}
    /\ pc = [c \in Consumers |-> "idle"]
    /\ offset = [c \in Consumers |-> 1]
    /\ batch = [c \in Consumers |-> {}]
    /\ cut = [u \in Updates |-> 0] /\ muted = {} /\ faults = 0

Greatest(a, b) == IF a > b THEN a ELSE b

\* Mistake: updates are taken in the order of the answer, whatever that is.
IsNext_Unsorted(c, u) == u \in batch[c]

\* The update a consumer handles next: the lowest of its batch.
IsNext(c, u) == u \in batch[c] /\ \A v \in batch[c] : u <= v

-----------------------------------------------------------------------------
\* Somebody writes to the bot.
Send ==
    /\ sent < MaxUpdates
    /\ sent' = sent + 1
    /\ \E k \in Kinds : kind' = [u \in 1 .. sent + 1 |-> IF u <= sent THEN kind[u] ELSE k]
    /\ UNCHANGED <<confirmed, tables, live, lock, session, local, history, faults>>

\* Mistake: the result of pg_try_advisory_lock is not looked at.
Connect_Anyway(c) ==
    /\ pc[c] = "idle"
    /\ lock' = c /\ session' = session \cup {c}
    /\ pc' = [pc EXCEPT ![c] = "connected"]
    /\ UNCHANGED <<telegram, tables, offset, batch, history, faults>>

\* A process starts and takes the lock; without it it ends with an error.
Connect(c) ==
    /\ pc[c] = "idle" /\ lock = NoConsumer
    /\ lock' = c /\ session' = session \cup {c}
    /\ pc' = [pc EXCEPT ![c] = "connected"]
    /\ UNCHANGED <<telegram, tables, offset, batch, history, faults>>

\* next_offset.
NextOffset(c) ==
    /\ pc[c] \in {"connected", "over"} /\ c \in session
    /\ offset' = [offset EXCEPT ![c] = last + 1]
    /\ pc' = [pc EXCEPT ![c] = "poll"]
    /\ UNCHANGED <<telegram, tables, lock, session, batch, history, faults>>

\* getUpdates: Telegram forgets what is below the offset and returns the next
\* updates, or none when the poll times out.  It needs no session.
Poll(c) ==
    /\ pc[c] = "poll"
    /\ confirmed' = Greatest(confirmed, offset[c])
    /\ LET B == {u \in confirmed' .. sent : u < confirmed' + Limit /\ u >= offset[c]}
       IN  /\ batch' = [batch EXCEPT ![c] = B]
           /\ pc' = [pc EXCEPT ![c] = IF B = {} THEN "over" ELSE "batch"]
    /\ UNCHANGED <<sent, kind, tables, live, lock, session, offset, history, faults>>

\* Over the session that is alive: the job of the command is inserted, or the
\* stored results are read.
Handle(c) ==
    /\ pc[c] = "batch" /\ c \in session /\ c \in live
    /\ \E u \in batch[c] :
        /\ IsNext(c, u) /\ kind[u] \in {"read", "job"}
        /\ jobs' = [jobs EXCEPT ![u] = IF kind[u] = "job" THEN @ + 1 ELSE @]
    /\ pc' = [pc EXCEPT ![c] = "commit"]
    /\ UNCHANGED <<telegram, last, replies, lock, session, offset, batch, history, faults>>

\* A consumer gives up; its session ends, what it committed stays.
Leave(c) ==
    /\ pc' = [pc EXCEPT ![c] = "idle"]
    /\ offset' = [offset EXCEPT ![c] = 1]
    /\ batch' = [batch EXCEPT ![c] = {}]
    /\ session' = session \ {c}
    /\ UNCHANGED <<telegram, tables, muted>>

\* enqueue finds no instrument and raises; the process ends.
Raise(c) ==
    /\ pc[c] = "batch" /\ c \in session /\ c \in live
    /\ \E u \in batch[c] : IsNext(c, u) /\ kind[u] = "unknown"
    /\ Leave(c)
    /\ lock' = NoConsumer
    /\ UNCHANGED <<cut, faults>>

\* Mistake: the answer is stored without the checkpoint of its update.
Checkpoint_Missing(u) == last

\* Mistake: the next offset is stored in the place of the update.
Checkpoint_Offset(u) == Greatest(last, u + 1)

\* CHECKPOINT_SQL.
Checkpoint(u) == Greatest(last, u)

\* commit_update: the answer, if there is one, and the checkpoint.  What is not a
\* command, and everything when the mode is not live, is stored without answer.
Commit(c) ==
    /\ c \in session
    /\ \E u \in batch[c] :
        /\ IsNext(c, u)
        /\ \/ pc[c] = "commit" /\ replies' = replies \cup {u} /\ muted' = muted
           \/ /\ pc[c] = "batch" /\ (c \notin live \/ kind[u] = "other")
              /\ replies' = replies
              /\ muted' = IF kind[u] \in Commands THEN muted \cup {u} ELSE muted
        /\ last' = Checkpoint(u)
        /\ offset' = [offset EXCEPT ![c] = u + 1]
        /\ batch' = [batch EXCEPT ![c] = @ \ {u}]
        /\ pc' = [pc EXCEPT ![c] = IF batch[c] = {u} THEN "over" ELSE "batch"]
    /\ UNCHANGED <<telegram, jobs, lock, session, cut, faults>>

\* listener-once after its run, listener-loop on a signal: the lock is released.
EndRun(c) ==
    /\ pc[c] = "over" /\ c \in session
    /\ Leave(c)
    /\ lock' = NoConsumer
    /\ UNCHANGED <<cut, faults>>

\* A session breaks off: its lock is given back at once, or only when the server
\* notices; a job may be left without checkpoint.
Broken(c) ==
    /\ IF lock = c THEN lock' \in {NoConsumer, Ghost} ELSE lock' = lock
    /\ cut' = [u \in Updates |->
                 IF c \in session /\ pc[c] = "commit" /\ IsNext(c, u) THEN cut[u] + 1
                 ELSE cut[u]]

\* The process is killed, or getUpdates fails and the error ends it.
Crash(c) ==
    /\ pc[c] # "idle" /\ faults < MaxFaults
    /\ Leave(c)
    /\ Broken(c)
    /\ faults' = faults + 1

\* The session is lost; the process does not know yet.
Disconnect(c) ==
    /\ c \in session /\ faults < MaxFaults
    /\ session' = session \ {c}
    /\ Broken(c)
    /\ faults' = faults + 1
    /\ UNCHANGED <<telegram, tables, local, muted>>

\* The next statement over a lost session raises; the process ends.
Abort(c) ==
    /\ pc[c] \notin {"idle", "poll"} /\ c \notin session
    /\ Leave(c)
    /\ UNCHANGED <<lock, cut, faults>>

\* The server gives up a session that broke off.
Notice ==
    /\ lock = Ghost /\ lock' = NoConsumer
    /\ UNCHANGED <<telegram, tables, session, local, history, faults>>

Listen(c) ==
    Connect(c) \/ NextOffset(c) \/ Poll(c) \/ Handle(c) \/ Raise(c) \/ Commit(c)
    \/ EndRun(c) \/ Abort(c)

Next ==
    \/ Send \/ Notice
    \/ \E c \in Consumers : Listen(c) \/ Crash(c) \/ Disconnect(c)

Spec == Init /\ [][Next]_vars

\* The service is started again whenever it ends (restart: unless-stopped), the
\* workflow is scheduled; the server notices broken sessions in the end.
FairSpec == Spec /\ WF_vars(Notice) /\ \A c \in Consumers : WF_vars(Listen(c))

-----------------------------------------------------------------------------
\* The state is well formed.
TypeOK ==
    /\ sent \in 0 .. MaxUpdates /\ kind \in [1 .. sent -> Kinds]
    /\ confirmed \in 1 .. sent + 1 /\ last \in 0 .. sent
    /\ replies \subseteq 1 .. sent /\ muted \subseteq 1 .. sent
    /\ jobs \in [Updates -> Nat] /\ cut \in [Updates -> Nat]
    /\ live \subseteq Consumers /\ session \subseteq Consumers
    /\ lock \in Consumers \cup {NoConsumer, Ghost}
    /\ pc \in [Consumers -> {"idle", "connected", "poll", "batch", "commit", "over"}]
    /\ offset \in [Consumers -> Nat \ {0}]
    /\ batch \in [Consumers -> SUBSET (1 .. sent)]
    /\ faults \in 0 .. MaxFaults

\* docs/setup/operations.md: no command is passed over.  A command below the
\* checkpoint has its answer, and its job if it asked for one, unless a listener
\* that is not live consumed it.
PassedAreAnswered ==
    \A u \in 1 .. last : kind[u] \in Commands /\ u \notin muted =>
        u \in replies /\ (kind[u] = "job" => jobs[u] > 0)

\* A command has a second job only when the consumer that inserted the first one
\* was interrupted before the checkpoint.
ExtraJobsAreExcused == \A u \in Updates : jobs[u] <= 1 + cut[u]

\* Contract clause 26: the updates are consumed in order by one consumer at a
\* time, and each is answered together with its checkpoint.
Feed == INSTANCE UpdateFeed WITH consumed <- last, answered <- replies
ImplementsFeed == Feed!Spec

\* Whatever fails for a while, the consumption goes on until an update asks for a
\* long job of a symbol that no instrument has.
OnlyUnknownSymbolsStop ==
    \A u \in Updates :
        u <= sent ~> \/ u <= last
                     \/ last < sent /\ kind[last + 1] = "unknown"

\* docs/setup/operations.md: every command gets an answer or an error message, so
\* every update is consumed in the end.
EveryUpdateIsConsumed == \A u \in Updates : u <= sent ~> u <= last

=============================================================================
