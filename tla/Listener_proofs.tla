--------------------------- MODULE Listener_proofs ---------------------------
(***************************************************************************)
(* Theorems about Listener for any number of consumers, updates and faults.*)
(*                                                                         *)
(* Only the consumer that holds the lock has a session that is alive, and  *)
(* only over such a session is anything written.  Its batch starts behind  *)
(* the checkpoint and has no gap, although a consumer that lost its session*)
(* may still poll: what Telegram forgets was passed.  Hence a commit moves *)
(* the checkpoint to the next update, which is the step of UpdateFeed.     *)
(***************************************************************************)
EXTENDS Listener, TLAPS

\* The lock is of the session.
OneSession == \A c \in session : lock = c

\* No run asks for less than it passed, so Telegram forgets only what was passed.
OnlyPassedAreForgotten ==
    confirmed <= last + 1 /\ \A c \in Consumers : offset[c] <= last + 1

\* Over a session, the batch goes on where the checkpoint is.
BatchesFollow ==
    \A c \in session :
        /\ pc[c] = "poll" => offset[c] = last + 1
        /\ pc[c] \in {"batch", "commit"} =>
            /\ batch[c] # {}
            /\ \A u \in batch[c] : u > last /\ (last + 1) .. u \subseteq batch[c]

\* What is about to be committed with an answer was handled.
CommitsAreReady ==
    \A c \in Consumers : pc[c] = "commit" =>
        \E u \in batch[c] : /\ IsNext(c, u) /\ kind[u] \in {"read", "job"}
                            /\ kind[u] = "job" => jobs[u] > 0

\* The update whose job is in the table but not its checkpoint.
Pending(u) == \E c \in session : pc[c] = "commit" /\ IsNext(c, u)

\* A job that is not excused is of an update that is passed or pending.
JobsAreAccounted ==
    \A u \in Updates : /\ jobs[u] <= 1 + cut[u]
                       /\ u > last /\ ~Pending(u) => jobs[u] <= cut[u]

FeedInv ==
    TypeOK /\ OneSession /\ OnlyPassedAreForgotten /\ BatchesFollow /\ CommitsAreReady

-----------------------------------------------------------------------------
(* Lemmas.                                                                 *)

\* The next update of a consumer with a session is the one behind the checkpoint.
LEMMA NextIsFirst ==
    ASSUME FeedInv, NEW c \in session, pc[c] \in {"batch", "commit"}, NEW u, IsNext(c, u)
    PROVE  u = last + 1 /\ u \in 1 .. sent /\ u \in Updates
<1>1. c \in Consumers /\ last \in Nat /\ batch[c] \in SUBSET (1 .. sent) /\ sent \in 0 .. MaxUpdates
  BY DEF FeedInv, TypeOK
<1>2. u \in batch[c] /\ \A v \in batch[c] : u <= v
  BY DEF IsNext
<1>3. u > last /\ (last + 1) .. u \subseteq batch[c]
  BY <1>2 DEF FeedInv, BatchesFollow
<1>4. u \in 1 .. sent /\ u \in Nat
  BY <1>1, <1>2
<1>5. last + 1 \in batch[c]
  BY <1>1, <1>3, <1>4
<1>6. u <= last + 1
  BY <1>2, <1>5
<1>7. QED BY <1>1, <1>3, <1>4, <1>6, ListenerAssumption DEF Updates

\* A consumer that leaves takes its session with it.
LEMMA LeaveKeeps ==
    ASSUME FeedInv, NEW c \in Consumers, Leave(c),
           \A d \in session' : lock' = d, lock' \in Consumers \cup {NoConsumer, Ghost},
           cut' \in [Updates -> Nat], faults' \in 0 .. MaxFaults
    PROVE  FeedInv'
<1> USE DEF telegram, tables
<1>1. TypeOK'
  BY DEF Leave, FeedInv, TypeOK
<1>2. OneSession'
  BY DEF OneSession
<1>3. \A d \in Consumers \ {c} : pc'[d] = pc[d] /\ offset'[d] = offset[d] /\ batch'[d] = batch[d]
  BY DEF Leave, FeedInv, TypeOK
<1>4. pc'[c] = "idle" /\ offset'[c] = 1
  BY DEF Leave, FeedInv, TypeOK
<1>5. UNCHANGED <<sent, kind, confirmed, last, jobs>> /\ session' = session \ {c}
  BY DEF Leave
<1>6. OnlyPassedAreForgotten'
  BY <1>3, <1>4, <1>5 DEF FeedInv, TypeOK, OnlyPassedAreForgotten
<1>7. BatchesFollow'
  BY <1>3, <1>5 DEF FeedInv, TypeOK, BatchesFollow
<1>8. CommitsAreReady'
  BY <1>3, <1>4, <1>5 DEF FeedInv, CommitsAreReady, IsNext
<1>9. QED BY <1>1, <1>2, <1>6, <1>7, <1>8 DEF FeedInv

\* The other variables of a session that breaks off.
LEMMA BrokenKeeps ==
    ASSUME FeedInv, NEW c \in Consumers, Broken(c), session' = session \ {c}
    PROVE  /\ \A d \in session' : lock' = d
           /\ lock' \in Consumers \cup {NoConsumer, Ghost} /\ cut' \in [Updates -> Nat]
<1>1. \A d \in session : d = lock
  BY DEF FeedInv, OneSession
<1>2. cut' \in [Updates -> Nat]
  BY DEF Broken, FeedInv, TypeOK
<1>3. QED BY <1>1, <1>2 DEF Broken, FeedInv, TypeOK

-----------------------------------------------------------------------------
(* The invariant of the feed.                                              *)

\* Init establishes it.
LEMMA FeedInit == Init => FeedInv
<1> SUFFICES ASSUME Init PROVE FeedInv
  OBVIOUS
<1>1. TypeOK
  BY ListenerAssumption DEF Init, TypeOK, Updates
<1>2. QED BY <1>1 DEF Init, FeedInv, OneSession, OnlyPassedAreForgotten, BatchesFollow,
                      CommitsAreReady

\* A new update.
LEMMA SendKeeps == ASSUME FeedInv, Send PROVE FeedInv'
<1>1. /\ sent \in 0 .. MaxUpdates /\ sent' = sent + 1 /\ sent' \in 0 .. MaxUpdates
      /\ UNCHANGED <<confirmed, last, replies, jobs, live, lock, session, pc, offset, batch,
                     cut, muted, faults>>
  BY ListenerAssumption DEF Send, FeedInv, TypeOK, tables, local, history
<1>2. PICK k \in Kinds : kind' = [u \in 1 .. sent + 1 |-> IF u <= sent THEN kind[u] ELSE k]
  BY DEF Send
<1>3. kind' \in [1 .. sent' -> Kinds] /\ \A u \in 1 .. sent : kind'[u] = kind[u]
  BY <1>1, <1>2 DEF FeedInv, TypeOK
<1>4. TypeOK'
  BY <1>1, <1>3 DEF FeedInv, TypeOK
<1>5. CommitsAreReady'
  BY <1>1, <1>3 DEF FeedInv, TypeOK, CommitsAreReady, IsNext
<1>6. QED BY <1>1, <1>4, <1>5 DEF FeedInv, OneSession, OnlyPassedAreForgotten, BatchesFollow

\* getUpdates, also of a consumer that lost its session.
LEMMA PollKeeps == ASSUME FeedInv, NEW c \in Consumers, Poll(c) PROVE FeedInv'
<1> DEFINE B == {u \in confirmed' .. sent : u < confirmed' + Limit /\ u >= offset[c]}
<1>1. /\ pc[c] = "poll" /\ confirmed' = Greatest(confirmed, offset[c])
      /\ batch' = [batch EXCEPT ![c] = B]
      /\ pc' = [pc EXCEPT ![c] = IF B = {} THEN "over" ELSE "batch"]
      /\ UNCHANGED <<sent, kind, last, replies, jobs, live, lock, session, offset, cut, muted,
                     faults>>
  BY DEF Poll, tables, history
<1>2. confirmed' \in Nat \ {0} /\ confirmed' <= last + 1 /\ offset[c] <= confirmed'
  BY <1>1 DEF Greatest, FeedInv, TypeOK, OnlyPassedAreForgotten
<1>3. \A u \in B : u \in confirmed' .. sent /\ u < confirmed' + Limit /\ u >= offset[c]
  OBVIOUS
<1>4. B \subseteq 1 .. sent
  BY <1>2, <1>3 DEF FeedInv, TypeOK
<1>5. ASSUME c \in session, B # {}
      PROVE  \A u \in B : u > last /\ (last + 1) .. u \subseteq B
  <2>1. confirmed' = last + 1 /\ offset[c] = last + 1
    BY <1>1, <1>2, <1>5 DEF FeedInv, TypeOK, BatchesFollow
  <2>2. QED BY <2>1, <1>4, ListenerAssumption DEF FeedInv, TypeOK
<1> HIDE DEF B
<1>6. TypeOK'
  BY <1>1, <1>2, <1>4 DEF FeedInv, TypeOK
<1>7. OneSession' /\ OnlyPassedAreForgotten'
  BY <1>1, <1>2 DEF FeedInv, TypeOK, OneSession, OnlyPassedAreForgotten
<1>8. BatchesFollow'
  <2> SUFFICES ASSUME NEW d \in session'
               PROVE  /\ pc'[d] = "poll" => offset'[d] = last' + 1
                      /\ pc'[d] \in {"batch", "commit"} =>
                          /\ batch'[d] # {}
                          /\ \A u \in batch'[d] :
                                u > last' /\ (last' + 1) .. u \subseteq batch'[d]
    BY DEF BatchesFollow
  <2>1. CASE d = c
    BY <1>1, <1>5, <2>1 DEF FeedInv, TypeOK
  <2>2. CASE d # c
    <3>1. pc'[d] = pc[d] /\ batch'[d] = batch[d]
      BY <1>1, <2>2 DEF FeedInv, TypeOK
    <3>2. QED BY <1>1, <3>1 DEF FeedInv, BatchesFollow
  <2>3. QED BY <2>1, <2>2
<1>9. CommitsAreReady'
  BY <1>1 DEF FeedInv, TypeOK, CommitsAreReady, IsNext
<1>10. QED BY <1>6, <1>7, <1>8, <1>9 DEF FeedInv

\* An answer with its checkpoint.
LEMMA CommitMoves ==
    ASSUME FeedInv, NEW c \in Consumers, Commit(c)
    PROVE  /\ c \in session /\ pc[c] \in {"batch", "commit"}
           /\ IsNext(c, last + 1) /\ last + 1 \in 1 .. sent /\ last' = last + 1
           /\ offset' = [offset EXCEPT ![c] = last + 2]
           /\ batch' = [batch EXCEPT ![c] = @ \ {last + 1}]
           /\ pc' = [pc EXCEPT ![c] = IF batch[c] = {last + 1} THEN "over" ELSE "batch"]
           /\ \/ pc[c] = "commit" /\ replies' = replies \cup {last + 1} /\ muted' = muted
              \/ /\ pc[c] = "batch" /\ replies' = replies
                 /\ kind[last + 1] \in Commands => last + 1 \in muted'
                 /\ muted' \in {muted, muted \cup {last + 1}}
           /\ UNCHANGED <<sent, kind, confirmed, live, jobs, lock, session, cut, faults>>
<1>1. PICK u \in batch[c] :
        /\ IsNext(c, u)
        /\ \/ pc[c] = "commit" /\ replies' = replies \cup {u} /\ muted' = muted
           \/ /\ pc[c] = "batch" /\ (c \notin live \/ kind[u] = "other")
              /\ replies' = replies
              /\ muted' = IF kind[u] \in Commands THEN muted \cup {u} ELSE muted
        /\ last' = Checkpoint(u)
        /\ offset' = [offset EXCEPT ![c] = u + 1]
        /\ batch' = [batch EXCEPT ![c] = @ \ {u}]
        /\ pc' = [pc EXCEPT ![c] = IF batch[c] = {u} THEN "over" ELSE "batch"]
  BY DEF Commit
<1>2. c \in session /\ pc[c] \in {"batch", "commit"}
  BY <1>1 DEF Commit
<1>3. u = last + 1 /\ u \in 1 .. sent
  BY <1>1, <1>2, NextIsFirst
<1>4. last \in Nat /\ Checkpoint(u) = last + 1 /\ u + 1 = last + 2
  BY <1>3 DEF Checkpoint, Greatest, FeedInv, TypeOK
<1>5. UNCHANGED <<sent, kind, confirmed, live, jobs, lock, session, cut, faults>>
  BY DEF Commit, telegram
<1>6. QED BY <1>1, <1>2, <1>3, <1>4, <1>5

\* Such a commit keeps the invariant.
LEMMA CommitKeeps == ASSUME FeedInv, NEW c \in Consumers, Commit(c) PROVE FeedInv'
<1>1. /\ c \in session /\ pc[c] \in {"batch", "commit"} /\ last \in Nat
      /\ IsNext(c, last + 1) /\ last + 1 \in 1 .. sent /\ last' = last + 1
      /\ offset' = [offset EXCEPT ![c] = last + 2]
      /\ batch' = [batch EXCEPT ![c] = @ \ {last + 1}]
      /\ pc' = [pc EXCEPT ![c] = IF batch[c] = {last + 1} THEN "over" ELSE "batch"]
      /\ UNCHANGED <<sent, kind, confirmed, live, jobs, lock, session, cut, faults>>
  BY CommitMoves DEF FeedInv, TypeOK
<1>2. replies' \subseteq 1 .. sent /\ muted' \subseteq 1 .. sent
  BY CommitMoves DEF FeedInv, TypeOK
<1>3. TypeOK'
  BY <1>1, <1>2 DEF FeedInv, TypeOK
<1>4. OneSession' /\ OnlyPassedAreForgotten'
  BY <1>1 DEF FeedInv, TypeOK, OneSession, OnlyPassedAreForgotten
<1>5. BatchesFollow'
  <2> SUFFICES ASSUME NEW d \in session'
               PROVE  /\ pc'[d] = "poll" => offset'[d] = last' + 1
                      /\ pc'[d] \in {"batch", "commit"} =>
                          /\ batch'[d] # {}
                          /\ \A u \in batch'[d] :
                                u > last' /\ (last' + 1) .. u \subseteq batch'[d]
    BY DEF BatchesFollow
  <2>1. d = c
    BY <1>1 DEF FeedInv, OneSession
  <2>2. \A u \in batch[c] : u \in Nat /\ u > last /\ (last + 1) .. u \subseteq batch[c]
    BY <1>1 DEF FeedInv, TypeOK, BatchesFollow
  <2>3. batch'[c] = batch[c] \ {last + 1}
    BY <1>1 DEF FeedInv, TypeOK
  <2>4. \A u \in batch'[c] : u > last' /\ (last' + 1) .. u \subseteq batch'[c]
    BY <1>1, <2>2, <2>3
  <2>5. pc'[c] = IF batch[c] = {last + 1} THEN "over" ELSE "batch"
    BY <1>1 DEF FeedInv, TypeOK
  <2>6. pc'[c] = "batch" => batch'[c] # {}
    BY <1>1, <2>3, <2>5 DEF IsNext
  <2>7. QED BY <2>1, <2>4, <2>5, <2>6
<1>6. CommitsAreReady'
  BY <1>1 DEF FeedInv, TypeOK, CommitsAreReady, IsNext
<1>7. QED BY <1>3, <1>4, <1>5, <1>6 DEF FeedInv

\* The steps of a consumer that keep its batch.
LEMMA HandleKeeps == ASSUME FeedInv, NEW c \in Consumers, Handle(c) PROVE FeedInv'
<1>1. /\ c \in session /\ pc[c] = "batch" /\ pc' = [pc EXCEPT ![c] = "commit"]
      /\ UNCHANGED <<sent, kind, confirmed, live, last, replies, lock, session, offset, batch,
                     cut, muted, faults>>
  BY DEF Handle, telegram, history
<1>2. PICK u \in batch[c] :
        /\ IsNext(c, u) /\ kind[u] \in {"read", "job"}
        /\ jobs' = [jobs EXCEPT ![u] = IF kind[u] = "job" THEN @ + 1 ELSE @]
  BY DEF Handle
<1>3. /\ u \in Updates /\ jobs' \in [Updates -> Nat]
      /\ \A v \in Updates : jobs'[v] >= jobs[v]
      /\ kind[u] = "job" => jobs'[u] > 0
  <2>1. u \in Updates
    BY <1>1, <1>2, NextIsFirst
  <2>2. QED BY <1>2, <2>1 DEF FeedInv, TypeOK
<1>4. TypeOK'
  BY <1>1, <1>3 DEF FeedInv, TypeOK
<1>5. OneSession' /\ OnlyPassedAreForgotten' /\ BatchesFollow'
  BY <1>1 DEF FeedInv, TypeOK, OneSession, OnlyPassedAreForgotten, BatchesFollow
<1>6. CommitsAreReady'
  <2> SUFFICES ASSUME NEW d \in Consumers, pc'[d] = "commit"
               PROVE  \E v \in batch'[d] : /\ IsNext(d, v)' /\ kind'[v] \in {"read", "job"}
                                           /\ kind'[v] = "job" => jobs'[v] > 0
    BY DEF CommitsAreReady
  <2>1. CASE d = c
    BY <1>1, <1>2, <1>3, <2>1 DEF IsNext
  <2>2. CASE d # c
    <3>1. pc[d] = "commit"
      BY <1>1, <2>2 DEF FeedInv, TypeOK
    <3>2. PICK v \in batch[d] : /\ IsNext(d, v) /\ kind[v] \in {"read", "job"}
                                /\ kind[v] = "job" => jobs[v] > 0
      BY <3>1 DEF FeedInv, CommitsAreReady
    <3>3. v \in Updates
      BY ListenerAssumption DEF FeedInv, TypeOK, Updates
    <3>4. jobs[v] \in Nat /\ jobs'[v] \in Nat /\ jobs'[v] >= jobs[v]
      BY <1>3, <3>3 DEF FeedInv, TypeOK
    <3>5. QED BY <1>1, <3>2, <3>4 DEF IsNext
  <2>3. QED BY <2>1, <2>2
<1>7. QED BY <1>4, <1>5, <1>6 DEF FeedInv

\* The lock is taken when nobody has a session.
LEMMA ConnectKeeps ==
    ASSUME FeedInv, NEW c \in Consumers, Connect(c) \/ NextOffset(c) PROVE FeedInv'
<1>1. UNCHANGED <<sent, kind, confirmed, live, last, replies, jobs, batch, cut, muted, faults>>
  BY DEF Connect, NextOffset, telegram, tables, history
<1>2. CASE Connect(c)
  <2>1. /\ session = {} /\ session' = {c} /\ lock' = c /\ offset' = offset
        /\ pc' = [pc EXCEPT ![c] = "connected"]
    BY <1>2, ListenerAssumption DEF Connect, FeedInv, TypeOK, OneSession
  <2>2. TypeOK' /\ OneSession' /\ OnlyPassedAreForgotten' /\ BatchesFollow'
    BY <1>1, <2>1
       DEF FeedInv, TypeOK, OneSession, OnlyPassedAreForgotten, BatchesFollow
  <2>3. CommitsAreReady'
    BY <1>1, <2>1 DEF FeedInv, TypeOK, CommitsAreReady, IsNext
  <2>4. QED BY <2>2, <2>3 DEF FeedInv
<1>3. CASE NextOffset(c)
  <2>1. /\ UNCHANGED <<lock, session>> /\ offset' = [offset EXCEPT ![c] = last + 1]
        /\ pc' = [pc EXCEPT ![c] = "poll"]
    BY <1>3 DEF NextOffset
  <2>2. TypeOK' /\ OneSession' /\ OnlyPassedAreForgotten'
    BY <1>1, <2>1 DEF FeedInv, TypeOK, OneSession, OnlyPassedAreForgotten
  <2>3. BatchesFollow'
    BY <1>1, <2>1 DEF FeedInv, TypeOK, BatchesFollow
  <2>4. CommitsAreReady'
    BY <1>1, <2>1 DEF FeedInv, TypeOK, CommitsAreReady, IsNext
  <2>5. QED BY <2>2, <2>3, <2>4 DEF FeedInv
<1>4. QED BY <1>2, <1>3

\* A consumer ends, a session breaks off.
LEMMA EndKeeps ==
    ASSUME FeedInv, NEW c \in Consumers,
           Raise(c) \/ EndRun(c) \/ Crash(c) \/ Disconnect(c) \/ Abort(c)
    PROVE  FeedInv'
<1>1. \A d \in session : d = lock
  BY DEF FeedInv, OneSession
<1>2. CASE Raise(c) \/ EndRun(c)
  <2>1. /\ c \in session /\ Leave(c) /\ lock' = NoConsumer /\ UNCHANGED <<cut, faults>>
        /\ session' = session \ {c}
    BY <1>2 DEF Raise, EndRun, Leave
  <2>2. session' = {}
    BY <1>1, <2>1
  <2>3. QED BY <2>1, <2>2, LeaveKeeps DEF FeedInv, TypeOK
<1>3. CASE Crash(c)
  <2>1. Leave(c) /\ Broken(c) /\ session' = session \ {c} /\ faults' \in 0 .. MaxFaults
    BY <1>3, ListenerAssumption DEF Crash, Leave, FeedInv, TypeOK
  <2>2. QED BY <2>1, BrokenKeeps, LeaveKeeps
<1>4. CASE Disconnect(c)
  <2>1. /\ Broken(c) /\ session' = session \ {c} /\ faults' \in 0 .. MaxFaults
        /\ UNCHANGED <<sent, kind, confirmed, live, last, replies, jobs, pc, offset, batch, muted>>
    BY <1>4, ListenerAssumption DEF Disconnect, telegram, tables, local, FeedInv, TypeOK
  <2>2. /\ \A d \in session' : lock' = d
        /\ lock' \in Consumers \cup {NoConsumer, Ghost} /\ cut' \in [Updates -> Nat]
    BY <2>1, BrokenKeeps
  <2>3. TypeOK'
    BY <2>1, <2>2 DEF FeedInv, TypeOK
  <2>4. OneSession' /\ OnlyPassedAreForgotten' /\ BatchesFollow' /\ CommitsAreReady'
    BY <2>1, <2>2
       DEF FeedInv, OneSession, OnlyPassedAreForgotten, BatchesFollow, CommitsAreReady, IsNext
  <2>5. QED BY <2>3, <2>4 DEF FeedInv
<1>5. CASE Abort(c)
  <2>1. Leave(c) /\ UNCHANGED <<lock, cut, faults>> /\ session' = session \ {c}
    BY <1>5 DEF Abort, Leave
  <2>2. QED BY <1>1, <2>1, LeaveKeeps DEF FeedInv, TypeOK
<1>6. QED BY <1>2, <1>3, <1>4, <1>5

\* The server gives the lock of nobody away.
LEMMA NoticeKeeps == ASSUME FeedInv, Notice \/ UNCHANGED vars PROVE FeedInv'
<1>1. UNCHANGED <<sent, kind, confirmed, live, last, replies, jobs, session, pc, offset, batch,
                  cut, muted, faults>>
  BY DEF Notice, vars, telegram, tables, local, history
<1>2. lock' = lock \/ (session = {} /\ lock' = NoConsumer)
  BY ListenerAssumption DEF Notice, vars, FeedInv, TypeOK, OneSession
<1>3. QED BY <1>1, <1>2
          DEF FeedInv, TypeOK, OneSession, OnlyPassedAreForgotten, BatchesFollow,
              CommitsAreReady, IsNext

\* Every step preserves it.
LEMMA FeedStep == FeedInv /\ [Next]_vars => FeedInv'
BY SendKeeps, PollKeeps, CommitKeeps, HandleKeeps, ConnectKeeps, EndKeeps, NoticeKeeps
   DEF Next, Listen

\* So it always holds.
LEMMA FeedHolds == Spec => []FeedInv
BY FeedInit, FeedStep, PTL DEF Spec

\* Every variable keeps its type; the checkpoint is of an update that was sent.
THEOREM TypeCorrect == Spec => []TypeOK
<1>1. FeedInv => TypeOK
  BY DEF FeedInv
<1>2. QED BY <1>1, FeedHolds, PTL

-----------------------------------------------------------------------------
(* What subscribers may rely on.                                           *)

\* What every step but a commit, the handling of an update and the arrival of a new
\* one leaves alone.
LEMMA FrameOfSteps ==
    ASSUME FeedInv, [Next]_vars, ~Send, \A c \in Consumers : ~Commit(c) /\ ~Handle(c)
    PROVE  UNCHANGED <<sent, kind, last, replies, jobs, muted>>
BY DEF Next, Listen, Notice, Connect, NextOffset, Poll, Raise, EndRun, Crash, Disconnect, Abort,
       Leave, vars, telegram, tables, local, history

\* The update that is handled, and its job.
LEMMA HandleCounts ==
    ASSUME FeedInv, NEW c \in Consumers, Handle(c)
    PROVE  /\ last + 1 \in Updates /\ c \in session /\ IsNext(c, last + 1)
           /\ pc[c] = "batch" /\ pc' = [pc EXCEPT ![c] = "commit"]
           /\ \A u \in Updates : u # last + 1 => jobs'[u] = jobs[u]
           /\ jobs'[last + 1] \in {jobs[last + 1], jobs[last + 1] + 1}
           /\ UNCHANGED <<sent, kind, last, replies, session, batch, cut, muted>>
<1>1. PICK u \in batch[c] :
        /\ IsNext(c, u) /\ kind[u] \in {"read", "job"}
        /\ jobs' = [jobs EXCEPT ![u] = IF kind[u] = "job" THEN @ + 1 ELSE @]
  BY DEF Handle
<1>2. /\ c \in session /\ pc[c] = "batch" /\ pc' = [pc EXCEPT ![c] = "commit"]
      /\ UNCHANGED <<sent, kind, last, replies, session, batch, cut, muted>>
  BY DEF Handle, telegram, history
<1>3. u = last + 1 /\ u \in Updates
  BY <1>1, <1>2, NextIsFirst
<1>4. jobs'[u] \in {jobs[u], jobs[u] + 1} /\ \A v \in Updates : v # u => jobs'[v] = jobs[v]
  BY <1>1, <1>3 DEF FeedInv, TypeOK
<1>5. QED BY <1>1, <1>2, <1>3, <1>4

\* Every step keeps the promise about what is below the checkpoint.
LEMMA AnsweredStep == FeedInv /\ PassedAreAnswered /\ [Next]_vars => PassedAreAnswered'
<1> SUFFICES ASSUME FeedInv, PassedAreAnswered, [Next]_vars,
                    NEW u \in 1 .. last', kind'[u] \in Commands, u \notin muted'
             PROVE  u \in replies' /\ (kind'[u] = "job" => jobs'[u] > 0)
  BY DEF PassedAreAnswered
<1>1. last \in Nat /\ last <= sent /\ sent \in Nat
  BY DEF FeedInv, TypeOK
<1>2. CASE Send
  <2>1. UNCHANGED <<last, replies, jobs, muted>> /\ \A v \in 1 .. sent : kind'[v] = kind[v]
    BY <1>1, <1>2 DEF Send, tables, history
  <2>2. QED BY <1>1, <2>1 DEF PassedAreAnswered
<1>3. ASSUME NEW c \in Consumers, Handle(c)
      PROVE  u \in replies' /\ (kind'[u] = "job" => jobs'[u] > 0)
  <2>1. /\ UNCHANGED <<last, replies, kind, muted>>
        /\ \A v \in Updates : v # last + 1 => jobs'[v] = jobs[v]
    BY <1>3, HandleCounts
  <2>2. u \in Updates /\ u # last + 1
    BY <1>1, <2>1, ListenerAssumption DEF FeedInv, TypeOK, Updates
  <2>3. QED BY <2>1, <2>2 DEF PassedAreAnswered
<1>4. ASSUME NEW c \in Consumers, Commit(c)
      PROVE  u \in replies' /\ (kind'[u] = "job" => jobs'[u] > 0)
  <2>1. /\ c \in session /\ IsNext(c, last + 1) /\ last' = last + 1 /\ UNCHANGED <<kind, jobs>>
        /\ \/ pc[c] = "commit" /\ replies' = replies \cup {last + 1} /\ muted' = muted
           \/ /\ pc[c] = "batch" /\ replies' = replies
              /\ kind[last + 1] \in Commands => last + 1 \in muted'
              /\ muted' \in {muted, muted \cup {last + 1}}
    BY <1>4, CommitMoves
  <2>2. CASE u = last + 1
    <3>1. pc[c] = "commit" /\ replies' = replies \cup {last + 1}
      BY <2>1, <2>2
    <3>2. PICK v \in batch[c] : IsNext(c, v) /\ (kind[v] = "job" => jobs[v] > 0)
      BY <3>1 DEF FeedInv, CommitsAreReady
    <3>3. v = last + 1
      BY <2>1, <3>1, <3>2, NextIsFirst
    <3>4. QED BY <2>1, <2>2, <3>1, <3>2, <3>3
  <2>3. CASE u # last + 1
    <3>1. u \in 1 .. last /\ u \notin muted /\ kind[u] \in Commands
      BY <1>1, <2>1, <2>3
    <3>2. QED BY <2>1, <3>1 DEF PassedAreAnswered
  <2>4. QED BY <2>2, <2>3
<1>5. CASE ~Send /\ \A c \in Consumers : ~Commit(c) /\ ~Handle(c)
  BY <1>5, FrameOfSteps DEF PassedAreAnswered
<1>6. QED BY <1>2, <1>3, <1>4, <1>5

\* docs/setup/operations.md: whatever consumers, crashes and lost sessions there are,
\* no command below the checkpoint is without its answer and its job.
THEOREM CommandsAreAnswered == Spec => []PassedAreAnswered
<1>1. Init => PassedAreAnswered
  BY DEF Init, PassedAreAnswered
<1>2. QED BY <1>1, AnsweredStep, FeedHolds, PTL DEF Spec

\* The handling of an update adds a job only to one that has no job that is not
\* excused.
LEMMA JobsStep == FeedInv /\ JobsAreAccounted /\ [Next]_vars => JobsAreAccounted'
<1> SUFFICES ASSUME FeedInv, JobsAreAccounted, [Next]_vars, NEW u \in Updates
             PROVE  /\ jobs'[u] <= 1 + cut'[u]
                    /\ u > last' /\ ~Pending(u)' => jobs'[u] <= cut'[u]
  BY DEF JobsAreAccounted
<1>1. /\ jobs[u] \in Nat /\ cut[u] \in Nat /\ last \in Nat /\ u \in Nat
      /\ jobs[u] <= 1 + cut[u] /\ (u > last /\ ~Pending(u) => jobs[u] <= cut[u])
  <2>1. jobs[u] \in Nat /\ cut[u] \in Nat /\ last \in Nat /\ u \in Nat
    BY ListenerAssumption DEF FeedInv, TypeOK, Updates
  <2>2. jobs[u] <= 1 + cut[u] /\ (u > last /\ ~Pending(u) => jobs[u] <= cut[u])
    BY DEF JobsAreAccounted
  <2>3. QED BY <2>1, <2>2
<1>2. \A c \in session : c \in Consumers /\ lock = c
  BY DEF FeedInv, TypeOK, OneSession
<1>3. ASSUME NEW c \in Consumers, Handle(c)
      PROVE  jobs'[u] <= 1 + cut'[u] /\ (u > last' /\ ~Pending(u)' => jobs'[u] <= cut'[u])
  <2>1. /\ c \in session /\ IsNext(c, last + 1) /\ pc[c] = "batch"
        /\ pc' = [pc EXCEPT ![c] = "commit"] /\ UNCHANGED <<last, session, batch, cut>>
        /\ u # last + 1 => jobs'[u] = jobs[u]
        /\ jobs'[last + 1] \in {jobs[last + 1], jobs[last + 1] + 1}
    BY <1>3, HandleCounts
  <2>2. ~Pending(u)
    BY <1>2, <2>1 DEF Pending
  <2>3. CASE u = last + 1
    <3>1. Pending(u)'
      BY <2>1, <2>3 DEF Pending, IsNext, FeedInv, TypeOK
    <3>2. QED BY <1>1, <2>1, <2>2, <2>3, <3>1
  <2>4. CASE u # last + 1
    BY <1>1, <2>1, <2>2, <2>4
  <2>5. QED BY <2>3, <2>4
<1>4. ASSUME NEW c \in Consumers, Commit(c)
      PROVE  jobs'[u] <= 1 + cut'[u] /\ (u > last' /\ ~Pending(u)' => jobs'[u] <= cut'[u])
  <2>1. /\ c \in session /\ pc[c] \in {"batch", "commit"} /\ last' = last + 1
        /\ UNCHANGED <<jobs, cut>>
    BY <1>4, CommitMoves
  <2>2. u > last' => ~Pending(u)
    <3> SUFFICES ASSUME u > last', NEW d \in session, pc[d] = "commit", IsNext(d, u)
                 PROVE  FALSE
      BY DEF Pending
    <3>1. u = last + 1
      BY NextIsFirst
    <3>2. QED BY <1>1, <2>1, <3>1
  <2>3. QED BY <1>1, <2>1, <2>2
<1>5. ASSUME ~Send, \A c \in Consumers : ~Commit(c) /\ ~Handle(c)
      PROVE  jobs'[u] <= 1 + cut'[u] /\ (u > last' /\ ~Pending(u)' => jobs'[u] <= cut'[u])
  <2>1. UNCHANGED <<last, jobs>>
    BY <1>5, FrameOfSteps
  <2>2. ASSUME cut'[u] \in Nat, cut'[u] >= cut[u], Pending(u) => cut'[u] > cut[u] \/ Pending(u)'
        PROVE  jobs'[u] <= 1 + cut'[u] /\ (u > last' /\ ~Pending(u)' => jobs'[u] <= cut'[u])
    BY <1>1, <2>1, <2>2
  <2>3. ASSUME NEW c \in Consumers, Broken(c), \A d \in Consumers \ {c} : pc'[d] = pc[d]
                                                             /\ batch'[d] = batch[d],
               session' = session \ {c}
        PROVE  jobs'[u] <= 1 + cut'[u] /\ (u > last' /\ ~Pending(u)' => jobs'[u] <= cut'[u])
    <3>1. cut'[u] = IF c \in session /\ pc[c] = "commit" /\ IsNext(c, u) THEN cut[u] + 1
                    ELSE cut[u]
      BY <2>3 DEF Broken
    <3>2. Pending(u) => cut'[u] > cut[u] \/ Pending(u)'
      BY <1>1, <1>2, <2>3, <3>1 DEF Pending, IsNext
    <3>3. QED BY <1>1, <2>2, <3>1, <3>2
  <2>4. ASSUME NEW c \in Consumers, Crash(c)
        PROVE  jobs'[u] <= 1 + cut'[u] /\ (u > last' /\ ~Pending(u)' => jobs'[u] <= cut'[u])
    BY <2>3, <2>4 DEF Crash, Leave, FeedInv, TypeOK
  <2>5. ASSUME NEW c \in Consumers, Disconnect(c)
        PROVE  jobs'[u] <= 1 + cut'[u] /\ (u > last' /\ ~Pending(u)' => jobs'[u] <= cut'[u])
    BY <2>3, <2>5 DEF Disconnect, local
  <2>6. ASSUME cut' = cut, Pending(u) => Pending(u)'
        PROVE  jobs'[u] <= 1 + cut'[u] /\ (u > last' /\ ~Pending(u)' => jobs'[u] <= cut'[u])
    BY <1>1, <2>2, <2>6
  <2>7. ASSUME NEW c \in Consumers, Raise(c) \/ EndRun(c) \/ Abort(c)
        PROVE  cut' = cut /\ (Pending(u) => Pending(u)')
    <3>1. cut' = cut /\ (pc[c] # "commit" \/ c \notin session) /\ session' = session \ {c}
      BY <2>7 DEF Raise, EndRun, Abort, Leave
    <3>2. \A d \in Consumers \ {c} : pc'[d] = pc[d] /\ batch'[d] = batch[d]
      BY <2>7 DEF Raise, EndRun, Abort, Leave, FeedInv, TypeOK
    <3>3. QED BY <1>2, <3>1, <3>2 DEF Pending, IsNext
  <2>8. ASSUME NEW c \in Consumers, Connect(c) \/ NextOffset(c) \/ Poll(c)
        PROVE  cut' = cut /\ (Pending(u) => Pending(u)')
    <3>1. cut' = cut /\ pc[c] # "commit" /\ session \subseteq session'
      BY <2>8 DEF Connect, NextOffset, Poll, history
    <3>2. \A d \in Consumers \ {c} : pc'[d] = pc[d] /\ batch'[d] = batch[d]
      BY <2>8 DEF Connect, NextOffset, Poll, FeedInv, TypeOK
    <3>3. QED BY <1>2, <3>1, <3>2 DEF Pending, IsNext
  <2>9. ASSUME Notice \/ UNCHANGED vars PROVE cut' = cut /\ (Pending(u) => Pending(u)')
    BY <2>9 DEF Notice, vars, local, history, Pending, IsNext
  <2>10. QED BY <1>5, <2>4, <2>5, <2>6, <2>7, <2>8, <2>9 DEF Next, Listen
<1>6. CASE Send
  <2>1. UNCHANGED <<last, jobs, cut, session, pc, batch>>
    BY <1>6 DEF Send, tables, local, history
  <2>2. QED BY <1>1, <2>1 DEF Pending, IsNext
<1>7. QED BY <1>3, <1>4, <1>5, <1>6

\* A job is queued twice only if the consumer that queued it lost its session, or
\* died, before the checkpoint; and then once for each time.
THEOREM ExtraJobsExcused == Spec => []ExtraJobsAreExcused
<1>1. Init => JobsAreAccounted
  BY DEF Init, JobsAreAccounted, Pending
<1>2. JobsAreAccounted => ExtraJobsAreExcused
  BY DEF JobsAreAccounted, ExtraJobsAreExcused
<1>3. QED BY <1>1, <1>2, JobsStep, FeedHolds, PTL DEF Spec

-----------------------------------------------------------------------------
(* The refinement.                                                         *)

\* A step of the listener is a step of the feed or none.
LEMMA FeedSimulation ==
    FeedInv /\ [Next]_vars => [Feed!Arrive \/ Feed!Consume]_<<sent, kind, last, replies>>
<1> SUFFICES ASSUME FeedInv, [Next]_vars
             PROVE  [Feed!Arrive \/ Feed!Consume]_<<sent, kind, last, replies>>
  OBVIOUS
<1>1. CASE Send
  BY <1>1 DEF Send, tables, Feed!Arrive
<1>2. ASSUME NEW c \in Consumers, Commit(c) PROVE Feed!Consume \/ UNCHANGED <<sent, kind, last, replies>>
  <2>1. /\ c \in session /\ IsNext(c, last + 1) /\ last + 1 \in 1 .. sent /\ last' = last + 1
        /\ \/ pc[c] = "commit" /\ replies' = replies \cup {last + 1}
           \/ replies' = replies
        /\ UNCHANGED <<sent, kind>>
    BY <1>2, CommitMoves
  <2>2. last < sent
    BY <2>1 DEF FeedInv, TypeOK
  <2>3. ASSUME pc[c] = "commit" PROVE kind[last + 1] \in Commands
    <3>1. PICK v \in batch[c] : IsNext(c, v) /\ kind[v] \in {"read", "job"}
      BY <2>3 DEF FeedInv, CommitsAreReady
    <3>2. v = last + 1
      BY <2>1, <2>3, <3>1, NextIsFirst
    <3>3. QED BY <3>1, <3>2 DEF Commands
  <2>4. QED BY <2>1, <2>2, <2>3 DEF Feed!Consume
<1>3. ASSUME NEW c \in Consumers, Handle(c) PROVE UNCHANGED <<sent, kind, last, replies>>
  BY <1>3, HandleCounts
<1>4. CASE ~Send /\ \A c \in Consumers : ~Commit(c) /\ ~Handle(c)
  BY <1>4, FrameOfSteps
<1>5. QED BY <1>1, <1>2, <1>3, <1>4

\* Contract clause 26: for any number of listeners that come and go, crash and lose
\* their sessions, the updates are consumed one by one in the order they were sent,
\* each with its answer.
THEOREM ListenerImplementsFeed == Spec => ImplementsFeed
<1>1. Init => Feed!Init
  BY DEF Init, Feed!Init
<1>2. QED BY <1>1, FeedSimulation, FeedHolds, PTL DEF Spec, ImplementsFeed, Feed!Spec

=============================================================================
