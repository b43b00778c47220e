---------------------------- MODULE CommandJobs ----------------------------
(***************************************************************************)
(* The queue of long jobs and its workers:                                 *)
(*   persistence/postgres/command_jobs.py   (claim, finish)                *)
(*   application/command_jobs.py            (CommandJobRunner.run_once)    *)
(*   application/candidate_followups.py     (automatic candidate jobs)     *)
(*   application/full_scan_pdf.py           (enqueue_full_scan_pdf)        *)
(*   cli.py                                 (_scan_summaries and its loop) *)
(*                                                                         *)
(* Requests are typed by users, candidates follow from scan summaries, and *)
(* the PDF job of a 15-minute slot waits until the summaries of the slot   *)
(* have left the outbox.  A worker runs a job under a lease; FINISH_JOB    *)
(* asks for status = 'running' but the answers are written whether or not  *)
(* it found the row.  Only the age of a lease is kept: ticks until it ends.*)
(* Summaries are produced in the quarter hours of a session only, so what a*)
(* producer left undone in the last one of a day is not repeated.          *)
(***************************************************************************)
EXTENDS Integers, FiniteSets

CONSTANTS
    Requests,       \* jobs of /tara --force, /analiz, /rapor, ...
    Candidates,     \* automatic jobs, by request_key
    MaxSlot,        \* bound: slots 1..MaxSlot; a slot is also its PDF job
    Workers,        \* command-worker processes
    PdfWorkers,     \* those of the scan_pdf lane (scan_reports_only)
    Producers,      \* processes with a summaries thread
    NoJob,
    Lease,          \* lease_minutes in ticks
    MaxFaults       \* bound: MaxFaults[f] faults of kind f happen

Slots == 1 .. MaxSlot
Jobs == Requests \cup Candidates \cup Slots
FaultKinds == {"worker_crash", "producer_crash", "overrun"}

ASSUME JobsAssumption ==
    /\ IsFiniteSet(Requests) /\ IsFiniteSet(Candidates)
    /\ (Requests \cup Candidates) \cap Slots = {}
    /\ PdfWorkers \subseteq Workers
    /\ NoJob \notin Jobs
    /\ MaxSlot \in Nat /\ Lease \in Nat \ {0}
    /\ MaxFaults \in [FaultKinds -> Nat]

VARIABLES
    status,         \* command_jobs.status; "absent" before the insert
    lease,          \* lease_until, relative to now
    arrivals,       \* pairs of jobs: requested_at of the first is earlier
    answers,        \* outbox: COMMAND_REPLY messages, [job, verdict]
    results,        \* outbox and research_artifacts: jobs with output
    doing,          \* the job a worker executes
    slot,           \* the latest slot of the summaries
    open,           \* the present quarter hour is that slot: summary_slot is not None
    summary,        \* outbox rows of a slot: "absent", "queued" or "sent"
    producing,      \* step of a producer: "idle", "queued", "checked", "cleared"
    last,           \* last_slot of a producer, 0 for None
    aim,            \* the slot a producer works on
    cut,            \* history: rounds whose producer died before the insert
    overran,        \* history: jobs whose lease ended under a live worker
    faults          \* faults so far, per kind

queue == <<status, lease, arrivals>>
outbox == <<answers, results, summary>>
producers == <<slot, open, producing, last, aim, cut>>
vars == <<status, lease, arrivals, answers, results, doing, slot, open, summary,
          producing, last, aim, cut, overran, faults>>

Automatic == Candidates \cup Slots
Settled == {"completed", "failed", "superseded"}
FaultAllowed(f) == faults[f] < MaxFaults[f]
Count(f) == faults' = [faults EXCEPT ![f] = @ + 1]

Init ==
    /\ status = [j \in Jobs |-> "absent"]
    /\ lease = [j \in Jobs |-> 0]
    /\ arrivals = {}
    /\ answers = {} /\ results = {}
    /\ doing = [w \in Workers |-> NoJob]
    /\ slot = 0 /\ open = FALSE
    /\ summary = [s \in Slots |-> "absent"]
    /\ producing = [p \in Producers |-> "idle"]
    /\ last = [p \in Producers |-> 0]
    /\ aim = [p \in Producers |-> 0]
    /\ cut = {} /\ overran = {}
    /\ faults = [f \in FaultKinds |-> 0]

-----------------------------------------------------------------------------
\* Jobs of one lane and one priority: they are claimed in the order they came.
Alike(i, j) == (i \in Slots) = (j \in Slots) /\ (i \in Automatic) = (j \in Automatic)

\* INSERT INTO command_jobs; a repeated request_key does nothing.
Insert(j) ==
    IF status[j] = "absent"
    THEN /\ status' = [status EXCEPT ![j] = "pending"]
         /\ arrivals' = arrivals \cup
                {<<i, j>> : i \in {k \in Jobs : status[k] # "absent" /\ Alike(k, j)}}
    ELSE UNCHANGED <<status, arrivals>>

\* A user asks; every accepted command is a new job.
Request(j) ==
    /\ j \in Requests /\ status[j] = "absent"
    /\ Insert(j)
    /\ UNCHANGED <<lease, outbox, doing, producers, overran, faults>>

\* summary_slot: every 15 minutes from 10:30 to 18:45 of a session a new slot
\* begins, the first of a day when the night is over.
NextSlot ==
    /\ slot < MaxSlot
    /\ slot' = slot + 1 /\ open' = TRUE
    /\ UNCHANGED <<queue, outbox, doing, producing, last, aim, cut, overran, faults>>

\* The last slot of a day is over; until the next session there is none.
CloseSession ==
    /\ open /\ open' = FALSE
    /\ UNCHANGED <<queue, outbox, doing, slot, producing, last, aim, cut, overran, faults>>

\* The loop looks for a slot it has not done.
Begins(p) == producing[p] = "idle" /\ open /\ slot # last[p]

\* _scan_summaries up to the ordered enqueue of its messages.
Summarise(p) ==
    /\ Begins(p)
    /\ aim' = [aim EXCEPT ![p] = slot]
    /\ producing' = [producing EXCEPT ![p] = "queued"]
    /\ summary' = [summary EXCEPT ![slot] = IF @ = "absent" THEN "queued" ELSE @]
    /\ UNCHANGED <<queue, answers, results, doing, slot, open, last, cut, overran, faults>>

\* enqueue_candidate_followups, before the messages are queued; the candidates
\* of one slot may be those of another.
FollowUp(p, c) ==
    /\ c \in Candidates /\ status[c] = "absent"
    /\ Begins(p)
    /\ Insert(c)
    /\ UNCHANGED <<lease, outbox, doing, producers, overran, faults>>

\* Mistake: the slot after the current one is remembered as done.
Produced_Ahead(p) ==
    /\ producing' = [producing EXCEPT ![p] = "idle"]
    /\ last' = [last EXCEPT ![p] = aim[p] + 1]

Produced(p) ==
    /\ producing' = [producing EXCEPT ![p] = "idle"]
    /\ last' = [last EXCEPT ![p] = aim[p]]

\* enqueue_full_scan_pdf: three statements, each its own transaction.
CheckPdf(p) ==
    /\ producing[p] = "queued"
    /\ IF status[aim[p]] = "absent"
       THEN producing' = [producing EXCEPT ![p] = "checked"] /\ UNCHANGED last
       ELSE Produced(p)
    /\ UNCHANGED <<queue, outbox, doing, slot, open, aim, cut, overran, faults>>

\* Mistake: the waiting rounds are kept.
SupersedePdf_Keeps(p) ==
    /\ producing[p] = "checked"
    /\ producing' = [producing EXCEPT ![p] = "cleared"]
    /\ UNCHANGED <<queue, outbox, doing, slot, open, last, aim, cut, overran, faults>>

SupersedePdf(p) ==
    /\ producing[p] = "checked"
    /\ status' = [j \in Jobs |-> IF j \in Slots /\ status[j] = "pending"
                                 THEN "superseded" ELSE status[j]]
    /\ producing' = [producing EXCEPT ![p] = "cleared"]
    /\ UNCHANGED <<lease, arrivals, outbox, doing, slot, open, last, aim, cut, overran,
                   faults>>

InsertPdf(p) ==
    /\ producing[p] = "cleared"
    /\ Insert(aim[p])
    /\ Produced(p)
    /\ UNCHANGED <<lease, outbox, doing, slot, open, aim, cut, overran, faults>>

\* The waiting round is superseded already, the new one is not inserted yet.
CutBy(p) == IF producing[p] = "cleared" THEN cut \cup {aim[p]} ELSE cut

\* Mistake: last_slot is set before the summaries are produced.
ProducerCrash_Remembers(p) ==
    /\ producing[p] # "idle" /\ FaultAllowed("producer_crash")
    /\ producing' = [producing EXCEPT ![p] = "idle"]
    /\ last' = [last EXCEPT ![p] = aim[p]]
    /\ cut' = CutBy(p)
    /\ Count("producer_crash")
    /\ UNCHANGED <<queue, outbox, doing, slot, open, aim, overran>>

\* The thread raises or the process is restarted: last_slot is not set.
ProducerCrash(p) ==
    /\ producing[p] # "idle" /\ FaultAllowed("producer_crash")
    /\ producing' = [producing EXCEPT ![p] = "idle"]
    /\ last' = [last EXCEPT ![p] = 0]
    /\ cut' = CutBy(p)
    /\ Count("producer_crash")
    /\ UNCHANGED <<queue, outbox, doing, slot, open, aim, overran>>

\* The publisher has sent the messages of a slot (module Outbox).
SummarySent(s) ==
    /\ summary[s] = "queued"
    /\ summary' = [summary EXCEPT ![s] = "sent"]
    /\ UNCHANGED <<queue, answers, results, doing, producers, overran, faults>>

-----------------------------------------------------------------------------
\* Mistake: failed jobs are tried again.
Claimable_Failed(w) ==
    {j \in Jobs : /\ status[j] \in {"pending", "failed"}
                  /\ (j \in Slots) = (w \in PdfWorkers)
                  /\ j \in Slots => summary[j] # "queued"}

\* Mistake: running jobs can be claimed before their lease ends.
Claimable_Leased(w) ==
    {j \in Jobs : /\ status[j] \in {"pending", "running"}
                  /\ (j \in Slots) = (w \in PdfWorkers)
                  /\ j \in Slots => summary[j] # "queued"}

\* Mistake: the predecessors of a PDF job are not looked at.
Claimable_AtOnce(w) ==
    {j \in Jobs : /\ status[j] = "pending" \/ (status[j] = "running" /\ lease[j] = 0)
                  /\ (j \in Slots) = (w \in PdfWorkers)}

\* Mistake: the job of a dead worker is never claimed again.
Claimable_Pending(w) ==
    {j \in Jobs : /\ status[j] = "pending"
                  /\ (j \in Slots) = (w \in PdfWorkers)
                  /\ j \in Slots => summary[j] # "queued"}

\* The lane of the worker; a PDF job has no predecessor row that is not sent.
Claimable(w) ==
    {j \in Jobs : /\ status[j] = "pending" \/ (status[j] = "running" /\ lease[j] = 0)
                  /\ (j \in Slots) = (w \in PdfWorkers)
                  /\ j \in Slots => summary[j] # "queued"}

\* ORDER BY automatic, requested_at.
Goes(i, j) == IF (i \in Automatic) = (j \in Automatic)
              THEN <<i, j>> \in arrivals ELSE i \notin Automatic

Claim(w) ==
    /\ doing[w] = NoJob
    /\ \E j \in Claimable(w) :
        /\ \A i \in Claimable(w) \ {j} : Goes(j, i)
        /\ status' = [status EXCEPT ![j] = "running"]
        /\ lease' = [lease EXCEPT ![j] = Lease]
        /\ doing' = [doing EXCEPT ![w] = j]
    /\ UNCHANGED <<arrivals, outbox, producers, overran, faults>>

\* Mistake: automatic jobs never reply.
Reply_Manual(j, verdict) ==
    IF j \in Automatic THEN {} ELSE {[job |-> j, verdict |-> verdict]}

\* run_once: an automatic job replies only when it failed.
Reply(j, verdict) ==
    IF j \in Automatic /\ verdict = "completed"
    THEN {} ELSE {[job |-> j, verdict |-> verdict]}

\* The executor returned or raised; finish is one transaction.
Finish(w, verdict) ==
    LET j == doing[w]
    IN  /\ j # NoJob
        /\ IF status[j] = "running"
           THEN /\ status' = [status EXCEPT ![j] = verdict]
                /\ lease' = [lease EXCEPT ![j] = 0]
           ELSE UNCHANGED <<status, lease>>
        /\ answers' = answers \cup Reply(j, verdict)
        /\ results' = IF verdict = "completed" THEN results \cup {j} ELSE results
        /\ doing' = [doing EXCEPT ![w] = NoJob]
        /\ UNCHANGED <<arrivals, summary, producers, overran, faults>>

WorkerCrash(w) ==
    /\ doing[w] # NoJob /\ FaultAllowed("worker_crash")
    /\ doing' = [doing EXCEPT ![w] = NoJob]
    /\ Count("worker_crash")
    /\ UNCHANGED <<queue, outbox, producers, overran>>

\* Time passes.  A lease that ends under a working executor is an overrun.
Overruns == {j \in Jobs : /\ status[j] = "running" /\ lease[j] = 1
                          /\ \E w \in Workers : doing[w] = j}
Tick ==
    /\ \E j \in Jobs : lease[j] > 0
    /\ IF Overruns = {} THEN UNCHANGED faults
                        ELSE FaultAllowed("overrun") /\ Count("overrun")
    /\ lease' = [j \in Jobs |-> IF lease[j] > 0 THEN lease[j] - 1 ELSE 0]
    /\ overran' = overran \cup Overruns
    /\ UNCHANGED <<status, arrivals, outbox, doing, producers>>

Work(w) == Claim(w) \/ \E v \in {"completed", "failed"} : Finish(w, v)
Produce(p) == Summarise(p) \/ CheckPdf(p) \/ SupersedePdf(p) \/ InsertPdf(p)

\* Every bounded arrival has happened and every job is settled.
Quiet ==
    /\ slot = MaxSlot
    /\ \A j \in Requests : status[j] \in Settled
    /\ \A j \in Automatic : status[j] \in Settled \cup {"absent"}
    /\ \A p \in Producers : producing[p] = "idle" /\ (last[p] = slot \/ ~open)
    /\ \A s \in Slots : summary[s] # "queued"
    /\ \A w \in Workers : doing[w] = NoJob
    /\ UNCHANGED vars

Next ==
    \/ \E j \in Requests : Request(j)
    \/ NextSlot \/ CloseSession
    \/ \E p \in Producers : \/ Produce(p) \/ ProducerCrash(p)
                            \/ \E c \in Candidates : FollowUp(p, c)
    \/ \E s \in Slots : SummarySent(s)
    \/ \E w \in Workers : Work(w) \/ WorkerCrash(w)
    \/ Tick
    \/ Quiet

Spec == Init /\ [][Next]_vars

\* Worker and summary loops run until they are stopped and are restarted, the
\* outbox serves its messages (Outbox, EverythingIsServed), time passes.
Fairness ==
    /\ WF_vars(Tick)
    /\ \A w \in Workers : WF_vars(Work(w))
    /\ \A p \in Producers : WF_vars(Produce(p))
    /\ \A s \in Slots : WF_vars(SummarySent(s))

FairSpec == Spec /\ Fairness

-----------------------------------------------------------------------------
TypeOK ==
    /\ status \in [Jobs -> {"absent", "pending", "running"} \cup Settled]
    /\ lease \in [Jobs -> 0 .. Lease]
    /\ arrivals \subseteq Jobs \X Jobs
    /\ answers \subseteq [job : Jobs, verdict : {"completed", "failed"}]
    /\ results \subseteq Jobs /\ overran \subseteq Jobs
    /\ doing \in [Workers -> Jobs \cup {NoJob}]
    /\ slot \in 0 .. MaxSlot /\ cut \subseteq Slots
    /\ open \in BOOLEAN /\ (open => slot # 0)
    /\ summary \in [Slots -> {"absent", "queued", "sent"}]
    /\ producing \in [Producers -> {"idle", "queued", "checked", "cleared"}]
    /\ last \in [Producers -> 0 .. MaxSlot] /\ aim \in [Producers -> 0 .. MaxSlot]
    /\ faults \in [FaultKinds -> Nat]

\* Nobody works on a job that waits, and an answer is about a settled job:
\* a job that was answered is never claimed again, whatever crashed or overran.
AnsweredIsSettled ==
    /\ \A a \in answers : status[a.job] \in {"completed", "failed"}
    /\ \A w \in Workers : doing[w] # NoJob =>
            status[doing[w]] \in {"running", "completed", "failed"}

\* Whoever asked gets the verdict that the row of the job keeps.  Automatic
\* jobs report only failures; their results go out either way.
SettledIsAnswered ==
    \A j \in Jobs :
        /\ status[j] = "failed" => [job |-> j, verdict |-> "failed"] \in answers
        /\ status[j] = "completed" => j \in results
        /\ (status[j] = "completed" /\ j \notin Automatic) =>
                [job |-> j, verdict |-> "completed"] \in answers

\* Crashes alone never make the answers, the results and the row of a job
\* disagree: that takes an execution that outlived its lease.
OnlyOverrunsContradict ==
    \A j \in Jobs \ overran :
        /\ \A a \in answers : a.job = j => a.verdict = status[j]
        /\ j \in results => status[j] = "completed"

\* docs/live-scan-flow.md: the PDF of a round starts after the summaries of
\* that round left the outbox, although they are only named in the job.
PdfAfterSummaries ==
    \A s \in Slots : status[s] \in {"running", "completed", "failed"} => summary[s] = "sent"

\* docs/live-scan-flow.md: of the rounds whose PDF waits only the newest one
\* is kept in the queue.  It holds for one producer, crashes included.
WaitingPdfIsNewest ==
    \A s, t \in Slots : (s < t /\ status[s] = "pending") => status[t] = "absent"

\* Every job that entered the queue is settled in the end: a lease whose worker
\* died ends and another worker takes the job.  Arrivals are finitely many and
\* the rows of settled jobs do not change, so this is leads-to for every job.
EverythingIsSettled ==
    <>[](\A j \in Jobs : status[j] \in Settled \cup {"absent"})

\* The newest round of the queue is reported in the end.  One crash can prevent
\* it: between the statement that supersedes the waiting rounds and the insert of
\* a later one, when the slot of that one is over before its producer repeats it.
Newest(s) ==
    status[s] # "absent" /\ \A t \in Slots : t > s => status[t] = "absent"
LostTo(s) == \E t \in cut : t > s /\ ~(open /\ slot = t)

NewestRoundIsReported ==
    <>[](\A s \in Slots : Newest(s) =>
            s \in results \/ status[s] = "failed" \/ LostTo(s))

=============================================================================
