------------------------- MODULE CommandJobs_proofs -------------------------
(***************************************************************************)
(* Theorems about CommandJobs for any number of jobs, workers, producers   *)
(* and faults.                                                             *)
(*                                                                         *)
(* FINISH_JOB does not look at who holds the lease.  What keeps the answers*)
(* and the row of a job together is that a job is executed by one worker,  *)
(* under a lease that runs, unless it overran; and what keeps a PDF behind *)
(* the summaries is that they are queued before the job is inserted.       *)
(***************************************************************************)
EXTENDS CommandJobs, TLAPS

\* Unless a job overran it has one executor, whose lease runs.
HeldUnderLease ==
    \A w \in Workers : (doing[w] # NoJob /\ doing[w] \notin overran) =>
        /\ status[doing[w]] = "running" /\ lease[doing[w]] > 0
        /\ \A v \in Workers : doing[v] = doing[w] => v = w

\* The summaries of a round are queued before its PDF job is inserted.
SummariesGoFirst ==
    /\ \A p \in Producers : producing[p] # "idle" =>
            aim[p] \in Slots /\ summary[aim[p]] # "absent"
    /\ \A s \in Slots : status[s] # "absent" => summary[s] # "absent"

Inv ==
    /\ TypeOK /\ HeldUnderLease /\ SummariesGoFirst
    /\ AnsweredIsSettled /\ SettledIsAnswered /\ OnlyOverrunsContradict
    /\ PdfAfterSummaries

-----------------------------------------------------------------------------
(* Lemmas about the queue.                                                 *)

LEMMA SlotsAreApart ==
    /\ Slots \subseteq Jobs /\ Requests \subseteq Jobs /\ Candidates \subseteq Jobs
    /\ NoJob \notin Jobs /\ MaxSlot \in Nat /\ Lease \in Nat \ {0}
    /\ Slots = 1 .. MaxSlot
    /\ \A j \in Requests \cup Candidates : j \notin Slots
BY JobsAssumption DEF Jobs, Slots

\* An insert leaves a well formed queue, and changes no row but an absent one.
LEMMA InsertKeepsQueue ==
    ASSUME TypeOK, NEW j \in Jobs, Insert(j)
    PROVE  /\ status' \in [Jobs -> {"absent", "pending", "running"} \cup Settled]
           /\ arrivals' \subseteq Jobs \X Jobs
           /\ \A i \in Jobs \ {j} : status'[i] = status[i]
           /\ status'[j] = IF status[j] = "absent" THEN "pending" ELSE status[j]
BY DEF TypeOK, Insert

-----------------------------------------------------------------------------
(* The steps.                                                              *)

LEMMA InitInv == Init => Inv
<1> SUFFICES ASSUME Init PROVE Inv
  OBVIOUS
<1> USE SlotsAreApart DEF Init
<1>1. faults \in [FaultKinds -> Nat] /\ open \in BOOLEAN
  OBVIOUS
<1>2. TypeOK
  BY <1>1 DEF TypeOK, Settled
<1>3. QED
  BY <1>2 DEF Inv, HeldUnderLease, SummariesGoFirst, AnsweredIsSettled,
     SettledIsAnswered, OnlyOverrunsContradict, PdfAfterSummaries

\* The faults stay counts.
LEMMA CountType ==
    ASSUME TypeOK, NEW f \in FaultKinds, Count(f)
    PROVE  faults' \in [FaultKinds -> Nat]
BY DEF TypeOK, Count

\* The actions that leave the rows, the answers and the executors alone.
Bystands == UNCHANGED <<status, lease, arrivals, answers, results, doing, overran>>

LEMMA BystandsKeeps ==
    ASSUME Inv, Bystands
    PROVE  /\ HeldUnderLease' /\ AnsweredIsSettled'
           /\ SettledIsAnswered' /\ OnlyOverrunsContradict'
BY DEF Inv, Bystands, HeldUnderLease, AnsweredIsSettled,
   SettledIsAnswered, OnlyOverrunsContradict

\* Whatever is answered, queued or executed is a job.
LEMMA AllAreJobs ==
    ASSUME TypeOK
    PROVE  /\ \A a \in answers : a.job \in Jobs
           /\ \A w \in Workers : doing[w] # NoJob => doing[w] \in Jobs
BY DEF TypeOK

\* An insert does not disturb what is known of executors and settled jobs.
LEMMA RowsKeep ==
    ASSUME Inv, NEW j \in Jobs, j \in Slots => summary[j] # "absent", Insert(j),
           UNCHANGED <<lease, answers, results, doing, summary, overran>>
    PROVE  /\ HeldUnderLease' /\ AnsweredIsSettled' /\ SettledIsAnswered'
           /\ OnlyOverrunsContradict' /\ PdfAfterSummaries'
<1> USE SlotsAreApart
<1>1. /\ \A i \in Jobs \ {j} : status'[i] = status[i]
      /\ status'[j] = IF status[j] = "absent" THEN "pending" ELSE status[j]
  BY InsertKeepsQueue DEF Inv
<1>2. \A i \in Jobs : /\ status[i] # "absent" => status'[i] = status[i]
                      /\ status[i] = "absent" => status'[i] \in {"absent", "pending"}
  BY <1>1
<1>3. HeldUnderLease' /\ AnsweredIsSettled'
  <2>1. \A i \in Jobs : status[i] \in {"running", "completed", "failed"} => status'[i] = status[i]
    BY <1>2
  <2>2. HeldUnderLease'
    BY <2>1, AllAreJobs DEF Inv, HeldUnderLease
  <2>3. AnsweredIsSettled'
    BY <2>1, AllAreJobs DEF Inv, AnsweredIsSettled
  <2>4. QED BY <2>2, <2>3
<1>4. SettledIsAnswered' /\ PdfAfterSummaries'
  BY <1>2 DEF Inv, SettledIsAnswered, PdfAfterSummaries
<1>5. OnlyOverrunsContradict'
  BY <1>2 DEF Inv, TypeOK, AnsweredIsSettled, OnlyOverrunsContradict
<1>6. QED BY <1>3, <1>4, <1>5

\* The insert of a job that is no PDF.
LEMMA InsertStep ==
    ASSUME Inv, NEW j \in Jobs, j \notin Slots, Insert(j),
           UNCHANGED <<lease, answers, results, doing, slot, open, summary, producing, last,
                       aim, cut, overran, faults>>
    PROVE  Inv'
<1> USE SlotsAreApart
<1>1. /\ status' \in [Jobs -> {"absent", "pending", "running"} \cup Settled]
      /\ arrivals' \subseteq Jobs \X Jobs
      /\ \A i \in Jobs \ {j} : status'[i] = status[i]
  BY InsertKeepsQueue DEF Inv
<1>2. TypeOK'
  BY <1>1 DEF Inv, TypeOK
<1>3. SummariesGoFirst'
  BY <1>1 DEF Inv, SummariesGoFirst
<1>4. QED BY <1>1, <1>2, <1>3, RowsKeep DEF Inv

\* The actions that put a job into the queue.
LEMMA RequestStep == ASSUME Inv, NEW j \in Requests, Request(j) PROVE Inv'
<1> USE SlotsAreApart
<1>1. j \in Jobs /\ j \notin Slots /\ Insert(j) /\ TypeOK /\ status[j] = "absent"
  BY DEF Inv, Request
<1>2. UNCHANGED <<lease, answers, results, doing, slot, open, summary, producing, last, aim,
                  cut, overran, faults>>
  BY DEF Request, outbox, producers
<1>3. QED BY <1>1, <1>2, InsertStep

LEMMA FollowUpStep ==
    ASSUME Inv, NEW p \in Producers, NEW c \in Candidates, FollowUp(p, c) PROVE Inv'
<1> USE SlotsAreApart
<1>1. c \in Jobs /\ c \notin Slots /\ Insert(c) /\ TypeOK /\ status[c] = "absent"
  BY DEF Inv, FollowUp
<1>2. UNCHANGED <<lease, answers, results, doing, slot, open, summary, producing, last, aim,
                  cut, overran, faults>>
  BY DEF FollowUp, outbox, producers
<1>3. QED BY <1>1, <1>2, InsertStep

\* The statements that lead to the PDF job.
LEMMA SummariseStep ==
    ASSUME Inv, NEW p \in Producers, Summarise(p) PROVE Inv'
<1> USE SlotsAreApart
<1>1. Bystands
  BY DEF Summarise, Bystands, queue
<1>2. /\ TypeOK /\ slot \in Slots /\ UNCHANGED <<faults, slot, open, cut, last>>
      /\ aim' = [aim EXCEPT ![p] = slot]
      /\ producing' = [producing EXCEPT ![p] = "queued"]
      /\ summary' = [summary EXCEPT ![slot] = IF @ = "absent" THEN "queued" ELSE @]
  BY DEF Inv, TypeOK, Summarise, Begins
<1>3. TypeOK'
  BY <1>1, <1>2 DEF TypeOK, Bystands
<1>4. \A s \in Slots : /\ summary[s] # "absent" => summary'[s] = summary[s]
                       /\ s = slot => summary'[s] # "absent"
  BY <1>2 DEF TypeOK
<1>5. SummariesGoFirst'
  BY <1>1, <1>2, <1>4 DEF Inv, TypeOK, SummariesGoFirst, Bystands
<1>6. PdfAfterSummaries'
  BY <1>1, <1>4 DEF Inv, PdfAfterSummaries, Bystands
<1>7. QED BY <1>1, <1>3, <1>5, <1>6, BystandsKeeps DEF Inv

LEMMA CheckPdfStep ==
    ASSUME Inv, NEW p \in Producers, CheckPdf(p) PROVE Inv'
<1> USE SlotsAreApart
<1>1. Bystands /\ UNCHANGED <<slot, open, summary, aim, cut, faults>>
  BY DEF CheckPdf, Bystands, queue, outbox
<1>2. /\ producing[p] = "queued"
      /\ \/ producing' = [producing EXCEPT ![p] = "checked"] /\ last' = last
         \/ /\ producing' = [producing EXCEPT ![p] = "idle"]
            /\ last' = [last EXCEPT ![p] = aim[p]]
  BY DEF CheckPdf, Produced
<1>3. TypeOK'
  BY <1>1, <1>2 DEF Inv, TypeOK, Bystands
<1>4. SummariesGoFirst' /\ PdfAfterSummaries'
  BY <1>1, <1>2 DEF Inv, TypeOK, SummariesGoFirst, PdfAfterSummaries, Bystands
<1>5. QED BY <1>1, <1>3, <1>4, BystandsKeeps DEF Inv

LEMMA SupersedePdfStep ==
    ASSUME Inv, NEW p \in Producers, SupersedePdf(p) PROVE Inv'
<1> USE SlotsAreApart
<1>1. /\ UNCHANGED <<lease, arrivals, answers, results, doing, slot, open, summary, last, aim, cut,
                     overran, faults>>
      /\ producing[p] = "checked"
      /\ producing' = [producing EXCEPT ![p] = "cleared"]
  BY DEF SupersedePdf, outbox
<1>2. status' = [j \in Jobs |-> IF j \in Slots /\ status[j] = "pending"
                                THEN "superseded" ELSE status[j]]
  BY DEF SupersedePdf
<1>3. /\ \A j \in Jobs : status[j] # "pending" => status'[j] = status[j]
      /\ \A j \in Jobs : status[j] = "pending" => status'[j] \in {"pending", "superseded"}
  BY <1>2
<1>4. TypeOK'
  BY <1>1, <1>2 DEF Inv, TypeOK, Settled
<1>5. HeldUnderLease' /\ AnsweredIsSettled'
  <2>1. \A i \in Jobs : status[i] \in {"running", "completed", "failed"} => status'[i] = status[i]
    BY <1>3
  <2>2. HeldUnderLease'
    BY <1>1, <2>1, AllAreJobs DEF Inv, HeldUnderLease
  <2>3. AnsweredIsSettled'
    BY <1>1, <2>1, AllAreJobs DEF Inv, AnsweredIsSettled
  <2>4. QED BY <2>2, <2>3
<1>6. SettledIsAnswered' /\ PdfAfterSummaries'
  BY <1>1, <1>3 DEF Inv, SettledIsAnswered, PdfAfterSummaries
<1>7. OnlyOverrunsContradict'
  BY <1>1, <1>3 DEF Inv, TypeOK, AnsweredIsSettled, OnlyOverrunsContradict
<1>8. SummariesGoFirst'
  BY <1>1, <1>3 DEF Inv, TypeOK, SummariesGoFirst
<1>9. QED BY <1>4, <1>5, <1>6, <1>7, <1>8 DEF Inv

LEMMA InsertPdfStep ==
    ASSUME Inv, NEW p \in Producers, InsertPdf(p) PROVE Inv'
<1> USE SlotsAreApart
<1>1. /\ UNCHANGED <<lease, answers, results, doing, slot, open, summary, aim, cut, overran, faults>>
      /\ producing[p] = "cleared"
      /\ producing' = [producing EXCEPT ![p] = "idle"]
      /\ last' = [last EXCEPT ![p] = aim[p]]
      /\ Insert(aim[p])
  BY DEF InsertPdf, Produced, outbox
<1>2. aim[p] \in Slots /\ summary[aim[p]] # "absent"
  BY <1>1 DEF Inv, SummariesGoFirst
<1>3. TypeOK /\ aim[p] \in Jobs
  BY <1>2 DEF Inv
<1>4. /\ status' \in [Jobs -> {"absent", "pending", "running"} \cup Settled]
      /\ arrivals' \subseteq Jobs \X Jobs
      /\ \A i \in Jobs \ {aim[p]} : status'[i] = status[i]
      /\ status'[aim[p]] = IF status[aim[p]] = "absent" THEN "pending" ELSE status[aim[p]]
  BY <1>1, <1>3, InsertKeepsQueue
<1>5. TypeOK'
  BY <1>1, <1>4 DEF Inv, TypeOK
<1>6. SummariesGoFirst'
  BY <1>1, <1>2, <1>4 DEF Inv, TypeOK, SummariesGoFirst
<1>7. QED BY <1>1, <1>2, <1>3, <1>4, <1>5, <1>6, RowsKeep DEF Inv

LEMMA ProducerCrashStep ==
    ASSUME Inv, NEW p \in Producers, ProducerCrash(p) PROVE Inv'
<1> USE SlotsAreApart
<1>1. /\ Bystands /\ UNCHANGED <<slot, open, summary, aim>> /\ Count("producer_crash")
      /\ producing' = [producing EXCEPT ![p] = "idle"]
      /\ last' = [last EXCEPT ![p] = 0] /\ cut' = CutBy(p)
  BY DEF ProducerCrash, Bystands, queue, outbox
<1>2. faults' \in [FaultKinds -> Nat]
  BY <1>1, CountType DEF Inv, FaultKinds
<1>3. cut' \subseteq Slots
  BY <1>1 DEF Inv, TypeOK, SummariesGoFirst, CutBy
<1>4. TypeOK'
  BY <1>1, <1>2, <1>3 DEF Inv, TypeOK, Bystands
<1>5. SummariesGoFirst' /\ PdfAfterSummaries'
  BY <1>1 DEF Inv, TypeOK, SummariesGoFirst, PdfAfterSummaries, Bystands
<1>6. QED BY <1>1, <1>4, <1>5, BystandsKeeps DEF Inv

LEMMA SummarySentStep ==
    ASSUME Inv, NEW s \in Slots, SummarySent(s) PROVE Inv'
<1> USE SlotsAreApart
<1>1. /\ Bystands /\ UNCHANGED <<slot, open, producing, last, aim, cut, faults>>
      /\ summary' = [summary EXCEPT ![s] = "sent"]
  BY DEF SummarySent, Bystands, queue, producers
<1>2. TypeOK'
  BY <1>1 DEF Inv, TypeOK, Bystands
<1>3. SummariesGoFirst' /\ PdfAfterSummaries'
  BY <1>1 DEF Inv, TypeOK, SummariesGoFirst, PdfAfterSummaries, Bystands
<1>4. QED BY <1>1, <1>2, <1>3, BystandsKeeps DEF Inv

LEMMA NextSlotStep == ASSUME Inv, NextSlot PROVE Inv'
<1> USE SlotsAreApart
<1>1. /\ Bystands /\ UNCHANGED <<summary, producing, last, aim, cut, faults>>
      /\ slot < MaxSlot /\ slot' = slot + 1 /\ open' = TRUE
  BY DEF NextSlot, Bystands, queue, outbox
<1>2. TypeOK'
  BY <1>1 DEF Inv, TypeOK, Bystands
<1>3. SummariesGoFirst' /\ PdfAfterSummaries'
  BY <1>1 DEF Inv, SummariesGoFirst, PdfAfterSummaries, Bystands
<1>4. QED BY <1>1, <1>2, <1>3, BystandsKeeps DEF Inv

LEMMA CloseSessionStep == ASSUME Inv, CloseSession PROVE Inv'
<1> USE SlotsAreApart
<1>1. /\ Bystands /\ UNCHANGED <<slot, summary, producing, last, aim, cut, faults>>
      /\ open' = FALSE
  BY DEF CloseSession, Bystands, queue, outbox
<1>2. TypeOK'
  BY <1>1 DEF Inv, TypeOK, Bystands
<1>3. SummariesGoFirst' /\ PdfAfterSummaries'
  BY <1>1 DEF Inv, SummariesGoFirst, PdfAfterSummaries, Bystands
<1>4. QED BY <1>1, <1>2, <1>3, BystandsKeeps DEF Inv

\* The workers.  A job whose lease runs is claimed by nobody.
LEMMA ClaimStep == ASSUME Inv, NEW w \in Workers, Claim(w) PROVE Inv'
<1> USE SlotsAreApart
<1>1. PICK j \in Claimable(w) :
        /\ status' = [status EXCEPT ![j] = "running"]
        /\ lease' = [lease EXCEPT ![j] = Lease]
        /\ doing' = [doing EXCEPT ![w] = j]
  BY DEF Claim
<1>2. /\ UNCHANGED <<arrivals, answers, results, slot, open, summary, producing, last, aim, cut,
                     overran, faults>>
      /\ doing[w] = NoJob
  BY DEF Claim, outbox, producers
<1>3. /\ j \in Jobs /\ (j \in Slots => summary[j] # "queued")
      /\ status[j] = "pending" \/ (status[j] = "running" /\ lease[j] = 0)
  BY DEF Claimable
<1>4. /\ \A i \in Jobs \ {j} : status'[i] = status[i] /\ lease'[i] = lease[i]
      /\ status'[j] = "running" /\ lease'[j] = Lease
      /\ \A v \in Workers \ {w} : doing'[v] = doing[v]
      /\ doing'[w] = j
  BY <1>1, <1>3 DEF Inv, TypeOK
<1>5. TypeOK'
  BY <1>1, <1>2, <1>3 DEF Inv, TypeOK
<1>6. HeldUnderLease'
  <2>1. \A v \in Workers : (doing[v] = j) => j \in overran
    BY <1>3 DEF Inv, HeldUnderLease
  <2> SUFFICES ASSUME NEW v \in Workers, doing'[v] # NoJob, doing'[v] \notin overran'
               PROVE  /\ status'[doing'[v]] = "running" /\ lease'[doing'[v]] > 0
                      /\ \A u \in Workers : doing'[u] = doing'[v] => u = v
    BY DEF HeldUnderLease
  <2>2. CASE v = w
    BY <1>2, <1>4, <2>1, <2>2
  <2>3. CASE v # w
    <3>1. doing'[v] = doing[v] /\ doing[v] \in Jobs /\ doing[v] # j
      BY <1>2, <1>4, <2>1, <2>3 DEF Inv, TypeOK
    <3>2. /\ status[doing[v]] = "running" /\ lease[doing[v]] > 0
          /\ \A u \in Workers : doing[u] = doing[v] => u = v
      BY <1>2, <3>1 DEF Inv, HeldUnderLease
    <3>3. QED BY <1>4, <3>1, <3>2
  <2>4. QED BY <2>2, <2>3
<1>7. AnsweredIsSettled'
  <2>1. \A a \in answers : status'[a.job] \in {"completed", "failed"}
    BY <1>3, <1>4, AllAreJobs DEF Inv, AnsweredIsSettled
  <2>2. \A v \in Workers : doing'[v] # NoJob =>
            status'[doing'[v]] \in {"running", "completed", "failed"}
    <3> SUFFICES ASSUME NEW v \in Workers, doing'[v] # NoJob
                 PROVE  status'[doing'[v]] \in {"running", "completed", "failed"}
      OBVIOUS
    <3>1. CASE doing'[v] = j
      BY <1>4, <3>1
    <3>2. CASE doing'[v] # j
      <4>1. v # w /\ doing'[v] = doing[v] /\ doing[v] \in Jobs \ {j}
        BY <1>4, <3>2, AllAreJobs DEF Inv
      <4>2. QED BY <1>4, <4>1 DEF Inv, AnsweredIsSettled
    <3>3. QED BY <3>1, <3>2
  <2>3. QED BY <1>2, <2>1, <2>2 DEF AnsweredIsSettled
<1>8. SettledIsAnswered'
  BY <1>2, <1>4 DEF Inv, SettledIsAnswered
<1>9. OnlyOverrunsContradict'
  <2>1. \A i \in Jobs : i \notin overran => \A a \in answers : a.job = i => i # j
    BY <1>3 DEF Inv, AnsweredIsSettled
  <2>2. j \notin overran => j \notin results
    BY <1>3 DEF Inv, OnlyOverrunsContradict
  <2>3. QED BY <1>2, <1>4, <2>1, <2>2 DEF Inv, OnlyOverrunsContradict
<1>10. SummariesGoFirst'
  BY <1>2, <1>3, <1>4 DEF Inv, SummariesGoFirst
<1>11. PdfAfterSummaries'
  BY <1>2, <1>3, <1>4 DEF Inv, TypeOK, SummariesGoFirst, PdfAfterSummaries
<1>12. QED
  BY <1>5, <1>6, <1>7, <1>8, <1>9, <1>10, <1>11 DEF Inv

\* The replies of a finished job are about it and give its verdict.
LEMMA ReplyType ==
    ASSUME NEW j, NEW v
    PROVE  /\ Reply(j, v) \subseteq {[job |-> j, verdict |-> v]}
           /\ (v # "completed" \/ j \notin Automatic) =>
                    [job |-> j, verdict |-> v] \in Reply(j, v)
BY DEF Reply

LEMMA FinishStep ==
    ASSUME Inv, NEW w \in Workers, NEW v \in {"completed", "failed"}, Finish(w, v)
    PROVE  Inv'
<1> DEFINE j == doing[w]
<1> HIDE DEF j
<1> USE SlotsAreApart
<1>1. /\ UNCHANGED <<arrivals, slot, open, summary, producing, last, aim, cut, overran, faults>>
      /\ answers' = answers \cup Reply(j, v)
      /\ results' = IF v = "completed" THEN results \cup {j} ELSE results
      /\ doing' = [doing EXCEPT ![w] = NoJob]
      /\ j # NoJob
  BY DEF Finish, producers, j
<1>2. IF status[j] = "running"
      THEN status' = [status EXCEPT ![j] = v] /\ lease' = [lease EXCEPT ![j] = 0]
      ELSE UNCHANGED <<status, lease>>
  BY DEF Finish, j
<1>3. j \in Jobs /\ status[j] \in {"running", "completed", "failed"}
  BY <1>1 DEF Inv, TypeOK, AnsweredIsSettled, j
<1>4. /\ \A i \in Jobs \ {j} : status'[i] = status[i] /\ lease'[i] = lease[i]
      /\ status[j] = "running" => status'[j] = v
      /\ status[j] # "running" => status'[j] = status[j]
  BY <1>2, <1>3 DEF Inv, TypeOK
<1>5. /\ \A u \in Workers \ {w} : doing'[u] = doing[u]
      /\ doing'[w] = NoJob
  BY <1>1 DEF Inv, TypeOK
<1>6. \A a \in answers' : a \in answers \/ a = [job |-> j, verdict |-> v]
  BY <1>1, ReplyType
<1>7. j \notin overran => /\ status[j] = "running"
                          /\ \A u \in Workers : doing[u] = j => u = w
  BY <1>1 DEF Inv, HeldUnderLease, j
<1>8. TypeOK'
  <2>1. answers' \subseteq [job : Jobs, verdict : {"completed", "failed"}]
    BY <1>3, <1>6 DEF Inv, TypeOK
  <2>2. results' \subseteq Jobs
    BY <1>1, <1>3 DEF Inv, TypeOK
  <2>3. status' \in [Jobs -> {"absent", "pending", "running"} \cup Settled]
        /\ lease' \in [Jobs -> 0 .. Lease]
    <3>1. CASE status[j] = "running"
      <4>1. v \in Settled /\ 0 \in 0 .. Lease
        BY DEF Settled
      <4>2. /\ status' = [status EXCEPT ![j] = v]
            /\ lease' = [lease EXCEPT ![j] = 0]
        BY <1>2, <3>1
      <4>3. QED BY <4>1, <4>2 DEF Inv, TypeOK
    <3>2. CASE status[j] # "running"
      <4>1. status' = status /\ lease' = lease
        BY <1>2, <3>2
      <4>2. QED BY <4>1 DEF Inv, TypeOK
    <3>3. QED BY <3>1, <3>2
  <2>4. doing' \in [Workers -> Jobs \cup {NoJob}]
    BY <1>1 DEF Inv, TypeOK
  <2>5. QED BY <1>1, <2>1, <2>2, <2>3, <2>4 DEF Inv, TypeOK
<1>9. HeldUnderLease'
  <2> SUFFICES ASSUME NEW u \in Workers, doing'[u] # NoJob, doing'[u] \notin overran'
               PROVE  /\ status'[doing'[u]] = "running" /\ lease'[doing'[u]] > 0
                      /\ \A x \in Workers : doing'[x] = doing'[u] => x = u
    BY DEF HeldUnderLease
  <2>1. u # w /\ doing'[u] = doing[u] /\ doing[u] \in Jobs
    BY <1>5 DEF Inv, TypeOK
  <2>2. doing[u] # j
    BY <1>1, <1>7, <2>1
  <2>3. /\ status[doing[u]] = "running" /\ lease[doing[u]] > 0
        /\ \A x \in Workers : doing[x] = doing[u] => x = u
    BY <1>1, <2>1 DEF Inv, HeldUnderLease
  <2>4. QED BY <1>4, <1>5, <2>1, <2>2, <2>3
<1>10. AnsweredIsSettled'
  <2>1. \A a \in answers' : status'[a.job] \in {"completed", "failed"}
    <3> SUFFICES ASSUME NEW a \in answers' PROVE status'[a.job] \in {"completed", "failed"}
      OBVIOUS
    <3>1. CASE a \in answers
      BY <1>3, <1>4, <3>1 DEF Inv, TypeOK, AnsweredIsSettled
    <3>2. CASE a = [job |-> j, verdict |-> v]
      BY <1>3, <1>4, <3>2
    <3>3. QED BY <1>6, <3>1, <3>2
  <2>2. \A u \in Workers : doing'[u] # NoJob =>
            status'[doing'[u]] \in {"running", "completed", "failed"}
    <3> SUFFICES ASSUME NEW u \in Workers, doing'[u] # NoJob
                 PROVE  status'[doing'[u]] \in {"running", "completed", "failed"}
      OBVIOUS
    <3>1. doing'[u] = doing[u] /\ doing[u] \in Jobs
      BY <1>5, AllAreJobs DEF Inv
    <3>2. status[doing[u]] \in {"running", "completed", "failed"}
      BY <3>1 DEF Inv, AnsweredIsSettled
    <3>3. QED BY <1>3, <1>4, <3>1, <3>2
  <2>3. QED BY <2>1, <2>2 DEF AnsweredIsSettled
<1>11. SettledIsAnswered'
  <2> SUFFICES ASSUME NEW i \in Jobs
               PROVE  /\ status'[i] = "failed" => [job |-> i, verdict |-> "failed"] \in answers'
                      /\ status'[i] = "completed" => i \in results'
                      /\ (status'[i] = "completed" /\ i \notin Automatic) =>
                                [job |-> i, verdict |-> "completed"] \in answers'
    BY DEF SettledIsAnswered
  <2>1. CASE status'[i] = status[i]
    BY <1>1, <2>1 DEF Inv, SettledIsAnswered
  <2>2. CASE status'[i] # status[i]
    <3>1. i = j /\ status'[i] = v
      BY <1>4, <2>2
    <3>2. (v # "completed" \/ j \notin Automatic) => [job |-> j, verdict |-> v] \in answers'
      BY <1>1, ReplyType
    <3>3. QED BY <1>1, <3>1, <3>2
  <2>3. QED BY <2>1, <2>2
<1>12. OnlyOverrunsContradict'
  <2>1. j \notin overran => /\ \A a \in answers : a.job # j
                            /\ j \notin results
    BY <1>3, <1>7 DEF Inv, AnsweredIsSettled, OnlyOverrunsContradict
  <2> SUFFICES ASSUME NEW i \in Jobs \ overran
               PROVE  /\ \A a \in answers' : a.job = i => a.verdict = status'[i]
                      /\ i \in results' => status'[i] = "completed"
    BY <1>1 DEF OnlyOverrunsContradict
  <2>2. CASE i = j
    <3>1. status'[j] = v
      BY <1>4, <1>7, <2>2
    <3>2. QED BY <1>1, <1>6, <2>1, <2>2, <3>1
  <2>3. CASE i # j
    BY <1>1, <1>4, <1>6, <2>3 DEF Inv, OnlyOverrunsContradict
  <2>4. QED BY <2>2, <2>3
<1>13. SummariesGoFirst' /\ PdfAfterSummaries'
  BY <1>1, <1>3, <1>4 DEF Inv, TypeOK, SummariesGoFirst, PdfAfterSummaries
<1>14. QED
  BY <1>8, <1>9, <1>10, <1>11, <1>12, <1>13 DEF Inv

LEMMA WorkerCrashStep == ASSUME Inv, NEW w \in Workers, WorkerCrash(w) PROVE Inv'
<1> USE SlotsAreApart
<1>1. /\ UNCHANGED <<status, lease, arrivals, answers, results, slot, open, summary, producing,
                     last, aim, cut, overran>>
      /\ doing' = [doing EXCEPT ![w] = NoJob] /\ Count("worker_crash")
  BY DEF WorkerCrash, queue, outbox, producers
<1>2. faults' \in [FaultKinds -> Nat]
  BY <1>1, CountType DEF Inv, FaultKinds
<1>3. TypeOK'
  BY <1>1, <1>2 DEF Inv, TypeOK
<1>4. HeldUnderLease' /\ AnsweredIsSettled'
  BY <1>1 DEF Inv, TypeOK, HeldUnderLease, AnsweredIsSettled
<1>5. /\ SettledIsAnswered' /\ OnlyOverrunsContradict'
      /\ SummariesGoFirst' /\ PdfAfterSummaries'
  BY <1>1 DEF Inv, SettledIsAnswered, OnlyOverrunsContradict,
     SummariesGoFirst, PdfAfterSummaries
<1>6. QED BY <1>3, <1>4, <1>5 DEF Inv

\* A lease that ends under its executor is an overrun.
LEMMA TickStep == ASSUME Inv, Tick PROVE Inv'
<1> USE SlotsAreApart
<1>1. /\ UNCHANGED <<status, arrivals, answers, results, summary, doing, slot, open, producing,
                     last, aim, cut>>
      /\ lease' = [j \in Jobs |-> IF lease[j] > 0 THEN lease[j] - 1 ELSE 0]
      /\ overran' = overran \cup Overruns
      /\ faults' = faults \/ Count("overrun")
  BY DEF Tick, outbox, producers
<1>2. faults' \in [FaultKinds -> Nat]
  BY <1>1, CountType DEF Inv, TypeOK, FaultKinds
<1>3. TypeOK'
  <2>1. lease' \in [Jobs -> 0 .. Lease]
    BY <1>1 DEF Inv, TypeOK
  <2>2. overran' \subseteq Jobs
    BY <1>1 DEF Inv, TypeOK, Overruns
  <2>3. QED BY <1>1, <1>2, <2>1, <2>2 DEF Inv, TypeOK
<1>4. HeldUnderLease'
  <2> SUFFICES ASSUME NEW w \in Workers, doing[w] # NoJob, doing[w] \notin overran'
               PROVE  /\ status[doing[w]] = "running" /\ lease'[doing[w]] > 0
                      /\ \A v \in Workers : doing[v] = doing[w] => v = w
    BY <1>1 DEF HeldUnderLease
  <2>1. /\ doing[w] \in Jobs /\ doing[w] \notin overran /\ doing[w] \notin Overruns
        /\ lease[doing[w]] \in 0 .. Lease
    BY <1>1 DEF Inv, TypeOK
  <2>2. /\ status[doing[w]] = "running" /\ lease[doing[w]] > 0
        /\ \A v \in Workers : doing[v] = doing[w] => v = w
    BY <2>1 DEF Inv, HeldUnderLease
  <2>3. lease[doing[w]] # 1
    BY <2>1, <2>2 DEF Overruns
  <2>4. QED BY <1>1, <2>1, <2>2, <2>3
<1>5. /\ AnsweredIsSettled' /\ SettledIsAnswered'
      /\ SummariesGoFirst' /\ PdfAfterSummaries'
  BY <1>1 DEF Inv, AnsweredIsSettled, SettledIsAnswered, SummariesGoFirst,
     PdfAfterSummaries
<1>6. OnlyOverrunsContradict'
  BY <1>1 DEF Inv, OnlyOverrunsContradict
<1>7. QED BY <1>3, <1>4, <1>5, <1>6 DEF Inv

LEMMA NextInv == Inv /\ [Next]_vars => Inv'
<1> SUFFICES ASSUME Inv, [Next]_vars PROVE Inv'
  OBVIOUS
<1>1. CASE UNCHANGED vars
  <2>1. Bystands /\ UNCHANGED <<slot, open, summary, producing, last, aim, cut, faults>>
    BY <1>1 DEF vars, Bystands
  <2>2. TypeOK' /\ SummariesGoFirst' /\ PdfAfterSummaries'
    BY <2>1 DEF Inv, Bystands, TypeOK, SummariesGoFirst, PdfAfterSummaries
  <2>3. QED BY <2>1, <2>2, BystandsKeeps DEF Inv
<1>2. CASE \E j \in Requests : Request(j)
  BY <1>2, RequestStep
<1>3. CASE NextSlot \/ CloseSession
  BY <1>3, NextSlotStep, CloseSessionStep
<1>4. CASE \E p \in Producers : \/ Produce(p) \/ ProducerCrash(p)
                               \/ \E c \in Candidates : FollowUp(p, c)
  BY <1>4, SummariseStep, CheckPdfStep, SupersedePdfStep, InsertPdfStep,
     ProducerCrashStep, FollowUpStep DEF Produce
<1>5. CASE \E s \in Slots : SummarySent(s)
  BY <1>5, SummarySentStep
<1>6. CASE \E w \in Workers : Work(w) \/ WorkerCrash(w)
  BY <1>6, ClaimStep, FinishStep, WorkerCrashStep DEF Work
<1>7. CASE Tick
  BY <1>7, TickStep
<1>8. QED
  BY <1>1, <1>2, <1>3, <1>4, <1>5, <1>6, <1>7 DEF Next, Quiet

THEOREM Safe == Spec => []Inv
<1>1. QED BY InitInv, NextInv, PTL DEF Spec

-----------------------------------------------------------------------------
\* Every variable keeps its type; the queue never grows past one row per job.
THEOREM TypeCorrect == Spec => []TypeOK
<1>1. Inv => TypeOK
  BY DEF Inv
<1>2. QED BY <1>1, Safe, PTL

\* Nobody works on a job that waits, and what was answered is settled: FINISH_JOB
\* leaves a settled row alone, whatever crashed or overran.
THEOREM AnswersSettle == Spec => []AnsweredIsSettled
<1>1. Inv => AnsweredIsSettled
  BY DEF Inv
<1>2. QED BY <1>1, Safe, PTL

\* The verdict of a settled row was told to whoever asked for the job.
THEOREM SettledAreAnswered == Spec => []SettledIsAnswered
<1>1. Inv => SettledIsAnswered
  BY DEF Inv
<1>2. QED BY <1>1, Safe, PTL

\* The answers and results of a job contradict its row only if an execution of
\* it outlived its lease; crashes of workers and producers do not suffice.
THEOREM ContradictionsExcused == Spec => []OnlyOverrunsContradict
<1>1. Inv => OnlyOverrunsContradict
  BY DEF Inv
<1>2. QED BY <1>1, Safe, PTL

\* No PDF of a round is started before the summaries of the round are sent,
\* for any number of producers and rounds.
THEOREM PdfsFollow == Spec => []PdfAfterSummaries
<1>1. Inv => PdfAfterSummaries
  BY DEF Inv
<1>2. QED BY <1>1, Safe, PTL

-----------------------------------------------------------------------------
(* The rounds, when one process produces the summaries.                    *)

OneProducer == \A p, q \in Producers : p = q

\* It inserts the rounds in their order, and none waits when it inserts the next.
RoundsInOrder ==
    /\ \A s \in Slots : status[s] # "absent" => s <= slot
    /\ \A p \in Producers : producing[p] # "idle" =>
            /\ aim[p] <= slot
            /\ \A s \in Slots : status[s] # "absent" => s <= aim[p]
            /\ producing[p] = "cleared" => \A s \in Slots : status[s] # "pending"

RoundsInv == RoundsInOrder /\ WaitingPdfIsNewest

\* A step that inserts no round, lets none wait again and leaves the producers alone.
LEMMA NoNewRound ==
    ASSUME RoundsInv, UNCHANGED <<slot, aim, producing>>,
           \A s \in Slots : /\ status[s] = "absent" <=> status'[s] = "absent"
                            /\ status'[s] = "pending" => status[s] = "pending"
    PROVE  RoundsInv'
BY DEF RoundsInv, RoundsInOrder, WaitingPdfIsNewest

\* The steps of the producer: no round of the queue is newer than the one it aims at.
LEMMA ProducerRounds ==
    ASSUME Inv, RoundsInv, OneProducer, NEW p \in Producers,
           Produce(p) \/ ProducerCrash(p)
    PROVE  RoundsInv'
<1> USE SlotsAreApart
<1>0. /\ slot \in 0 .. MaxSlot /\ status \in [Jobs -> {"absent", "pending", "running"} \cup Settled]
      /\ producing \in [Producers -> {"idle", "queued", "checked", "cleared"}]
      /\ aim \in [Producers -> 0 .. MaxSlot] /\ \A q \in Producers : q = p
  BY DEF Inv, TypeOK, OneProducer
<1>1. CASE Summarise(p)
  BY <1>0, <1>1 DEF Summarise, Begins, queue, RoundsInv, RoundsInOrder, WaitingPdfIsNewest
<1>2. CASE CheckPdf(p)
  BY <1>0, <1>2 DEF CheckPdf, Produced, queue, RoundsInv, RoundsInOrder, WaitingPdfIsNewest
<1>3. CASE SupersedePdf(p)
  <2>1. /\ slot' = slot /\ aim' = aim /\ producing[p] = "checked"
        /\ producing' = [producing EXCEPT ![p] = "cleared"]
        /\ \A s \in Slots : status'[s] = IF status[s] = "pending" THEN "superseded" ELSE status[s]
    BY <1>3 DEF SupersedePdf
  <2>2. \A s \in Slots : /\ status'[s] # "absent" => status[s] # "absent"
                         /\ status'[s] # "pending"
    BY <2>1
  <2>3. QED BY <1>0, <2>1, <2>2 DEF RoundsInv, RoundsInOrder, WaitingPdfIsNewest
<1>4. CASE InsertPdf(p)
  <2>1. /\ slot' = slot /\ aim' = aim /\ producing[p] = "cleared"
        /\ producing' = [producing EXCEPT ![p] = "idle"] /\ Insert(aim[p])
    BY <1>4 DEF InsertPdf, Produced
  <2>2. aim[p] \in Slots /\ aim[p] <= slot
    BY <2>1 DEF Inv, SummariesGoFirst, RoundsInv, RoundsInOrder
  <2>3. \A s \in Slots : s # aim[p] => status'[s] = status[s]
    BY <2>1, <2>2, InsertKeepsQueue DEF Inv
  <2>4. \A s \in Slots : /\ status[s] # "pending"
                         /\ status[s] # "absent" => s <= aim[p]
    BY <2>1 DEF RoundsInv, RoundsInOrder
  <2>5. \A s \in Slots : status'[s] # "absent" => s <= aim[p] /\ s <= slot
    BY <1>0, <2>2, <2>3, <2>4
  <2>6. \A s \in Slots : status'[s] = "pending" => s = aim[p]
    BY <2>3, <2>4
  <2>7. WaitingPdfIsNewest'
    BY <1>0, <2>5, <2>6 DEF WaitingPdfIsNewest
  <2>8. QED BY <1>0, <2>1, <2>5, <2>7 DEF RoundsInv, RoundsInOrder
<1>5. CASE ProducerCrash(p)
  BY <1>0, <1>5 DEF ProducerCrash, queue, RoundsInv, RoundsInOrder, WaitingPdfIsNewest
<1>6. QED BY <1>1, <1>2, <1>3, <1>4, <1>5 DEF Produce

LEMMA RoundsStep ==
    ASSUME OneProducer
    PROVE  Inv /\ RoundsInv /\ [Next]_vars => RoundsInv'
<1> SUFFICES ASSUME Inv, RoundsInv, [Next]_vars PROVE RoundsInv'
  OBVIOUS
<1> USE SlotsAreApart
<1>1. ASSUME NEW p \in Producers, Produce(p) \/ ProducerCrash(p) PROVE RoundsInv'
  BY <1>1, ProducerRounds
<1>2. ASSUME NEW j \in Requests \cup Candidates, Insert(j),
             UNCHANGED <<slot, aim, producing>>
      PROVE  RoundsInv'
  <2>1. \A s \in Slots : status'[s] = status[s]
    BY <1>2, InsertKeepsQueue DEF Inv
  <2>2. QED BY <1>2, <2>1, NoNewRound
<1>3. ASSUME NEW j \in Requests, Request(j) PROVE RoundsInv'
  BY <1>2, <1>3 DEF Request, producers
<1>4. ASSUME NEW p \in Producers, NEW c \in Candidates, FollowUp(p, c) PROVE RoundsInv'
  BY <1>2, <1>4 DEF FollowUp, producers
<1>5. CASE NextSlot
  BY <1>5 DEF NextSlot, queue, RoundsInv, RoundsInOrder, WaitingPdfIsNewest, Inv, TypeOK
<1>6. ASSUME NEW w \in Workers, Claim(w) PROVE RoundsInv'
  <2>1. PICK j \in Jobs : /\ status[j] \in {"pending", "running"}
                          /\ status' = [status EXCEPT ![j] = "running"]
    BY <1>6 DEF Claim, Claimable
  <2>2. \A s \in Slots : status'[s] = IF s = j THEN "running" ELSE status[s]
    BY <2>1 DEF Inv, TypeOK
  <2>3. QED BY <1>6, <2>1, <2>2, NoNewRound DEF Claim, producers
<1>7. ASSUME NEW w \in Workers, NEW v \in {"completed", "failed"}, Finish(w, v)
      PROVE  RoundsInv'
  <2>1. \/ status' = status
        \/ status[doing[w]] = "running" /\ status' = [status EXCEPT ![doing[w]] = v]
    BY <1>7 DEF Finish
  <2>2. \A s \in Slots : status'[s] = status[s] \/ (status[s] = "running" /\ status'[s] = v)
    BY <2>1 DEF Inv, TypeOK
  <2>3. QED BY <1>7, <2>2, NoNewRound DEF Finish, producers
<1>8. CASE \/ \E s \in Slots : SummarySent(s)
           \/ \E w \in Workers : WorkerCrash(w)
           \/ CloseSession \/ Tick \/ Quiet \/ UNCHANGED vars
  <2>1. UNCHANGED <<status, slot, aim, producing>>
    BY <1>8 DEF CloseSession, SummarySent, WorkerCrash, Tick, Quiet, vars, queue, producers
  <2>2. QED BY <2>1, NoNewRound
<1>9. QED BY <1>1, <1>3, <1>4, <1>5, <1>6, <1>7, <1>8 DEF Next, Work

\* Of the rounds whose PDF waits only the newest one is kept in the queue, crashes
\* of the producer between its statements included.
THEOREM OnlyTheNewestWaits ==
    ASSUME OneProducer
    PROVE  Spec => []WaitingPdfIsNewest
<1>1. Init => RoundsInv
  BY SlotsAreApart DEF Init, RoundsInv, RoundsInOrder, WaitingPdfIsNewest
<1>2. Inv /\ RoundsInv /\ [Next]_vars => RoundsInv'
  BY RoundsStep
<1>3. RoundsInv => WaitingPdfIsNewest
  BY DEF RoundsInv
<1>4. QED BY <1>1, <1>2, <1>3, Safe, PTL DEF Spec

=============================================================================
