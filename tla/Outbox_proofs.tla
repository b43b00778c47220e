---------------------------- MODULE Outbox_proofs ----------------------------
(***************************************************************************)
(* Theorems about Outbox for any number of messages, publishers and        *)
(* faults.                                                                 *)
(*                                                                         *)
(* A message is seen again, or held by another publisher, only if it can be*)
(* claimed.  So each claim that is still possible is counted together with *)
(* what claims already led to: the sum grows only with an excuse.          *)
(***************************************************************************)
EXTENDS Outbox, FiniteSetTheorems, TLAPS

\* The messages of a batch.
Held(b) == {b[i].msg : i \in DOMAIN b}

\* A batch has every message once, and a reply is to the first one.
BatchesAreSets ==
    \A p \in Publishers : \A i, j \in DOMAIN batch[p] :
        batch[p][i].msg = batch[p][j].msg => i = j
RepliesAreToHeads == \A p \in Publishers : reply[p] # "none" => Busy(p)

Inv == TypeOK /\ BatchesAreSets /\ RepliesAreToHeads

-----------------------------------------------------------------------------
(* Lemmas about batches and times.                                         *)

\* The first message of a batch and the others.
LEMMA BatchParts ==
    ASSUME NEW b \in Seq(Items), b # <<>>,
           \A i, j \in DOMAIN b : b[i].msg = b[j].msg => i = j
    PROVE  /\ Head(b) \in Items /\ Tail(b) \in Seq(Items)
           /\ Head(b).msg \in Held(b)
           /\ Held(Tail(b)) = Held(b) \ {Head(b).msg}
           /\ \A i, j \in DOMAIN Tail(b) : Tail(b)[i].msg = Tail(b)[j].msg => i = j
<1>1. Len(b) \in Nat \ {0} /\ DOMAIN b = 1 .. Len(b) /\ Head(b) = b[1]
  OBVIOUS
<1>2. Tail(b) \in Seq(Items) /\ Head(b) \in Items
  BY <1>1
<1>3. DOMAIN Tail(b) = 1 .. (Len(b) - 1) /\ \A i \in 1 .. (Len(b) - 1) : Tail(b)[i] = b[i + 1]
  BY <1>1
<1>4. \A i, j \in DOMAIN Tail(b) : Tail(b)[i].msg = Tail(b)[j].msg => i = j
  <2> SUFFICES ASSUME NEW i \in DOMAIN Tail(b), NEW j \in DOMAIN Tail(b),
                      Tail(b)[i].msg = Tail(b)[j].msg
               PROVE  i = j
    OBVIOUS
  <2>1. i + 1 \in DOMAIN b /\ j + 1 \in DOMAIN b /\ b[i + 1].msg = b[j + 1].msg
    BY <1>1, <1>3
  <2>2. i + 1 = j + 1
    BY <2>1
  <2>3. QED BY <1>1, <1>3, <2>2
<1>5. Held(Tail(b)) \subseteq Held(b) \ {Head(b).msg}
  <2> SUFFICES ASSUME NEW i \in DOMAIN Tail(b)
               PROVE  Tail(b)[i].msg \in Held(b) /\ Tail(b)[i].msg # Head(b).msg
    BY DEF Held
  <2>1. i + 1 \in DOMAIN b /\ 1 \in DOMAIN b /\ i + 1 # 1 /\ Tail(b)[i] = b[i + 1]
    BY <1>1, <1>3
  <2>2. b[i + 1].msg # b[1].msg
    BY <2>1
  <2>3. QED BY <1>1, <2>1, <2>2 DEF Held
<1>6. Held(b) \ {Head(b).msg} \subseteq Held(Tail(b))
  <2> SUFFICES ASSUME NEW i \in DOMAIN b, b[i].msg # Head(b).msg
               PROVE  b[i].msg \in Held(Tail(b))
    BY DEF Held
  <2>1. i - 1 \in DOMAIN Tail(b) /\ Tail(b)[i - 1] = b[i]
    <3>1. i # 1
      BY <1>1
    <3>2. i \in 2 .. Len(b) /\ i - 1 \in 1 .. (Len(b) - 1) /\ (i - 1) + 1 = i
      BY <1>1, <3>1
    <3>3. QED BY <1>3, <3>2
  <2>2. QED BY <2>1 DEF Held
<1>7. Head(b).msg \in Held(b)
  BY <1>1 DEF Held
<1>8. QED BY <1>2, <1>4, <1>5, <1>6, <1>7

\* The publishers that hold a message, by their batches.
LEMMA HoldersHold == \A m : Holders(m) = {p \in Publishers : m \in Held(batch[p])}
BY DEF Holders, Held

\* A retry comes after at most the longest delay.
LEMMA DelayType ==
    ASSUME NEW a \in Nat, NEW e \in 0 .. MaxAge + DelayCap
    PROVE  Greatest(RetryDelay(a) - e, -MaxAge) \in -MaxAge .. DelayCap
<1> DEFINE k == Greatest(a - 1, 0)
<1>1. k \in Nat
  BY DEF Greatest
<1>2. 2 ^ k \in Int
  <2> HIDE DEF k
  <2>1. QED BY <1>1
<1>3. RetryDelay(a) \in Int /\ RetryDelay(a) <= DelayCap
  <2> DEFINE x == 2 ^ k
  <2>1. x \in Int /\ RetryDelay(a) = Least(x, DelayCap)
    BY <1>2 DEF RetryDelay
  <2> HIDE DEF x
  <2>2. QED BY <2>1, OutboxAssumption DEF Least
<1> HIDE DEF k
<1>4. QED BY <1>3, OutboxAssumption DEF Greatest

\* The claimed batch has the messages of S once each.
LEMMA BatchType ==
    ASSUME TypeOK, NEW S \in SUBSET Messages, NEW b \in Batches(S)
    PROVE  /\ b \in Seq(Items) /\ Held(b) \subseteq S
           /\ \A i, j \in DOMAIN b : b[i].msg = b[j].msg => i = j
<1>1. IsFiniteSet(S) /\ Cardinality(S) \in Nat
  BY OutboxAssumption, FS_Subset, FS_CardinalityType
<1>2. PICK q \in [1 .. Cardinality(S) -> S] :
        /\ \A i, j \in DOMAIN q : q[i] = q[j] => i = j
        /\ b = [i \in DOMAIN q |-> [msg |-> q[i], attempt |-> attempts[q[i]] + 1]]
  BY DEF Batches
<1>3. \A i \in 1 .. Cardinality(S) : b[i] = [msg |-> q[i], attempt |-> attempts[q[i]] + 1]
  BY <1>2
<1>4. DOMAIN b = 1 .. Cardinality(S) /\ \A i \in 1 .. Cardinality(S) : b[i] \in Items /\ b[i].msg = q[i]
  <2> SUFFICES ASSUME NEW i \in 1 .. Cardinality(S) PROVE b[i] \in Items /\ b[i].msg = q[i]
    BY <1>2
  <2>1. q[i] \in Messages /\ attempts[q[i]] \in Nat
    BY DEF TypeOK
  <2>2. attempts[q[i]] + 1 \in Nat \ {0}
    BY <2>1
  <2>3. [msg |-> q[i], attempt |-> attempts[q[i]] + 1] \in Items
    BY <2>1, <2>2 DEF Items
  <2>4. QED BY <1>3, <2>3
<1>5. b \in [1 .. Cardinality(S) -> Items]
  BY <1>2, <1>4
<1>6. b \in Seq(Items)
  <2>1. PICK n \in Nat : n = Cardinality(S)
    BY <1>1
  <2>2. b \in [1 .. n -> Items]
    BY <1>5, <2>1
  <2>3. QED BY <2>2
<1>7. QED BY <1>2, <1>4, <1>6 DEF Held
-----------------------------------------------------------------------------
(* Types.                                                                  *)

\* Init establishes the invariant.
LEMMA InvInit == Init => Inv
<1> SUFFICES ASSUME Init PROVE Inv
  OBVIOUS
<1>1. TypeOK
  <2>1. 0 \in -MaxAge .. DelayCap /\ 0 \in 0 .. Lease /\ 0 \in 0 .. MaxAge + DelayCap
    BY OutboxAssumption
  <2>2. batch \in [Publishers -> Seq(Items)]
    BY DEF Init
  <2>3. QED BY <2>1, <2>2 DEF Init, TypeOK
<1>2. BatchesAreSets /\ RepliesAreToHeads
  BY DEF Init, BatchesAreSets, RepliesAreToHeads
<1>3. QED BY <1>1, <1>2 DEF Inv

\* A publisher goes on to the next message.
LEMMA NextItemKeeps ==
    ASSUME Inv, NEW p \in Publishers, Busy(p), NextItem(p)
    PROVE  /\ batch' \in [Publishers -> Seq(Items)] /\ reply' \in [Publishers -> {"none", "ok", "error"}]
           /\ BatchesAreSets' /\ RepliesAreToHeads'
<1>1. batch[p] \in Seq(Items) /\ batch[p] # <<>>
  BY DEF Inv, TypeOK, Busy
<1>2. /\ Tail(batch[p]) \in Seq(Items)
      /\ \A i, j \in DOMAIN Tail(batch[p]) : Tail(batch[p])[i].msg = Tail(batch[p])[j].msg => i = j
  BY <1>1, BatchParts DEF Inv, BatchesAreSets
<1>3. /\ batch' = [batch EXCEPT ![p] = Tail(batch[p])]
      /\ reply' = [reply EXCEPT ![p] = "none"]
  BY DEF NextItem
<1>4. batch' \in [Publishers -> Seq(Items)] /\ reply' \in [Publishers -> {"none", "ok", "error"}]
  BY <1>2, <1>3 DEF Inv, TypeOK
<1>5. BatchesAreSets'
  <2> SUFFICES ASSUME NEW q \in Publishers
               PROVE  \A i, j \in DOMAIN batch'[q] : batch'[q][i].msg = batch'[q][j].msg => i = j
    BY DEF BatchesAreSets
  <2>1. CASE q = p
    BY <1>2, <1>3, <2>1 DEF Inv, TypeOK
  <2>2. CASE q # p
    BY <1>3, <2>2 DEF Inv, TypeOK, BatchesAreSets
  <2>3. QED BY <2>1, <2>2
<1>6. RepliesAreToHeads'
  BY <1>3 DEF Inv, TypeOK, RepliesAreToHeads, Busy
<1>7. QED BY <1>4, <1>5, <1>6

\* A claim gives the publisher a batch.
LEMMA ClaimKeeps == ASSUME Inv, NEW p \in Publishers, Claim(p) PROVE Inv'
<1>0. PICK S \in SUBSET Claimable(p) :
        /\ batch' \in {[batch EXCEPT ![p] = c] : c \in Batches(S)}
        /\ status' = [m \in Messages |-> IF m \in S THEN "processing" ELSE status[m]]
        /\ attempts' = [m \in Messages |-> IF m \in S THEN attempts[m] + 1 ELSE attempts[m]]
        /\ lease' = [m \in Messages |-> IF m \in S THEN Lease ELSE lease[m]]
        /\ excuses' = [m \in Messages |-> IF m \in S /\ status[m] = "processing"
                                             /\ lease[m] = 0 /\ Holders(m) # {}
                                          THEN excuses[m] + 1 ELSE excuses[m]]
  BY DEF Claim
<1>1. PICK b \in Batches(S) : batch' = [batch EXCEPT ![p] = b]
  BY <1>0
<1>2. S \in SUBSET Messages
  BY OutboxAssumption DEF Claimable
<1>3. /\ b \in Seq(Items)
      /\ \A i, j \in DOMAIN b : b[i].msg = b[j].msg => i = j
  BY <1>2, BatchType DEF Inv
<1>4. ~Busy(p) /\ UNCHANGED <<due, reply, delivered, faults>> /\ elapsed' = [elapsed EXCEPT ![p] = 0]
  BY DEF Claim
<1>5. batch' \in [Publishers -> Seq(Items)]
  BY <1>1, <1>3 DEF Inv, TypeOK
<1>6. /\ status' \in [Messages -> {"absent", "pending", "processing", "failed", "sent"}]
      /\ attempts' \in [Messages -> Nat] /\ excuses' \in [Messages -> Nat]
  BY <1>0 DEF Inv, TypeOK
<1>7. lease' \in [Messages -> 0 .. Lease]
  BY <1>0, OutboxAssumption DEF Inv, TypeOK
<1>8. elapsed' \in [Publishers -> 0 .. MaxAge + DelayCap]
  BY <1>4, OutboxAssumption DEF Inv, TypeOK
<1>9. TypeOK'
  BY <1>4, <1>5, <1>6, <1>7, <1>8 DEF Inv, TypeOK
<1>10. BatchesAreSets'
  <2> SUFFICES ASSUME NEW q \in Publishers
               PROVE  \A i, j \in DOMAIN batch'[q] : batch'[q][i].msg = batch'[q][j].msg => i = j
    BY DEF BatchesAreSets
  <2>1. CASE q = p
    BY <1>1, <1>3, <2>1 DEF Inv, TypeOK
  <2>2. CASE q # p
    BY <1>1, <2>2 DEF Inv, TypeOK, BatchesAreSets
  <2>3. QED BY <2>1, <2>2
<1>11. RepliesAreToHeads'
  BY <1>1, <1>4 DEF Inv, TypeOK, RepliesAreToHeads, Busy
<1>12. QED BY <1>9, <1>10, <1>11 DEF Inv

\* Telegram answers, or does not.
LEMMA SendKeeps ==
    ASSUME Inv, NEW p \in Publishers, SendAccepted(p) \/ SendRejected(p) \/ SendAmbiguous(p)
    PROVE  Inv'
<1>1. Busy(p) /\ batch[p] \in Seq(Items) /\ batch[p] # <<>>
  BY DEF Inv, TypeOK, SendAccepted, SendRejected, SendAmbiguous, Busy
<1>2. Item(p) \in Items /\ Item(p).msg \in Messages
  BY <1>1, BatchParts DEF Inv, BatchesAreSets, Item, Items
<1>3. /\ UNCHANGED <<table, batch, elapsed>>
      /\ reply' = [reply EXCEPT ![p] = "ok"] \/ reply' = [reply EXCEPT ![p] = "error"]
      /\ delivered' = delivered \/ delivered' = [delivered EXCEPT ![Item(p).msg] = @ + 1]
      /\ excuses' = excuses \/ excuses' = [excuses EXCEPT ![Item(p).msg] = @ + 1]
  BY DEF SendAccepted, SendRejected, SendAmbiguous
<1>4. delivered' \in [Messages -> Nat] /\ excuses' \in [Messages -> Nat]
  <2>1. delivered \in [Messages -> Nat] /\ excuses \in [Messages -> Nat]
    BY DEF Inv, TypeOK
  <2>2. delivered' \in [Messages -> Nat]
    BY <1>2, <1>3, <2>1
  <2>3. excuses' \in [Messages -> Nat]
    BY <1>2, <1>3, <2>1
  <2>4. QED BY <2>2, <2>3
<1>5. faults' \in [FaultKinds -> Nat]
  <2>1. faults \in [FaultKinds -> Nat]
    BY DEF Inv, TypeOK
  <2>2. CASE SendAccepted(p)
    BY <2>1, <2>2 DEF SendAccepted
  <2>3. CASE SendRejected(p)
    BY <2>1, <2>3 DEF SendRejected, Count, FaultKinds
  <2>4. CASE SendAmbiguous(p)
    BY <2>1, <2>4 DEF SendAmbiguous, Count, FaultKinds
  <2>5. QED BY <2>2, <2>3, <2>4
<1>10. reply' \in [Publishers -> {"none", "ok", "error"}]
  BY <1>3 DEF Inv, TypeOK
<1>6. TypeOK'
  BY <1>3, <1>4, <1>5, <1>10 DEF Inv, TypeOK, table
<1>7. BatchesAreSets'
  BY <1>3 DEF Inv, BatchesAreSets
<1>8. RepliesAreToHeads'
  BY <1>1, <1>3 DEF Inv, TypeOK, RepliesAreToHeads, Busy
<1>9. QED BY <1>6, <1>7, <1>8 DEF Inv

\* The outcome of a message is recorded.
LEMMA MarkKeeps ==
    ASSUME Inv, NEW p \in Publishers, MarkSent(p) \/ MarkFailed(p)
    PROVE  Inv'
<1>1. Busy(p) /\ batch[p] \in Seq(Items) /\ batch[p] # <<>> /\ NextItem(p)
  BY DEF Inv, TypeOK, MarkSent, MarkFailed, Busy
<1>2. Item(p) \in Items /\ Item(p).msg \in Messages /\ Item(p).attempt \in Nat
  BY <1>1, BatchParts DEF Inv, BatchesAreSets, Item, Items
<1>3. /\ batch' \in [Publishers -> Seq(Items)] /\ reply' \in [Publishers -> {"none", "ok", "error"}]
      /\ BatchesAreSets' /\ RepliesAreToHeads'
  BY <1>1, NextItemKeeps
<1>4. UNCHANGED <<attempts, elapsed, delivered, excuses, faults>>
  BY DEF MarkSent, MarkFailed
<1>5. Greatest(RetryDelay(Item(p).attempt) - elapsed[p], -MaxAge) \in -MaxAge .. DelayCap
  <2>1. elapsed[p] \in 0 .. MaxAge + DelayCap
    BY DEF Inv, TypeOK
  <2>2. QED BY <1>2, <2>1, DelayType
<1>6. 0 \in 0 .. Lease
  BY OutboxAssumption
<1> HIDE DEF Item
<1>7. /\ status' \in [Messages -> {"absent", "pending", "processing", "failed", "sent"}]
      /\ lease' \in [Messages -> 0 .. Lease] /\ due' \in [Messages -> -MaxAge .. DelayCap]
  <2>1. CASE MarkSent(p)
    BY <1>2, <1>6, <2>1 DEF Inv, TypeOK, MarkSent
  <2>2. CASE MarkFailed(p)
    BY <1>2, <1>5, <1>6, <2>2 DEF Inv, TypeOK, MarkFailed
  <2>3. QED BY <2>1, <2>2
<1>8. QED BY <1>3, <1>4, <1>7 DEF Inv, TypeOK

\* A publisher dies.
LEMMA CrashKeeps == ASSUME Inv, NEW p \in Publishers, Crash(p) PROVE Inv'
<1>1. Item(p) \in Items /\ Item(p).msg \in Messages
  BY BatchParts DEF Inv, TypeOK, BatchesAreSets, Crash, Busy, Item, Items
<1>2. /\ batch' = [batch EXCEPT ![p] = <<>>] /\ reply' = [reply EXCEPT ![p] = "none"]
      /\ excuses' = excuses \/ excuses' = [excuses EXCEPT ![Item(p).msg] = @ + 1]
      /\ faults' = [faults EXCEPT !["crash"] = @ + 1]
      /\ UNCHANGED <<table, elapsed, delivered>>
  BY DEF Crash, Count
<1>3. excuses' \in [Messages -> Nat]
  <2> HIDE DEF Item
  <2>1. QED BY <1>1, <1>2 DEF Inv, TypeOK
<1>4. faults' \in [FaultKinds -> Nat] /\ reply' \in [Publishers -> {"none", "ok", "error"}]
  BY <1>2 DEF Inv, TypeOK, FaultKinds
<1>5. batch' \in [Publishers -> Seq(Items)]
  BY <1>2 DEF Inv, TypeOK
<1>6. TypeOK'
  BY <1>2, <1>3, <1>4, <1>5 DEF Inv, TypeOK, table
<1>7. BatchesAreSets'
  BY <1>2 DEF Inv, TypeOK, BatchesAreSets
<1>8. RepliesAreToHeads'
  BY <1>2 DEF Inv, TypeOK, RepliesAreToHeads, Busy
<1>9. QED BY <1>6, <1>7, <1>8 DEF Inv

\* Time passes.
LEMMA TickKeeps == ASSUME Inv, Tick PROVE Inv'
<1>1. due' \in [Messages -> -MaxAge .. DelayCap]
  BY OutboxAssumption DEF Inv, TypeOK, Tick, Greatest
<1>2. lease' \in [Messages -> 0 .. Lease]
  BY OutboxAssumption DEF Inv, TypeOK, Tick, Greatest
<1>3. elapsed' \in [Publishers -> 0 .. MaxAge + DelayCap]
  BY OutboxAssumption DEF Inv, TypeOK, Tick, Least
<1>4. faults' \in [FaultKinds -> Nat]
  BY DEF Inv, TypeOK, Tick, Count, FaultKinds
<1>5. UNCHANGED <<status, attempts, batch, reply, delivered, excuses>>
  BY DEF Tick
<1>6. QED BY <1>1, <1>2, <1>3, <1>4, <1>5
        DEF Inv, TypeOK, BatchesAreSets, RepliesAreToHeads, Busy

\* Every step preserves the invariant.
LEMMA InvStep == Inv /\ [Next]_vars => Inv'
<1> SUFFICES ASSUME Inv, [Next]_vars PROVE Inv'
  OBVIOUS
<1>1. ASSUME NEW m \in Messages, Enqueue(m) PROVE Inv'
  <2>1. /\ status' \in [Messages -> {"absent", "pending", "processing", "failed", "sent"}]
        /\ due' \in [Messages -> -MaxAge .. DelayCap]
    BY <1>1, OutboxAssumption DEF Inv, TypeOK, Enqueue
  <2>2. UNCHANGED <<attempts, lease, batch, elapsed, reply, delivered, excuses, faults>>
    BY <1>1 DEF Enqueue
  <2>3. QED BY <2>1, <2>2 DEF Inv, TypeOK, BatchesAreSets, RepliesAreToHeads, Busy
<1>2. CASE UNCHANGED vars
  BY <1>2 DEF vars, Inv, TypeOK, BatchesAreSets, RepliesAreToHeads, Busy
<1>3. QED BY <1>1, <1>2, ClaimKeeps, SendKeeps, MarkKeeps, CrashKeeps, TickKeeps DEF Next, Publish

\* So it always holds.
LEMMA InvHolds == Spec => []Inv
BY InvInit, InvStep, PTL DEF Spec

\* Every variable keeps its type: retry times stay between the longest delay and the
\* oldest age that is told apart, whatever number of attempts a message has had.
THEOREM TypeCorrect == Spec => []TypeOK
<1>1. Inv => TypeOK
  BY DEF Inv
<1>2. QED BY <1>1, InvHolds, PTL

-----------------------------------------------------------------------------
(* Who holds a message.                                                    *)

\* Publishers that may still deliver a message, or may say that they could not.
Open(m) == {p \in Holders(m) : ~(reply[p] = "ok" /\ Item(p).msg = m)}

\* How sets of publishers are counted.
LEMMA SetCounts ==
    ASSUME NEW G \in SUBSET Publishers, NEW H \in SUBSET Publishers, NEW p
    PROVE  /\ Cardinality(G) \in Nat /\ Cardinality(H) \in Nat
           /\ H \subseteq G => Cardinality(H) <= Cardinality(G)
           /\ H \subseteq G \cup {p} => Cardinality(H) <= Cardinality(G) + 1
           /\ p \in G /\ H \subseteq G \ {p} => Cardinality(H) <= Cardinality(G) - 1
<1>1. IsFiniteSet(G) /\ IsFiniteSet(H)
  BY OutboxAssumption, FS_Subset
<1>2. Cardinality(G) \in Nat /\ Cardinality(H) \in Nat
  BY <1>1, FS_CardinalityType
<1>3. H \subseteq G => Cardinality(H) <= Cardinality(G)
  BY <1>1, FS_Subset
<1>4. ASSUME H \subseteq G \cup {p} PROVE Cardinality(H) <= Cardinality(G) + 1
  <2>1. IsFiniteSet(G \cup {p}) /\ Cardinality(G \cup {p}) <= Cardinality(G) + 1
    <3>1. /\ IsFiniteSet(G \cup {p})
          /\ Cardinality(G \cup {p}) = IF p \in G THEN Cardinality(G) ELSE Cardinality(G) + 1
      BY <1>1, FS_AddElement
    <3>2. QED BY <1>2, <3>1
  <2>2. Cardinality(H) <= Cardinality(G \cup {p}) /\ Cardinality(G \cup {p}) \in Nat
    BY <1>4, <2>1, FS_Subset, FS_CardinalityType
  <2>3. QED BY <1>2, <2>1, <2>2
<1>5. ASSUME p \in G, H \subseteq G \ {p} PROVE Cardinality(H) <= Cardinality(G) - 1
  <2>1. IsFiniteSet(G \ {p}) /\ Cardinality(G \ {p}) = Cardinality(G) - 1
    BY <1>1, <1>5, FS_RemoveElement
  <2>2. Cardinality(H) <= Cardinality(G \ {p})
    BY <1>5, <2>1, FS_Subset
  <2>3. QED BY <2>1, <2>2
<1>6. QED BY <1>2, <1>3, <1>4, <1>5

\* The first message of a batch is held.
LEMMA HeadIsHeld ==
    ASSUME Inv, NEW p \in Publishers, Busy(p)
    PROVE  Item(p).msg \in Messages /\ p \in Holders(Item(p).msg)
<1>1. batch[p] \in Seq(Items) /\ batch[p] # <<>>
  BY DEF Inv, TypeOK, Busy
<1>2. Item(p) \in Items /\ Item(p).msg \in Held(batch[p])
  BY <1>1, BatchParts DEF Inv, BatchesAreSets, Item
<1>3. QED BY <1>2, HoldersHold DEF Items

\* After an outcome was recorded, p does not hold the first message any more.
LEMMA NextItemMoves ==
    ASSUME Inv, NEW p \in Publishers, Busy(p), NextItem(p), NEW m
    PROVE  /\ m = Item(p).msg => Holders(m)' = Holders(m) \ {p} /\ Open(m)' = Open(m) \ {p}
           /\ m # Item(p).msg => Holders(m)' = Holders(m) /\ Open(m)' = Open(m)
<1>1. batch[p] \in Seq(Items) /\ batch[p] # <<>>
  BY DEF Inv, TypeOK, Busy
<1>2. Held(Tail(batch[p])) = Held(batch[p]) \ {Item(p).msg}
  BY <1>1, BatchParts DEF Inv, BatchesAreSets, Item
<1>3. /\ batch'[p] = Tail(batch[p]) /\ reply'[p] = "none"
      /\ \A q \in Publishers : q # p => batch'[q] = batch[q] /\ reply'[q] = reply[q]
  BY DEF NextItem, Inv, TypeOK
<1>4. /\ Holders(m) = {q \in Publishers : m \in Held(batch[q])}
      /\ Holders(m)' = {q \in Publishers : m \in Held(batch'[q])}
  BY HoldersHold DEF Holders, Held
<1>5. Holders(m)' = IF m = Item(p).msg THEN Holders(m) \ {p} ELSE Holders(m)
  <2>1. m \in Held(batch'[p]) <=> m \in Held(batch[p]) /\ m # Item(p).msg
    BY <1>2, <1>3
  <2>2. \A q \in Publishers : q # p => (m \in Held(batch'[q]) <=> m \in Held(batch[q]))
    BY <1>3
  <2>3. QED BY <1>4, <2>1, <2>2
<1>6. \A q \in Publishers : q # p => Item(q)' = Item(q)
  BY <1>3 DEF Item
<1>7. Open(m)' = {q \in Holders(m)' : ~(reply'[q] = "ok" /\ (Item(q)').msg = m)}
  BY DEF Open
<1>8. \A q \in Publishers : q \in Open(m)' <=> q \in Holders(m)' /\ (q = p \/ q \in Open(m))
  BY <1>3, <1>5, <1>6, <1>7 DEF Open
<1>9. Holders(m) \subseteq Publishers /\ Open(m) \subseteq Holders(m)
  BY DEF Holders, Open
<1>10. Open(m)' \subseteq Publishers
  BY <1>4, <1>7
<1>11. QED BY <1>5, <1>8, <1>9, <1>10 DEF Open

\* After its death it holds nothing.
LEMMA CrashMoves ==
    ASSUME Inv, NEW p \in Publishers, Crash(p), NEW m
    PROVE  Holders(m)' = Holders(m) \ {p} /\ Open(m)' = Open(m) \ {p}
<1>1. /\ batch'[p] = <<>> /\ reply'[p] = "none"
      /\ \A q \in Publishers : q # p => batch'[q] = batch[q] /\ reply'[q] = reply[q]
  BY DEF Crash, Inv, TypeOK
<1>2. Holders(m)' = Holders(m) \ {p}
  BY <1>1 DEF Holders
<1>3. \A q \in Publishers : q # p => Item(q)' = Item(q)
  BY <1>1 DEF Item
<1>4. Open(m)' = {q \in Holders(m)' : ~(reply'[q] = "ok" /\ (Item(q)').msg = m)}
  BY DEF Open
<1>5. Holders(m) \subseteq Publishers
  BY DEF Holders
<1>6. QED BY <1>1, <1>2, <1>3, <1>4, <1>5 DEF Open

\* A claim adds p to the holders of what it claims.
LEMMA ClaimMoves ==
    ASSUME Inv, NEW p \in Publishers, Claim(p), NEW m \in Messages
    PROVE  \/ /\ Holders(m)' = Holders(m) /\ Open(m)' = Open(m)
              /\ UNCHANGED <<status[m], lease[m], excuses[m]>>
           \/ /\ m \in Claimable(p) /\ status'[m] = "processing" /\ lease'[m] = Lease
              /\ Holders(m) \subseteq Holders(m)' /\ Holders(m)' \subseteq Holders(m) \cup {p}
              /\ Open(m)' \subseteq Open(m) \cup {p} /\ (p \in Open(m)' => p \in Holders(m)')
              /\ excuses'[m] = IF /\ status[m] = "processing" /\ lease[m] = 0
                                 /\ Holders(m) # {}
                              THEN excuses[m] + 1 ELSE excuses[m]
<1>1. PICK S \in SUBSET Claimable(p) :
        /\ batch' \in {[batch EXCEPT ![p] = c] : c \in Batches(S)}
        /\ status' = [n \in Messages |-> IF n \in S THEN "processing" ELSE status[n]]
        /\ lease' = [n \in Messages |-> IF n \in S THEN Lease ELSE lease[n]]
        /\ excuses' = [n \in Messages |-> IF n \in S /\ status[n] = "processing"
                                             /\ lease[n] = 0 /\ Holders(n) # {}
                                          THEN excuses[n] + 1 ELSE excuses[n]]
  BY DEF Claim
<1>2. PICK b \in Batches(S) : batch' = [batch EXCEPT ![p] = b]
  BY <1>1
<1>3. S \in SUBSET Messages
  BY OutboxAssumption DEF Claimable
<1>4. Held(b) \subseteq S
  BY <1>3, BatchType DEF Inv
<1>5. /\ batch'[p] = b /\ batch[p] = <<>> /\ reply' = reply
      /\ \A q \in Publishers : q # p => batch'[q] = batch[q]
  BY <1>2 DEF Claim, Busy, Inv, TypeOK
<1>6. /\ Holders(m) = {q \in Publishers : m \in Held(batch[q])}
      /\ Holders(m)' = {q \in Publishers : m \in Held(batch'[q])}
  BY HoldersHold DEF Holders, Held
<1>7. Held(batch[p]) = {}
  BY <1>5 DEF Held
<1>8. /\ Holders(m) \subseteq Holders(m)' /\ Holders(m)' \subseteq Holders(m) \cup {p}
      /\ m \notin S => Holders(m)' = Holders(m)
      /\ p \notin Holders(m)
  BY <1>4, <1>5, <1>6, <1>7
<1>9. \A q \in Publishers : q # p => Item(q)' = Item(q)
  BY <1>5 DEF Item
<1>10. Open(m)' = {q \in Holders(m)' : ~(reply'[q] = "ok" /\ (Item(q)').msg = m)}
  BY DEF Open
<1>11. Holders(m) \subseteq Publishers
  BY DEF Holders
<1>12. /\ Open(m)' \subseteq Open(m) \cup {p} /\ (p \in Open(m)' => p \in Holders(m)')
       /\ m \notin S => Open(m)' = Open(m)
  BY <1>5, <1>8, <1>9, <1>10, <1>11 DEF Open
<1>13. QED BY <1>1, <1>8, <1>12

\* As long as batches and replies stay, so do holders.
LEMMA SameHolders ==
    ASSUME UNCHANGED batch, NEW m
    PROVE  Holders(m)' = Holders(m) /\ (UNCHANGED reply => Open(m)' = Open(m))
BY DEF Holders, Open, Item

\* A message that was taken will not be sent again from this batch.
LEMMA SendMoves ==
    ASSUME Inv, NEW p \in Publishers, NEW m,
           Busy(p), reply[p] = "none", UNCHANGED batch,
           NEW r \in {"ok", "error"}, reply' = [reply EXCEPT ![p] = r]
    PROVE  /\ Holders(m)' = Holders(m)
           /\ r = "error" \/ m # Item(p).msg => Open(m)' = Open(m)
           /\ r = "ok" /\ m = Item(p).msg => Open(m)' = Open(m) \ {p}
           /\ m = Item(p).msg => p \in Open(m)
<1>1. Holders(m)' = Holders(m) /\ \A q : Item(q)' = Item(q)
  BY DEF Holders, Item
<1>2. reply'[p] = r /\ \A q \in Publishers : q # p => reply'[q] = reply[q]
  BY DEF Inv, TypeOK
<1>3. Open(m)' = {q \in Holders(m)' : ~(reply'[q] = "ok" /\ (Item(q)').msg = m)}
  BY DEF Open
<1>4. Holders(m) \subseteq Publishers
  BY DEF Holders
<1>5. m = Item(p).msg => p \in Holders(m)
  BY HeadIsHeld
<1>6. QED BY <1>1, <1>2, <1>3, <1>4, <1>5 DEF Open

-----------------------------------------------------------------------------
(* Duplicates and holders.                                                 *)

\* A message that can be claimed, or whose publisher died, without an excuse.
Renewable(m) == \/ status[m] \in {"absent", "pending", "failed"}
                \/ status[m] = "processing" /\ Holders(m) = {}

\* A message that can be claimed without a further overrun.
Free(m) == \/ status[m] \in {"absent", "pending", "failed"}
           \/ status[m] = "processing" /\ (lease[m] = 0 \/ Holders(m) = {})

\* Deliveries, past, still open, and of the claim that is still to come.
DeliveriesAreCounted ==
    \A m \in Messages :
        delivered[m] + Cardinality(Open(m)) + (IF Renewable(m) THEN 1 ELSE 0) <= 1 + excuses[m]

\* Holders, present and of the claim that is still to come.
HoldersAreCounted ==
    \A m \in Messages :
        Cardinality(Holders(m)) + (IF Free(m) THEN 1 ELSE 0) <= 1 + faults["overrun"]

\* Holders are publishers.
LEMMA HoldersType ==
    \A m : /\ Holders(m) \in SUBSET Publishers /\ Holders(m)' \in SUBSET Publishers
           /\ Open(m) \in SUBSET Publishers /\ Open(m)' \in SUBSET Publishers
BY DEF Holders, Open

\* Nobody holds anything in the beginning.
LEMMA CountedInit == Init => DeliveriesAreCounted /\ HoldersAreCounted
<1> SUFFICES ASSUME Init, NEW m \in Messages
             PROVE  /\ delivered[m] + Cardinality(Open(m)) + (IF Renewable(m) THEN 1 ELSE 0) <= 1 + excuses[m]
                    /\ Cardinality(Holders(m)) + (IF Free(m) THEN 1 ELSE 0) <= 1 + faults["overrun"]
  BY DEF DeliveriesAreCounted, HoldersAreCounted
<1>1. Holders(m) = {} /\ Open(m) = {}
  BY DEF Init, Holders, Open
<1>2. Cardinality({}) = 0
  BY FS_EmptySet
<1>3. delivered[m] = 0 /\ excuses[m] = 0 /\ faults["overrun"] = 0
  BY DEF Init, FaultKinds
<1>4. QED BY <1>1, <1>2, <1>3

\* Every step keeps the count of deliveries.
LEMMA DeliveriesStep == Inv /\ DeliveriesAreCounted /\ [Next]_vars => DeliveriesAreCounted'
<1> SUFFICES ASSUME Inv, DeliveriesAreCounted, [Next]_vars, NEW m \in Messages
             PROVE  delivered'[m] + Cardinality(Open(m)') + (IF Renewable(m)' THEN 1 ELSE 0)
                        <= 1 + excuses'[m]
  BY DEF DeliveriesAreCounted
<1> DEFINE Kept == delivered'[m] + Cardinality(Open(m)') + (IF Renewable(m)' THEN 1 ELSE 0)
                       <= 1 + excuses'[m]
<1>1. /\ delivered[m] \in Nat /\ excuses[m] \in Nat
      /\ status[m] \in {"absent", "pending", "processing", "failed", "sent"}
  BY DEF Inv, TypeOK
<1>2. delivered[m] + Cardinality(Open(m)) + (IF Renewable(m) THEN 1 ELSE 0) <= 1 + excuses[m]
  BY DEF DeliveriesAreCounted
<1>3. \A p : /\ Cardinality(Open(m)) \in Nat /\ Cardinality(Open(m)') \in Nat
             /\ Open(m)' \subseteq Open(m) => Cardinality(Open(m)') <= Cardinality(Open(m))
             /\ Open(m)' \subseteq Open(m) \cup {p} => Cardinality(Open(m)') <= Cardinality(Open(m)) + 1
             /\ p \in Open(m) /\ Open(m)' \subseteq Open(m) \ {p}
                    => Cardinality(Open(m)') <= Cardinality(Open(m)) - 1
  BY HoldersType, SetCounts
<1>4. ASSUME NEW n \in Messages, Enqueue(n) PROVE Kept
  <2>1. Holders(m)' = Holders(m) /\ Open(m)' = Open(m) /\ UNCHANGED <<delivered, excuses>>
    BY <1>4, SameHolders DEF Enqueue
  <2>2. Renewable(m)' <=> Renewable(m)
    BY <1>4, <2>1 DEF Enqueue, Renewable, Inv, TypeOK
  <2>3. QED BY <1>1, <1>2, <2>1, <2>2
<1>5. ASSUME NEW p \in Publishers, Claim(p) PROVE Kept
  <2>1. UNCHANGED delivered
    BY <1>5 DEF Claim
  <2>2. CASE /\ Holders(m)' = Holders(m) /\ Open(m)' = Open(m)
             /\ UNCHANGED <<status[m], lease[m], excuses[m]>>
    <3>1. Renewable(m)' <=> Renewable(m)
      BY <2>2 DEF Renewable
    <3>2. QED BY <1>1, <1>2, <2>1, <2>2, <3>1
  <2>3. CASE /\ m \in Claimable(p) /\ status'[m] = "processing" /\ lease'[m] = Lease
             /\ Holders(m) \subseteq Holders(m)' /\ Holders(m)' \subseteq Holders(m) \cup {p}
             /\ Open(m)' \subseteq Open(m) \cup {p} /\ (p \in Open(m)' => p \in Holders(m)')
             /\ excuses'[m] = IF /\ status[m] = "processing" /\ lease[m] = 0
                                /\ Holders(m) # {}
                             THEN excuses[m] + 1 ELSE excuses[m]
    <3>1. Renewable(m)' <=> Holders(m)' = {}
      BY <2>3 DEF Renewable
    <3>2. \/ status[m] = "processing" /\ lease[m] = 0 /\ Holders(m) # {} /\ ~Renewable(m)
          \/ Renewable(m) /\ excuses'[m] = excuses[m]
      <4>1. \/ status[m] \in {"pending", "failed"}
            \/ status[m] = "processing" /\ lease[m] = 0
        BY <2>3 DEF Claimable
      <4>2. QED BY <2>3, <4>1 DEF Renewable
    <3>3. CASE Holders(m)' = {}
      <4>1. Open(m)' \subseteq Open(m)
        BY <2>3, <3>3
      <4>2. Holders(m) = {}
        BY <2>3, <3>3
      <4>3. QED BY <1>1, <1>2, <1>3, <2>1, <2>3, <3>2, <4>1, <4>2
    <3>4. CASE Holders(m)' # {}
      <4>1. Cardinality(Open(m)') <= Cardinality(Open(m)) + 1 /\ Cardinality(Open(m)') \in Nat
            /\ Cardinality(Open(m)) \in Nat
        BY <1>3, <2>3
      <4>2. CASE Renewable(m) /\ excuses'[m] = excuses[m]
        BY <1>1, <1>2, <2>1, <3>1, <3>4, <4>1, <4>2
      <4>3. CASE status[m] = "processing" /\ lease[m] = 0 /\ Holders(m) # {} /\ ~Renewable(m)
        <5>1. excuses'[m] = excuses[m] + 1
          BY <2>3, <4>3
        <5>2. QED BY <1>1, <1>2, <2>1, <3>1, <3>4, <4>1, <4>3, <5>1
      <4>4. QED BY <3>2, <4>2, <4>3
    <3>5. QED BY <3>3, <3>4
  <2>4. QED BY <1>5, <2>2, <2>3, ClaimMoves
<1>6. ASSUME NEW p \in Publishers, SendAccepted(p) \/ SendRejected(p) \/ SendAmbiguous(p) PROVE Kept
  <2>1. Busy(p) /\ reply[p] = "none" /\ UNCHANGED batch /\ UNCHANGED table
    BY <1>6 DEF SendAccepted, SendRejected, SendAmbiguous
  <2>2. Item(p).msg \in Messages
    BY <2>1, HeadIsHeld
  <2>3. Renewable(m)' <=> Renewable(m)
    BY <2>1, SameHolders DEF Renewable, table
  <2>4. CASE SendAccepted(p)
    <3>1. /\ reply' = [reply EXCEPT ![p] = "ok"] /\ UNCHANGED excuses
          /\ delivered'[m] = IF m = Item(p).msg THEN delivered[m] + 1 ELSE delivered[m]
      BY <2>4 DEF SendAccepted, Inv, TypeOK
    <3>2. /\ m = Item(p).msg => p \in Open(m) /\ Open(m)' = Open(m) \ {p}
          /\ m # Item(p).msg => Open(m)' = Open(m)
      BY <2>1, <3>1, SendMoves
    <3>3. CASE m = Item(p).msg
      <4>1. Cardinality(Open(m)') <= Cardinality(Open(m)) - 1
        BY <1>3, <3>2, <3>3
      <4>2. QED BY <1>1, <1>2, <1>3, <2>3, <3>1, <3>3, <4>1
    <3>4. CASE m # Item(p).msg
      BY <1>1, <1>2, <2>3, <3>1, <3>2, <3>4
    <3>5. QED BY <3>3, <3>4
  <2>5. CASE SendRejected(p)
    <3>1. reply' = [reply EXCEPT ![p] = "error"] /\ UNCHANGED <<excuses, delivered>>
      BY <2>5 DEF SendRejected
    <3>2. Open(m)' = Open(m)
      BY <2>1, <3>1, SendMoves
    <3>3. QED BY <1>1, <1>2, <2>3, <3>1, <3>2
  <2>6. CASE SendAmbiguous(p)
    <3>1. /\ reply' = [reply EXCEPT ![p] = "error"]
          /\ delivered'[m] = IF m = Item(p).msg THEN delivered[m] + 1 ELSE delivered[m]
          /\ excuses'[m] = IF m = Item(p).msg THEN excuses[m] + 1 ELSE excuses[m]
      BY <2>6 DEF SendAmbiguous, Inv, TypeOK
    <3>2. Open(m)' = Open(m)
      BY <2>1, <3>1, SendMoves
    <3>3. QED BY <1>1, <1>2, <1>3, <2>3, <3>1, <3>2
  <2>7. QED BY <1>6, <2>4, <2>5, <2>6
<1>7. ASSUME NEW p \in Publishers, MarkSent(p) PROVE Kept
  <2>1. Busy(p) /\ reply[p] = "ok" /\ NextItem(p) /\ UNCHANGED <<delivered, excuses>>
    BY <1>7 DEF MarkSent
  <2>2. Open(m)' = Open(m)
    <3>1. CASE m = Item(p).msg
      <4>1. p \notin Open(m)
        BY <2>1, <3>1 DEF Open
      <4>2. QED BY <2>1, <3>1, <4>1, NextItemMoves
    <3>2. CASE m # Item(p).msg
      BY <2>1, <3>2, NextItemMoves
    <3>3. QED BY <3>1, <3>2
  <2>3. Renewable(m)' => Renewable(m)
    <3>1. CASE m = Item(p).msg
      <4>1. status[m] = "processing" => status'[m] = "sent"
        BY <1>7, <3>1 DEF MarkSent, Inv, TypeOK
      <4>2. status[m] # "processing" => status'[m] = status[m]
        BY <1>7, <3>1 DEF MarkSent
      <4>3. QED BY <4>1, <4>2 DEF Renewable
    <3>2. CASE m # Item(p).msg
      <4>1. status'[m] = status[m] /\ Holders(m)' = Holders(m)
        BY <1>7, <2>1, <3>2, NextItemMoves DEF MarkSent, Inv, TypeOK
      <4>2. QED BY <4>1 DEF Renewable
    <3>3. QED BY <3>1, <3>2
  <2>4. QED BY <1>1, <1>2, <1>3, <2>1, <2>2, <2>3
<1>8. ASSUME NEW p \in Publishers, MarkFailed(p) PROVE Kept
  <2>1. Busy(p) /\ reply[p] = "error" /\ NextItem(p) /\ UNCHANGED <<delivered, excuses>>
    BY <1>8 DEF MarkFailed
  <2>2. CASE m = Item(p).msg
    <3>1. p \in Open(m)
      BY <2>1, <2>2, HeadIsHeld DEF Open
    <3>2. Cardinality(Open(m)') <= Cardinality(Open(m)) - 1
      BY <1>3, <2>1, <2>2, <3>1, NextItemMoves
    <3>3. QED BY <1>1, <1>2, <1>3, <2>1, <3>2
  <2>3. CASE m # Item(p).msg
    <3>1. Holders(m)' = Holders(m) /\ Open(m)' = Open(m) /\ status'[m] = status[m]
      BY <1>8, <2>1, <2>3, NextItemMoves DEF MarkFailed, Inv, TypeOK
    <3>2. Renewable(m)' <=> Renewable(m)
      BY <3>1 DEF Renewable
    <3>3. QED BY <1>1, <1>2, <2>1, <3>1, <3>2
  <2>4. QED BY <2>2, <2>3
<1>9. ASSUME NEW p \in Publishers, Crash(p) PROVE Kept
  <2>1. /\ Busy(p) /\ UNCHANGED <<status, delivered>>
        /\ Holders(m)' = Holders(m) \ {p} /\ Open(m)' = Open(m) \ {p}
    BY <1>9, CrashMoves DEF Crash, table
  <2>2. excuses'[m] = IF reply[p] = "ok" /\ m = Item(p).msg THEN excuses[m] + 1 ELSE excuses[m]
    BY <1>9 DEF Crash, Inv, TypeOK
  <2>7. delivered'[m] = delivered[m] /\ excuses'[m] \in Nat /\ excuses'[m] >= excuses[m]
    BY <1>1, <2>1, <2>2
  <2>3. CASE p \in Open(m)
    <3>1. Cardinality(Open(m)') <= Cardinality(Open(m)) - 1
      BY <1>3, <2>1, <2>3
    <3>2. QED BY <1>1, <1>2, <1>3, <2>7, <3>1
  <2>4. CASE p \in Holders(m) \ Open(m)
    <3>1. reply[p] = "ok" /\ m = Item(p).msg /\ Open(m)' = Open(m)
      BY <2>1, <2>4 DEF Open
    <3>2. excuses'[m] = excuses[m] + 1
      BY <2>2, <3>1
    <3>3. Cardinality(Open(m)') = Cardinality(Open(m)) /\ Cardinality(Open(m)) \in Nat
      BY <1>3, <3>1
    <3>4. QED BY <1>1, <1>2, <2>7, <3>2, <3>3
  <2>5. CASE p \notin Holders(m)
    <3>1. Holders(m)' = Holders(m) /\ Open(m)' = Open(m) /\ m # Item(p).msg
      BY <2>1, <2>5, HeadIsHeld DEF Open
    <3>2. Renewable(m)' <=> Renewable(m)
      BY <2>1, <3>1 DEF Renewable
    <3>3. QED BY <1>1, <1>2, <2>1, <2>2, <3>1, <3>2
  <2>6. QED BY <2>3, <2>4, <2>5
<1>10. CASE Tick \/ UNCHANGED vars
  <2>1. UNCHANGED <<status, batch, reply, delivered, excuses>>
    BY <1>10 DEF Tick, vars
  <2>2. Holders(m)' = Holders(m) /\ Open(m)' = Open(m)
    BY <2>1, SameHolders
  <2>3. Renewable(m)' <=> Renewable(m)
    BY <2>1, <2>2 DEF Renewable
  <2>4. QED BY <1>1, <1>2, <2>1, <2>2, <2>3
<1>11. QED BY <1>4, <1>5, <1>6, <1>7, <1>8, <1>9, <1>10 DEF Next, Publish

\* Every step keeps the count of holders.
LEMMA HoldersStep == Inv /\ HoldersAreCounted /\ [Next]_vars => HoldersAreCounted'
<1> SUFFICES ASSUME Inv, HoldersAreCounted, [Next]_vars, NEW m \in Messages
             PROVE  Cardinality(Holders(m)') + (IF Free(m)' THEN 1 ELSE 0) <= 1 + faults'["overrun"]
  BY DEF HoldersAreCounted
<1> DEFINE Kept ==
        Cardinality(Holders(m)') + (IF Free(m)' THEN 1 ELSE 0) <= 1 + faults'["overrun"]
<1>1. /\ faults["overrun"] \in Nat /\ lease[m] \in 0 .. Lease
      /\ status[m] \in {"absent", "pending", "processing", "failed", "sent"}
  BY DEF Inv, TypeOK, FaultKinds
<1>2. Cardinality(Holders(m)) + (IF Free(m) THEN 1 ELSE 0) <= 1 + faults["overrun"]
  BY DEF HoldersAreCounted
<1>3. \A p : /\ Cardinality(Holders(m)) \in Nat /\ Cardinality(Holders(m)') \in Nat
             /\ Holders(m)' \subseteq Holders(m) => Cardinality(Holders(m)') <= Cardinality(Holders(m))
             /\ Holders(m)' \subseteq Holders(m) \cup {p}
                    => Cardinality(Holders(m)') <= Cardinality(Holders(m)) + 1
             /\ p \in Holders(m) /\ Holders(m)' \subseteq Holders(m) \ {p}
                    => Cardinality(Holders(m)') <= Cardinality(Holders(m)) - 1
  BY HoldersType, SetCounts
\* A holder is gone.
<1>4. ASSUME NEW p \in Holders(m), Holders(m)' = Holders(m) \ {p}, UNCHANGED faults["overrun"]
      PROVE  Kept
  <2>1. Cardinality(Holders(m)') <= Cardinality(Holders(m)) - 1
    BY <1>3, <1>4
  <2>2. /\ faults'["overrun"] = faults["overrun"]
        /\ Cardinality(Holders(m)) \in Nat /\ Cardinality(Holders(m)') \in Nat
    BY <1>3, <1>4
  <2>3. QED BY <1>1, <1>2, <2>1, <2>2
\* The holders stay, and what was not free is not made free.
<1>5. ASSUME Holders(m)' = Holders(m), Free(m)' => Free(m), UNCHANGED faults["overrun"]
      PROVE  Kept
  <2>1. Cardinality(Holders(m)') = Cardinality(Holders(m)) /\ Cardinality(Holders(m)) \in Nat
    BY <1>3, <1>5
  <2>2. QED BY <1>1, <1>2, <1>5, <2>1
<1>6. ASSUME NEW n \in Messages, Enqueue(n) PROVE Kept
  <2>1. Holders(m)' = Holders(m) /\ UNCHANGED <<faults, lease>>
    BY <1>6, SameHolders DEF Enqueue
  <2>2. Free(m)' <=> Free(m)
    BY <1>6, <2>1 DEF Enqueue, Free, Inv, TypeOK
  <2>3. QED BY <1>5, <2>1, <2>2
<1>7. ASSUME NEW p \in Publishers, Claim(p) PROVE Kept
  <2>1. UNCHANGED faults
    BY <1>7 DEF Claim
  <2>2. CASE Holders(m)' = Holders(m) /\ UNCHANGED <<status[m], lease[m]>>
    BY <1>5, <2>1, <2>2 DEF Free
  <2>3. CASE /\ m \in Claimable(p) /\ status'[m] = "processing" /\ lease'[m] = Lease
             /\ Holders(m) \subseteq Holders(m)' /\ Holders(m)' \subseteq Holders(m) \cup {p}
    <3>1. Free(m)
      BY <2>3 DEF Claimable, Free
    <3>2. Free(m)' <=> Holders(m)' = {}
      BY <2>3, OutboxAssumption DEF Free
    <3>3. CASE Holders(m)' = {}
      BY <1>5, <2>1, <2>3, <3>1, <3>3
    <3>4. CASE Holders(m)' # {}
      <4>1. Cardinality(Holders(m)') <= Cardinality(Holders(m)) + 1
            /\ Cardinality(Holders(m)') \in Nat /\ Cardinality(Holders(m)) \in Nat
        BY <1>3, <2>3
      <4>2. QED BY <1>1, <1>2, <2>1, <3>1, <3>2, <3>4, <4>1
    <3>5. QED BY <3>3, <3>4
  <2>4. QED BY <1>7, <2>2, <2>3, ClaimMoves
<1>8. ASSUME NEW p \in Publishers, SendAccepted(p) \/ SendRejected(p) \/ SendAmbiguous(p) PROVE Kept
  <2>1. UNCHANGED <<batch, table>>
    BY <1>8 DEF SendAccepted, SendRejected, SendAmbiguous
  <2>2. UNCHANGED faults["overrun"]
    BY <1>8 DEF SendAccepted, SendRejected, SendAmbiguous, Count, Inv, TypeOK, FaultKinds
  <2>3. Holders(m)' = Holders(m) /\ (Free(m)' <=> Free(m))
    BY <2>1, SameHolders DEF Free, table
  <2>4. QED BY <1>5, <2>2, <2>3
<1>9. ASSUME NEW p \in Publishers, MarkSent(p) \/ MarkFailed(p) PROVE Kept
  <2>1. Busy(p) /\ NextItem(p) /\ UNCHANGED faults
    BY <1>9 DEF MarkSent, MarkFailed
  <2>2. CASE m = Item(p).msg
    BY <1>4, <2>1, <2>2, HeadIsHeld, NextItemMoves
  <2>3. CASE m # Item(p).msg
    <3>1. Holders(m)' = Holders(m) /\ status'[m] = status[m] /\ lease'[m] = lease[m]
      BY <1>9, <2>1, <2>3, NextItemMoves DEF MarkSent, MarkFailed, Inv, TypeOK
    <3>2. QED BY <1>5, <2>1, <3>1 DEF Free
  <2>4. QED BY <2>2, <2>3
<1>10. ASSUME NEW p \in Publishers, Crash(p) PROVE Kept
  <2>1. UNCHANGED table /\ Holders(m)' = Holders(m) \ {p}
    BY <1>10, CrashMoves DEF Crash
  <2>2. UNCHANGED faults["overrun"]
    BY <1>10 DEF Crash, Count, Inv, TypeOK, FaultKinds
  <2>3. CASE p \in Holders(m)
    BY <1>4, <2>1, <2>2, <2>3
  <2>4. CASE p \notin Holders(m)
    <3>1. Holders(m)' = Holders(m)
      BY <2>1, <2>4
    <3>2. QED BY <1>5, <2>1, <2>2, <3>1 DEF Free, table
  <2>5. QED BY <2>3, <2>4
<1>11. CASE Tick
  <2>1. UNCHANGED <<status, batch>> /\ Holders(m)' = Holders(m)
    BY <1>11, SameHolders DEF Tick
  <2>2. lease'[m] = Greatest(lease[m] - 1, 0)
    BY <1>11 DEF Tick
  <2>3. CASE m \in Overruns
    <3>1. faults'["overrun"] = faults["overrun"] + 1
      BY <1>11, <2>3 DEF Tick, Count, Inv, TypeOK, FaultKinds
    <3>2. Cardinality(Holders(m)') = Cardinality(Holders(m)) /\ Cardinality(Holders(m)) \in Nat
      BY <1>3, <2>1
    <3>3. QED BY <1>1, <1>2, <3>1, <3>2
  <2>4. CASE m \notin Overruns
    <3>1. Free(m)' => Free(m)
      <4>1. lease'[m] = 0 => lease[m] \in {0, 1}
        BY <1>1, <2>2, OutboxAssumption DEF Greatest
      <4>2. QED BY <2>1, <2>4, <4>1 DEF Free, Overruns
    <3>2. faults'["overrun"] \in {faults["overrun"], faults["overrun"] + 1}
      BY <1>11 DEF Tick, Count, Inv, TypeOK, FaultKinds
    <3>3. Cardinality(Holders(m)') = Cardinality(Holders(m)) /\ Cardinality(Holders(m)) \in Nat
      BY <1>3, <2>1
    <3>4. QED BY <1>1, <1>2, <3>1, <3>2, <3>3
  <2>5. QED BY <2>3, <2>4
<1>12. CASE UNCHANGED vars
  <2>1. Holders(m)' = Holders(m) /\ UNCHANGED <<status, lease, faults>>
    BY <1>12, SameHolders DEF vars
  <2>2. QED BY <1>5, <2>1 DEF Free
<1>13. QED BY <1>6, <1>7, <1>8, <1>9, <1>10, <1>11, <1>12 DEF Next, Publish

\* Contract clause 25, for any number of messages, publishers, failures and for any
\* retry delays: the chat sees a message more often than once only as often as an
\* answer was lost, a publisher died before it recorded one, or a message was claimed
\* from a publisher that was still sending.
THEOREM DuplicatesExcused == Spec => []DuplicatesAreExcused
<1>1. Spec => []DeliveriesAreCounted
  BY CountedInit, InvHolds, DeliveriesStep, PTL DEF Spec
<1>2. Inv /\ DeliveriesAreCounted => DuplicatesAreExcused
  <2> SUFFICES ASSUME Inv, DeliveriesAreCounted, NEW m \in Messages
               PROVE  delivered[m] <= 1 + excuses[m]
    BY DEF DuplicatesAreExcused
  <2>1. delivered[m] + Cardinality(Open(m)) + (IF Renewable(m) THEN 1 ELSE 0) <= 1 + excuses[m]
    BY DEF DeliveriesAreCounted
  <2>2. Cardinality(Open(m)) \in Nat
    BY HoldersType, SetCounts
  <2>3. delivered[m] \in Nat /\ excuses[m] \in Nat
    BY DEF Inv, TypeOK
  <2>4. QED BY <2>1, <2>2, <2>3
<1>3. QED BY <1>1, <1>2, InvHolds, PTL

\* A message is in the hands of at most one publisher more than there were overruns,
\* although the statements that record outcomes do not name the claim they settle.
THEOREM HoldersExcused == Spec => []HoldersAreExcused
<1>1. Spec => []HoldersAreCounted
  BY CountedInit, InvHolds, HoldersStep, PTL DEF Spec
<1>2. Inv /\ HoldersAreCounted => HoldersAreExcused
  <2> SUFFICES ASSUME Inv, HoldersAreCounted, NEW m \in Messages
               PROVE  Cardinality(Holders(m)) <= 1 + faults["overrun"]
    BY DEF HoldersAreExcused
  <2>1. Cardinality(Holders(m)) + (IF Free(m) THEN 1 ELSE 0) <= 1 + faults["overrun"]
    BY DEF HoldersAreCounted
  <2>2. Cardinality(Holders(m)) \in Nat
    BY HoldersType, SetCounts
  <2>3. faults["overrun"] \in Nat
    BY DEF Inv, TypeOK, FaultKinds
  <2>4. QED BY <2>1, <2>2, <2>3
<1>3. QED BY <1>1, <1>2, InvHolds, PTL

-----------------------------------------------------------------------------
(* What a duplicate costs.                                                 *)

\* The faults after which the chat may see a message again.
Disturbances == faults["crash"] + faults["ambiguous"] + faults["overrun"]

\* A claim of m that is now possible would be excused.
Overdue(m) == status[m] = "processing" /\ lease[m] = 0 /\ Holders(m) # {}

\* No fault excuses two events of one message, nor one that already happened.
ExcusesAreFaults ==
    \A m \in Messages : excuses[m] + (IF Overdue(m) THEN 1 ELSE 0) <= Disturbances

\* A message that is not overdue does not become so but by an overrun; a message that
\* is claimed is not overdue.
LEMMA ExcusesStep == Inv /\ ExcusesAreFaults /\ [Next]_vars => ExcusesAreFaults'
<1> SUFFICES ASSUME Inv, ExcusesAreFaults, [Next]_vars, NEW m \in Messages
             PROVE  excuses'[m] + (IF Overdue(m)' THEN 1 ELSE 0) <= Disturbances'
  BY DEF ExcusesAreFaults
<1> DEFINE Kept == excuses'[m] + (IF Overdue(m)' THEN 1 ELSE 0) <= Disturbances'
<1>1. /\ faults["crash"] \in Nat /\ faults["ambiguous"] \in Nat /\ faults["overrun"] \in Nat
      /\ lease[m] \in 0 .. Lease /\ excuses[m] \in Nat
  BY DEF Inv, TypeOK, FaultKinds
<1>2. Disturbances \in Nat /\ excuses[m] + (IF Overdue(m) THEN 1 ELSE 0) <= Disturbances
  BY <1>1 DEF ExcusesAreFaults, Disturbances
\* Nothing that counts happens.
<1>3. ASSUME excuses'[m] = excuses[m], Overdue(m)' => Overdue(m),
             Disturbances' \in {Disturbances, Disturbances + 1}
      PROVE  Kept
  BY <1>1, <1>2, <1>3
\* A fault, and what it excuses.
<1>4. ASSUME excuses'[m] \in {excuses[m], excuses[m] + 1}, Overdue(m)' => Overdue(m),
             Disturbances' = Disturbances + 1
      PROVE  Kept
  BY <1>1, <1>2, <1>4
<1>5. ASSUME NEW n \in Messages, Enqueue(n) PROVE Kept
  <2>1. Holders(m)' = Holders(m) /\ UNCHANGED <<faults, lease, excuses>>
    BY <1>5, SameHolders DEF Enqueue
  <2>2. Overdue(m)' => Overdue(m)
    BY <1>5, <2>1 DEF Enqueue, Overdue, Inv, TypeOK
  <2>3. QED BY <1>3, <2>1, <2>2 DEF Disturbances
<1>6. ASSUME NEW p \in Publishers, Claim(p) PROVE Kept
  <2>1. UNCHANGED faults
    BY <1>6 DEF Claim
  <2>2. CASE Holders(m)' = Holders(m) /\ UNCHANGED <<status[m], lease[m], excuses[m]>>
    <3>1. Overdue(m)' => Overdue(m)
      BY <2>2 DEF Overdue
    <3>2. QED BY <1>3, <2>1, <2>2, <3>1 DEF Disturbances
  <2>3. CASE /\ lease'[m] = Lease
             /\ excuses'[m] = IF /\ status[m] = "processing" /\ lease[m] = 0
                                 /\ Holders(m) # {}
                              THEN excuses[m] + 1 ELSE excuses[m]
    <3>1. ~Overdue(m)'
      BY <2>3, OutboxAssumption DEF Overdue
    <3>2. excuses'[m] = excuses[m] + (IF Overdue(m) THEN 1 ELSE 0)
      BY <1>1, <2>3 DEF Overdue
    <3>3. Disturbances' = Disturbances
      BY <2>1 DEF Disturbances
    <3>4. QED BY <1>1, <1>2, <3>1, <3>2, <3>3
  <2>4. QED BY <1>6, <2>2, <2>3, ClaimMoves
<1>7. ASSUME NEW p \in Publishers, SendAccepted(p) \/ SendRejected(p) PROVE Kept
  <2>1. UNCHANGED <<batch, table, excuses>>
    BY <1>7 DEF SendAccepted, SendRejected
  <2>2. Overdue(m)' => Overdue(m)
    BY <2>1, SameHolders DEF Overdue, table
  <2>3. Disturbances' = Disturbances
    BY <1>7 DEF SendAccepted, SendRejected, Count, Disturbances, Inv, TypeOK, FaultKinds
  <2>4. QED BY <1>3, <2>1, <2>2, <2>3
<1>8. ASSUME NEW p \in Publishers, SendAmbiguous(p) PROVE Kept
  <2>1. UNCHANGED <<batch, table>>
    BY <1>8 DEF SendAmbiguous
  <2>2. Overdue(m)' => Overdue(m)
    BY <2>1, SameHolders DEF Overdue, table
  <2>3. Disturbances' = Disturbances + 1
    BY <1>1, <1>8 DEF SendAmbiguous, Count, Disturbances, Inv, TypeOK, FaultKinds
  <2>4. excuses'[m] \in {excuses[m], excuses[m] + 1}
    BY <1>8 DEF SendAmbiguous, Inv, TypeOK
  <2>5. QED BY <1>4, <2>2, <2>3, <2>4
<1>9. ASSUME NEW p \in Publishers, MarkSent(p) \/ MarkFailed(p) PROVE Kept
  <2>1. Busy(p) /\ NextItem(p) /\ UNCHANGED <<faults, excuses>>
    BY <1>9 DEF MarkSent, MarkFailed
  <2>2. Overdue(m)' => Overdue(m)
    <3>1. CASE m = Item(p).msg
      <4>1. status'[m] # "processing"
        BY <1>9, <3>1 DEF MarkSent, MarkFailed, Inv, TypeOK
      <4>2. QED BY <4>1 DEF Overdue
    <3>2. CASE m # Item(p).msg
      <4>1. Holders(m)' = Holders(m) /\ status'[m] = status[m] /\ lease'[m] = lease[m]
        BY <1>9, <2>1, <3>2, NextItemMoves DEF MarkSent, MarkFailed, Inv, TypeOK
      <4>2. QED BY <4>1 DEF Overdue
    <3>3. QED BY <3>1, <3>2
  <2>3. QED BY <1>3, <2>1, <2>2 DEF Disturbances
<1>10. ASSUME NEW p \in Publishers, Crash(p) PROVE Kept
  <2>1. UNCHANGED table /\ Holders(m)' = Holders(m) \ {p}
    BY <1>10, CrashMoves DEF Crash
  <2>2. Overdue(m)' => Overdue(m)
    BY <2>1 DEF Overdue, table
  <2>3. Disturbances' = Disturbances + 1
    BY <1>1, <1>10 DEF Crash, Count, Disturbances, Inv, TypeOK, FaultKinds
  <2>4. excuses'[m] \in {excuses[m], excuses[m] + 1}
    BY <1>10 DEF Crash, Inv, TypeOK
  <2>5. QED BY <1>4, <2>2, <2>3, <2>4
<1>11. CASE Tick
  <2>1. UNCHANGED <<status, batch, excuses>> /\ Holders(m)' = Holders(m)
    BY <1>11, SameHolders DEF Tick
  <2>2. lease'[m] = Greatest(lease[m] - 1, 0)
    BY <1>11 DEF Tick
  <2>3. CASE m \in Overruns
    <3>1. faults' = [faults EXCEPT !["overrun"] = @ + 1]
      BY <1>11, <2>3 DEF Tick, Count
    <3>2. Disturbances' = Disturbances + 1
      BY <1>1, <3>1 DEF Disturbances, Inv, TypeOK, FaultKinds
    <3>3. ~Overdue(m)
      BY <2>3 DEF Overruns, Overdue
    <3>4. QED BY <1>1, <1>2, <2>1, <3>2, <3>3
  <2>4. CASE m \notin Overruns
    <3>1. lease'[m] = 0 => lease[m] \in {0, 1}
      BY <1>1, <2>2, OutboxAssumption DEF Greatest
    <3>2. Overdue(m)' => Overdue(m)
      BY <2>1, <2>4, <3>1 DEF Overdue, Overruns
    <3>3. faults' = faults \/ faults' = [faults EXCEPT !["overrun"] = @ + 1]
      BY <1>11 DEF Tick, Count
    <3>4. Disturbances' \in {Disturbances, Disturbances + 1}
      BY <1>1, <3>3 DEF Disturbances, Inv, TypeOK, FaultKinds
    <3>5. QED BY <1>3, <2>1, <3>2, <3>4
  <2>5. QED BY <2>3, <2>4
<1>12. CASE UNCHANGED vars
  <2>1. Holders(m)' = Holders(m) /\ UNCHANGED <<status, lease, excuses, faults>>
    BY <1>12, SameHolders DEF vars
  <2>2. Overdue(m)' => Overdue(m)
    BY <2>1 DEF Overdue
  <2>3. QED BY <1>3, <2>1, <2>2 DEF Disturbances
<1>13. QED BY <1>5, <1>6, <1>7, <1>8, <1>9, <1>10, <1>11, <1>12 DEF Next, Publish

LEMMA ExcusesHold == Spec => []ExcusesAreFaults
<1>1. Init => ExcusesAreFaults
  BY DEF Init, ExcusesAreFaults, Disturbances, Overdue, FaultKinds
<1>2. QED BY <1>1, InvHolds, ExcusesStep, PTL DEF Spec

\* Every delivery of a message after its first needs a crash, a lost answer or an
\* overrun of its own: rejections, retries, several publishers and restarts alone
\* never repeat a message.
THEOREM DuplicatesCostFaults ==
    Spec => [](\A m \in Messages : delivered[m] <= 1 + Disturbances)
<1>1. Inv /\ DuplicatesAreExcused /\ ExcusesAreFaults
      => \A m \in Messages : delivered[m] <= 1 + Disturbances
  <2> SUFFICES ASSUME Inv, DuplicatesAreExcused, ExcusesAreFaults, NEW m \in Messages
               PROVE  delivered[m] <= 1 + Disturbances
    OBVIOUS
  <2>1. delivered[m] \in Nat /\ excuses[m] \in Nat
    BY DEF Inv, TypeOK
  <2>2. delivered[m] <= 1 + excuses[m]
    BY DEF DuplicatesAreExcused
  <2>3. excuses[m] + (IF Overdue(m) THEN 1 ELSE 0) <= Disturbances
    BY DEF ExcusesAreFaults
  <2>4. Disturbances \in Nat
    BY DEF Disturbances, Inv, TypeOK, FaultKinds
  <2>5. QED BY <2>1, <2>2, <2>3, <2>4
<1>2. QED BY <1>1, InvHolds, DuplicatesExcused, ExcusesHold, PTL

\* docs/setup/operations.md: until the first of these faults nothing is sent twice,
\* however many publishers there are and however often Telegram rejects a message.
THEOREM NothingSentTwice == Spec => [](Disturbances = 0 => NoResend)
<1>1. (\A m \in Messages : delivered[m] <= 1 + Disturbances)
      => (Disturbances = 0 => NoResend)
  BY DEF NoResend
<1>2. QED BY <1>1, DuplicatesCostFaults, PTL

-----------------------------------------------------------------------------
(* The refinement.                                                         *)

\* What is held was put in; what Telegram acknowledged was delivered.
HeldAreWanted == \A m \in Messages : Holders(m) # {} => status[m] # "absent"
AcknowledgedAreDelivered ==
    \A p \in Publishers : reply[p] = "ok" => delivered[Item(p).msg] > 0

PromiseInv == HeldAreWanted /\ AcknowledgedAreDelivered

\* What the steps of a publisher do to the status of a message and to its deliveries.
LEMMA StatusMoves ==
    ASSUME Inv, [Next]_vars, NEW m \in Messages
    PROVE  /\ status[m] # "absent" => status'[m] # "absent"
           /\ delivered'[m] \in Nat /\ delivered'[m] >= delivered[m]
<1>1. status[m] # "absent" => status'[m] # "absent"
  <2>1. \A n \in Messages : Enqueue(n) => (status[m] # "absent" => status'[m] # "absent")
    BY DEF Enqueue, Inv, TypeOK
  <2>2. \A p \in Publishers : Claim(p) => (status[m] # "absent" => status'[m] # "absent")
    BY DEF Claim
  <2>3. \A p \in Publishers : MarkSent(p) \/ MarkFailed(p)
                                => (status[m] # "absent" => status'[m] # "absent")
    BY DEF MarkSent, MarkFailed, Inv, TypeOK
  <2>4. \A p \in Publishers : SendAccepted(p) \/ SendRejected(p) \/ SendAmbiguous(p) \/ Crash(p)
                                => UNCHANGED status
    BY DEF SendAccepted, SendRejected, SendAmbiguous, Crash, table
  <2>5. Tick \/ UNCHANGED vars => UNCHANGED status
    BY DEF Tick, vars
  <2>6. QED BY <2>1, <2>2, <2>3, <2>4, <2>5 DEF Next, Publish
<1>2. delivered'[m] \in Nat /\ delivered'[m] >= delivered[m]
  <2>1. delivered[m] \in Nat
    BY DEF Inv, TypeOK
  <2>2. \A p \in Publishers : SendAccepted(p) \/ SendAmbiguous(p)
            => delivered'[m] \in {delivered[m], delivered[m] + 1}
    BY DEF SendAccepted, SendAmbiguous, Inv, TypeOK
  <2>3. \/ \E p \in Publishers : SendAccepted(p) \/ SendAmbiguous(p)
        \/ UNCHANGED delivered
    BY DEF Next, Publish, Enqueue, Claim, SendRejected, MarkSent, MarkFailed, Crash, Tick, vars
  <2>4. QED BY <2>1, <2>2, <2>3
<1>3. QED BY <1>1, <1>2

\* Every step preserves both.
LEMMA PromiseStep == Inv /\ PromiseInv /\ [Next]_vars => PromiseInv'
<1> SUFFICES ASSUME Inv, PromiseInv, [Next]_vars PROVE PromiseInv'
  OBVIOUS
<1>1. ASSUME NEW m \in Messages, Holders(m)' # {} PROVE status'[m] # "absent"
  <2>1. CASE Holders(m) # {}
    BY <2>1, StatusMoves DEF PromiseInv, HeldAreWanted
  <2>2. CASE Holders(m) = {}
    <3>1. PICK p \in Publishers : Claim(p)
      <4>1. \A p \in Publishers : MarkSent(p) \/ MarkFailed(p) => Holders(m)' \subseteq Holders(m)
        BY NextItemMoves DEF MarkSent, MarkFailed
      <4>2. \A p \in Publishers : Crash(p) => Holders(m)' \subseteq Holders(m)
        BY CrashMoves
      <4>3. \/ \E p \in Publishers : Claim(p) \/ MarkSent(p) \/ MarkFailed(p) \/ Crash(p)
            \/ UNCHANGED batch
        BY DEF Next, Publish, Enqueue, SendAccepted, SendRejected, SendAmbiguous, Tick, vars
      <4>4. QED BY <1>1, <2>2, <4>1, <4>2, <4>3, SameHolders
    <3>2. QED BY <1>1, <2>2, <3>1, ClaimMoves
  <2>3. QED BY <2>1, <2>2
<1>2. ASSUME NEW p \in Publishers, reply'[p] = "ok" PROVE delivered'[(Item(p)').msg] > 0
  <2>1. CASE reply[p] = "ok" /\ batch'[p] = batch[p]
    <3>1. Item(p)' = Item(p) /\ Item(p).msg \in Messages
      BY <2>1, HeadIsHeld DEF Item, Inv, RepliesAreToHeads
    <3>2. delivered[Item(p).msg] > 0 /\ delivered[Item(p).msg] \in Nat
      BY <2>1, <3>1 DEF PromiseInv, AcknowledgedAreDelivered, Inv, TypeOK
    <3>3. delivered'[Item(p).msg] >= delivered[Item(p).msg] /\ delivered'[Item(p).msg] \in Nat
      BY <3>1, StatusMoves
    <3>4. QED BY <3>1, <3>2, <3>3
  <2>2. CASE SendAccepted(p)
    <3>1. Item(p)' = Item(p) /\ Item(p).msg \in Messages
      BY <2>2, HeadIsHeld DEF SendAccepted, Item
    <3>2. delivered'[Item(p).msg] = delivered[Item(p).msg] + 1 /\ delivered[Item(p).msg] \in Nat
      BY <2>2, <3>1 DEF SendAccepted, Inv, TypeOK
    <3>3. QED BY <3>1, <3>2
  <2>3. (reply[p] = "ok" /\ batch'[p] = batch[p]) \/ SendAccepted(p)
    <3>1. ASSUME NEW q \in Publishers, Claim(q) PROVE reply[p] = "ok" /\ batch'[p] = batch[p]
      <4>1. reply' = reply /\ ~Busy(q)
        BY <3>1 DEF Claim
      <4>2. p # q
        BY <1>2, <4>1 DEF Inv, RepliesAreToHeads
      <4>3. PICK b : batch' = [batch EXCEPT ![q] = b]
        BY <3>1 DEF Claim
      <4>4. QED BY <1>2, <4>1, <4>2, <4>3 DEF Inv, TypeOK
    <3>2. ASSUME NEW q \in Publishers, MarkSent(q) \/ MarkFailed(q) \/ Crash(q)
          PROVE  reply[p] = "ok" /\ batch'[p] = batch[p]
      BY <1>2, <3>2 DEF MarkSent, MarkFailed, NextItem, Crash, Inv, TypeOK
    <3>3. ASSUME NEW q \in Publishers, SendAccepted(q) \/ SendRejected(q) \/ SendAmbiguous(q)
          PROVE  (reply[p] = "ok" /\ batch'[p] = batch[p]) \/ SendAccepted(p)
      <4>1. CASE p = q
        BY <1>2, <3>3, <4>1 DEF SendAccepted, SendRejected, SendAmbiguous, Inv, TypeOK
      <4>2. CASE p # q
        BY <1>2, <3>3, <4>2 DEF SendAccepted, SendRejected, SendAmbiguous, Inv, TypeOK
      <4>3. QED BY <4>1, <4>2
    <3>4. ASSUME (\E m \in Messages : Enqueue(m)) \/ Tick \/ UNCHANGED vars
          PROVE  reply[p] = "ok" /\ batch'[p] = batch[p]
      BY <1>2, <3>4 DEF Enqueue, Tick, vars
    <3>5. QED BY <3>1, <3>2, <3>3, <3>4 DEF Next, Publish
  <2>4. QED BY <2>1, <2>2, <2>3
<1>3. QED BY <1>1, <1>2 DEF PromiseInv, HeldAreWanted, AcknowledgedAreDelivered

\* The messages that were put in, and those that are recorded as sent.
Wanted == {m \in Messages : status[m] # "absent"}
Closed == {m \in Messages : status[m] = "sent"}

\* A step of the outbox is a step of the abstract one or none.
LEMMA PromiseSimulation ==
    Inv /\ PromiseInv /\ [Next]_vars => [Promise!Next]_<<Wanted, Closed, delivered>>
<1> SUFFICES ASSUME Inv, PromiseInv, [Next]_vars
             PROVE  Promise!Next \/ UNCHANGED <<Wanted, Closed, delivered>>
  OBVIOUS
<1>0. status \in [Messages -> {"absent", "pending", "processing", "failed", "sent"}]
  BY DEF Inv, TypeOK
<1>1. ASSUME NEW m \in Messages, Enqueue(m) PROVE Promise!Want(m)
  <2>1. /\ status[m] = "absent" /\ status' = [status EXCEPT ![m] = "pending"]
        /\ UNCHANGED delivered
    BY <1>1 DEF Enqueue
  <2>2. Wanted' = Wanted \cup {m} /\ Closed' = Closed /\ m \notin Wanted
    BY <1>0, <2>1 DEF Wanted, Closed
  <2>3. QED BY <2>1, <2>2 DEF Promise!Want, Wanted, Closed
<1>2. ASSUME NEW p \in Publishers, SendAccepted(p) \/ SendAmbiguous(p)
      PROVE  Promise!Next
  <2>1. Busy(p) /\ UNCHANGED table /\ delivered' = [delivered EXCEPT ![Item(p).msg] = @ + 1]
    BY <1>2 DEF SendAccepted, SendAmbiguous
  <2>2. Item(p).msg \in Messages /\ status[Item(p).msg] # "absent"
    BY <2>1, HeadIsHeld DEF PromiseInv, HeldAreWanted
  <2>3. UNCHANGED <<Wanted, Closed>>
    BY <2>1 DEF Wanted, Closed, table
  <2>4. Promise!Deliver(Item(p).msg)
    BY <2>1, <2>2, <2>3 DEF Promise!Deliver, Wanted, Closed
  <2>5. QED BY <2>2, <2>4 DEF Promise!Next
<1>3. ASSUME NEW p \in Publishers, MarkSent(p)
      PROVE  Promise!Next \/ UNCHANGED <<Wanted, Closed, delivered>>
  <2>1. Busy(p) /\ reply[p] = "ok" /\ UNCHANGED delivered
    BY <1>3 DEF MarkSent
  <2>2. PICK m \in Messages : m = Item(p).msg /\ delivered[m] > 0
    BY <2>1, HeadIsHeld DEF PromiseInv, AcknowledgedAreDelivered
  <2>3. CASE status[m] = "processing"
    <3>1. status' = [status EXCEPT ![m] = "sent"]
      BY <1>3, <2>2, <2>3 DEF MarkSent
    <3>2. Wanted' = Wanted /\ Closed' = Closed \cup {m} /\ m \in Wanted \ Closed
      BY <1>0, <2>2, <2>3, <3>1 DEF Wanted, Closed
    <3>3. Promise!Close(m)
      BY <2>1, <2>2, <3>2 DEF Promise!Close, Wanted, Closed
    <3>4. QED BY <3>3 DEF Promise!Next
  <2>4. CASE status[m] # "processing"
    BY <1>3, <2>1, <2>2, <2>4 DEF MarkSent, Wanted, Closed
  <2>5. QED BY <2>3, <2>4
<1>4. ASSUME NEW p \in Publishers, MarkFailed(p) PROVE UNCHANGED <<Wanted, Closed, delivered>>
  <2>1. UNCHANGED delivered
    BY <1>4 DEF MarkFailed
  <2>2. \A m \in Messages : \/ status'[m] = status[m]
                            \/ status[m] = "processing" /\ status'[m] = "failed"
    BY <1>0, <1>4 DEF MarkFailed
  <2>3. QED BY <2>1, <2>2 DEF Wanted, Closed
<1>5. ASSUME NEW p \in Publishers, Claim(p) PROVE UNCHANGED <<Wanted, Closed, delivered>>
  <2>1. UNCHANGED delivered
    BY <1>5 DEF Claim
  <2>2. \A m \in Messages : \/ status'[m] = status[m]
                            \/ status[m] \in {"pending", "failed", "processing"} /\ status'[m] = "processing"
    <3>1. PICK S \in SUBSET Claimable(p) :
            status' = [m \in Messages |-> IF m \in S THEN "processing" ELSE status[m]]
      BY <1>5 DEF Claim
    <3>2. QED BY <3>1 DEF Claimable
  <2>3. QED BY <2>1, <2>2 DEF Wanted, Closed
<1>6. ASSUME (\E p \in Publishers : SendRejected(p) \/ Crash(p)) \/ Tick \/ UNCHANGED vars
      PROVE  UNCHANGED <<Wanted, Closed, delivered>>
  <2>1. UNCHANGED <<status, delivered>>
    BY <1>6 DEF SendRejected, Crash, Tick, vars, table
  <2>2. QED BY <2>1 DEF Wanted, Closed
<1>7. QED
  <2>1. \A m \in Messages : Enqueue(m) => Promise!Next
    BY <1>1 DEF Promise!Next
  <2>2. QED BY <2>1, <1>2, <1>3, <1>4, <1>5, <1>6 DEF Next, Publish

\* Contract clauses 24 and 25: the outbox implements the abstract one, for any number
\* of publishers that die, are late and get no answers.  Only what was put in is
\* delivered, and nothing is closed that the chat has not seen.
THEOREM OutboxImplementsPromise == Spec => ImplementsAtLeastOnce
<1>1. Init => Promise!Init
  BY DEF Init, Promise!Init
<1>2. Init => PromiseInv
  BY DEF Init, PromiseInv, HeldAreWanted, AcknowledgedAreDelivered, Holders
<1>3. Inv /\ PromiseInv /\ [Next]_vars => [Promise!Next]_Promise!vars
  BY PromiseSimulation DEF Promise!vars, Wanted, Closed
<1>4. QED
  BY <1>1, <1>2, <1>3, InvHolds, PromiseStep, PTL DEF Spec, ImplementsAtLeastOnce, Promise!Spec
=============================================================================
