----------------------- MODULE DeliveryContractProofs -----------------------
(***************************************************************************)
(* Proofs about module Delivery with one scheduler: the requests that      *)
(* leave the workers are the ones DeliveryContract allows, the table       *)
(* delivery_attempts tells their history, and a final status is final but  *)
(* for the scheduler's stale write. For any number of messages and         *)
(* workers, whatever organizations are deleted meanwhile.                  *)
(***************************************************************************)
EXTENDS DeliveryTokenProofs

-----------------------------------------------------------------------------
(* The inductive invariant: how the copies of a message that move through  *)
(* queue, workers and batches relate to the requests already made for it.  *)

\* A request for m may be made now: it was never acknowledged, and the back-off
\* of its last failure is over.
Allowed(m) ==
    /\ acks[m] = 0
    /\ fails[m] > 0 => now >= sentAt[m] + Backoff(fails[m] - 1)

\* The row of m counts the failed requests, and the next one may be made.
Ready(m) == message[m].attemptCount = fails[m] /\ Allowed(m)

\* Until QueueMessage has pushed m no request was made for it.
Untried(m) ==
    /\ api[m] \in {"new", "saved"} => /\ acks[m] = 0
                                      /\ fails[m] = 0
                                      /\ Exists(m) => message[m].attemptCount = 0
    /\ api[m] = "new" => attempts[m] = <<>>

\* An id that is in the queue may be delivered as soon as it is popped.
Queued(m) == InQueue(m) /\ Exists(m) => Ready(m)

\* A message that waits for a retry waits for the back-off of its last failure.
Scheduled(m) ==
    message[m].status = "retry" /\ ~Out(m) =>
        /\ message[m].nextRetryAt # NULL
        /\ message[m].attemptCount = fails[m]
        /\ fails[m] > 0
        /\ acks[m] = 0
        /\ message[m].nextRetryAt >= sentAt[m] + Backoff(fails[m] - 1)

\* A message whose id is out has no final status.
Open(m) == Out(m) => message[m].status \in {"pending", "retry", "absent"}

\* Some worker has an answer for m that it has not logged.
Unlogged(m) == \E w \in Workers : Holds(w, m) /\ wk[w].pc = "responded"

\* delivery_attempts has one row for each request, in order.
Logged(m) ==
    LET log == attempts[m] IN
    m \notin BinaryReply /\ Exists(m) =>
        /\ \A i \in DOMAIN log : log[i].number = i
        /\ \A i \in DOMAIN log : log[i].result = "success" =>
               i = Len(log) /\ acks[m] = 1 /\ Len(log) = acks[m] + fails[m]
        /\ Unlogged(m) => Len(log) + 1 = acks[m] + fails[m]
        /\ ~Unlogged(m) => Len(log) = acks[m] + fails[m]

MessageInv(m) ==
    /\ sentAt[m] <= now
    /\ Untried(m)
    /\ Queued(m)
    /\ Scheduled(m)
    /\ Open(m)
    /\ Logged(m)

\* A worker's copy counts the failed requests before the one it makes.
CopyInv(w) ==
    LET m == wk[w].msg
        n == wk[w].count
    IN  /\ wk[w].pc = "popped" /\ Exists(m) => Ready(m)
        /\ wk[w].pc \in {"loaded", "signed"} => n = fails[m] /\ Allowed(m)
        /\ wk[w].pc \in {"responded", "logged"} =>
             \/ wk[w].result = "success" /\ acks[m] = 1 /\ fails[m] = n
             \/ wk[w].result = "failure" /\ acks[m] = 0 /\ fails[m] = n + 1

\* The back-off of everything in a batch is over.
BatchDue(s) == \A i \in DOMAIN sched[s].batch : sched[s].batch[i].retryAt <= now

ContractInv ==
    /\ \A m \in Messages : MessageInv(m)
    /\ \A w \in Workers : CopyInv(w)
    /\ \A s \in Schedulers : BatchDue(s)

-----------------------------------------------------------------------------
(* What a step keeps if it leaves a message or a worker alone.             *)

\* No request for m completes in this step.
SameHistory(m) == acks'[m] = acks[m] /\ fails'[m] = fails[m] /\ sentAt'[m] = sentAt[m]

LEMMA BackoffNat ==
    ASSUME NEW n \in Nat, n > 0, n <= MaxAttempts + 1
    PROVE  Backoff(n - 1) \in Nat
  <1>1. n - 1 \in 0..MaxAttempts
    BY ConstantAssumption
  <1> QED
    BY <1>1, BackoffAssumption

\* A request that may be made now may be made later.
LEMMA AllowedFrame ==
    ASSUME CountInv, NEW m \in Messages, Allowed(m), fails[m] <= MaxAttempts,
           SameHistory(m), now' \in Nat, now' >= now
    PROVE  Allowed(m)'
  <1>1. fails[m] \in Nat /\ sentAt[m] \in Nat /\ now \in Nat /\ MaxAttempts \in Nat
    BY ConstantAssumption DEF CountInv, TypeOK
  <1>2. ASSUME fails[m] > 0 PROVE now' >= sentAt[m] + Backoff(fails[m] - 1)
    <2>1. Backoff(fails[m] - 1) \in Nat
      BY <1>1, <1>2, BackoffNat
    <2> QED
      BY <1>1, <1>2, <2>1 DEF Allowed
  <1> QED
    BY <1>2 DEF Allowed, SameHistory

LEMMA ReadyFrame ==
    ASSUME CountInv, NEW m \in Messages, Ready(m),
           message'[m].attemptCount = message[m].attemptCount,
           SameHistory(m), now' \in Nat, now' >= now
    PROVE  Ready(m)'
  <1>1. fails[m] <= MaxAttempts
    BY DEF CountInv, RowCounts, Ready
  <1> QED
    BY <1>1, AllowedFrame DEF Ready, SameHistory

\* A message whose row, id and history stay what they are.
LEMMA MessageFrame ==
    ASSUME CountInv, NEW m \in Messages, MessageInv(m),
           message'[m] = message[m], api'[m] = api[m], attempts'[m] = attempts[m],
           SameHistory(m), now' \in Nat, now' >= now,
           InQueue(m)' => InQueue(m), Out(m)' <=> Out(m), Unlogged(m)' <=> Unlogged(m)
    PROVE  MessageInv(m)'
  <1>1. sentAt'[m] <= now'
    BY DEF CountInv, TypeOK, MessageInv, SameHistory
  <1>2. Untried(m)'
    BY DEF MessageInv, Untried, Exists, SameHistory
  <1>3. Queued(m)'
    BY ReadyFrame DEF MessageInv, Queued, Exists
  <1>4. Scheduled(m)'
    BY DEF MessageInv, Scheduled, SameHistory
  <1>5. Open(m)'
    BY DEF MessageInv, Open
  <1>6. Logged(m)'
    BY DEF MessageInv, Logged, Exists, SameHistory
  <1> QED
    BY <1>1, <1>2, <1>3, <1>4, <1>5, <1>6 DEF MessageInv

\* A worker that does nothing, and whose message stays what it is or is deleted.
LEMMA CopyFrame ==
    ASSUME CountInv, NEW w \in Workers, CopyInv(w), wk'[w] = wk[w],
           now' \in Nat, now' >= now,
           \A m \in Messages : Holds(w, m) =>
               /\ SameHistory(m)
               /\ Exists(m)' => /\ Exists(m)
                                /\ message'[m].attemptCount = message[m].attemptCount
    PROVE  CopyInv(w)'
  <1>1. CASE wk[w].pc = "idle"
    BY <1>1 DEF CopyInv
  <1>2. CASE wk[w].pc # "idle"
    <2>1. PICK m \in Messages : m = wk[w].msg
      BY <1>2 DEF CountInv, WorkerCounts
    <2>2. /\ SameHistory(m)
          /\ Exists(m)' => /\ Exists(m)
                           /\ message'[m].attemptCount = message[m].attemptCount
      BY <1>2, <2>1 DEF Holds
    <2>3. wk[w].pc = "popped" /\ Exists(m)' => Ready(m)'
      BY <2>1, <2>2, ReadyFrame DEF CopyInv
    <2>4. wk[w].pc \in {"loaded", "signed"} => wk[w].count = fails'[m] /\ Allowed(m)'
      <3>1. SUFFICES ASSUME wk[w].pc \in {"loaded", "signed"}
                     PROVE  wk[w].count = fails'[m] /\ Allowed(m)'
        OBVIOUS
      <3>2. wk[w].count = fails[m] /\ Allowed(m) /\ fails[m] <= MaxAttempts
        BY <2>1, <3>1 DEF CopyInv, CountInv, WorkerCounts
      <3> QED
        BY <2>2, <3>2, AllowedFrame DEF SameHistory
    <2>5. wk[w].pc \in {"responded", "logged"} =>
             \/ wk[w].result = "success" /\ acks'[m] = 1 /\ fails'[m] = wk[w].count
             \/ wk[w].result = "failure" /\ acks'[m] = 0 /\ fails'[m] = wk[w].count + 1
      BY <2>1, <2>2 DEF CopyInv, SameHistory
    <2>6. wk'[w].msg = m
      BY <2>1
    <2> QED
      BY <2>3, <2>4, <2>5, <2>6 DEF CopyInv
  <1> QED
    BY <1>1, <1>2

LEMMA BatchDueFrame ==
    ASSUME CountInv, NEW s \in Schedulers, BatchDue(s), sched'[s].batch = sched[s].batch,
           now' \in Nat, now' >= now
    PROVE  BatchDue(s)'
  <1>1. ASSUME NEW i \in DOMAIN sched[s].batch PROVE sched[s].batch[i].retryAt <= now'
    <2>1. PICK e \in Entry : e = sched[s].batch[i]
      BY BatchFacts
    <2>2. e.retryAt \in Nat /\ e.retryAt <= now /\ now \in Nat
      BY <2>1 DEF Entry, BatchDue, CountInv, TypeOK
    <2> QED
      BY <2>1, <2>2
  <1> QED
    BY <1>1 DEF BatchDue

\* The one worker that holds a message.
LEMMA HolderFacts ==
    ASSUME CountInv, TokenInv, NEW w \in Workers, wk[w].pc # "idle"
    PROVE  /\ wk[w].msg \in Messages
           /\ Out(wk[w].msg)
           /\ ~InQueue(wk[w].msg)
           /\ api[wk[w].msg] \notin {"new", "saved"}
           /\ \A v \in Workers \ {w} : ~Holds(v, wk[w].msg)
           /\ Unlogged(wk[w].msg) <=> wk[w].pc = "responded"
  <1>1. PICK m \in Messages : m = wk[w].msg
    BY DEF CountInv, WorkerCounts
  <1>2. Holds(w, m) /\ Out(m)
    BY <1>1 DEF Holds, Out
  <1>3. /\ ~InQueue(m)
        /\ api[m] \notin {"new", "saved"}
        /\ \A v \in Workers \ {w} : ~Holds(v, m)
    BY <1>2 DEF TokenInv, NoDuplicates, Unknown
  <1>4. Unlogged(m) <=> wk[w].pc = "responded"
    BY <1>2, <1>3 DEF Unlogged
  <1> QED
    BY <1>1, <1>2, <1>3, <1>4

\* What a step of worker w means for the messages: the others notice nothing.
LEMMA StepOfHolder ==
    ASSUME CountInv, TokenInv, NEW w \in Workers, wk[w].pc # "idle",
           NEW m \in Messages, m = wk[w].msg,
           wk'[w] = Idle \/ (wk'[w].pc # "idle" /\ wk'[w].msg = m),
           \A v \in Workers \ {w} : wk'[v] = wk[v],
           queue' = queue
    PROVE  /\ \A k \in Messages : InQueue(k)' <=> InQueue(k)
           /\ \A k \in Messages \ {m} : /\ Out(k)' <=> Out(k)
                                        /\ Unlogged(k)' <=> Unlogged(k)
           /\ wk'[w] = Idle => ~Out(m)' /\ ~Unlogged(m)'
           /\ wk'[w].pc # "idle" => Out(m)' /\ (Unlogged(m)' <=> wk'[w].pc = "responded")
  <1>1. \A k \in Messages : InQueue(k)' <=> InQueue(k)
    BY DEF InQueue
  <1>2. \A v \in Workers \ {w} : \A k \in Messages : Holds(v, k)' <=> Holds(v, k)
    BY DEF Holds
  <1>3. \A k \in Messages \ {m} : ~Holds(w, k)' /\ ~Holds(w, k)
    BY DEF Holds, Idle
  <1>4. /\ wk'[w] = Idle => ~Holds(w, m)'
        /\ wk'[w].pc # "idle" => Holds(w, m)'
    BY DEF Holds, Idle
  <1>5. /\ ~InQueue(m)
        /\ \A v \in Workers \ {w} : ~Holds(v, m)
    BY HolderFacts
  <1>6. ASSUME NEW k \in Messages \ {m} PROVE Unlogged(k)' <=> Unlogged(k)
    BY <1>2, <1>3 DEF Unlogged
  <1>7. ASSUME NEW k \in Messages \ {m} PROVE Out(k)' <=> Out(k)
    BY <1>1, <1>2, <1>3 DEF Out
  <1>8. \A v \in Workers \ {w} : ~Holds(v, m)'
    BY <1>2, <1>5
  <1> QED
    BY <1>1, <1>4, <1>5, <1>6, <1>7, <1>8 DEF Out, Unlogged

-----------------------------------------------------------------------------

LEMMA ContractInit == Init => ContractInv
  <1> SUFFICES ASSUME Init PROVE ContractInv
    OBVIOUS
  <1>1. ASSUME NEW m \in Messages PROVE MessageInv(m)
    <2>1. ~InQueue(m) /\ ~Out(m) /\ ~Exists(m)
      BY DEF Init, InQueue, Out, Holds, Idle, Exists, Absent
    <2>2. sentAt[m] <= now /\ Untried(m)
      BY <2>1 DEF Init, Untried
    <2> QED
      BY <2>1, <2>2 DEF MessageInv, Queued, Scheduled, Open, Logged, Exists
  <1>2. ASSUME NEW w \in Workers PROVE CopyInv(w)
    BY DEF Init, CopyInv, Idle
  <1>3. ASSUME NEW s \in Schedulers PROVE BatchDue(s)
    BY DEF Init, BatchDue, Sleeping
  <1> QED
    BY <1>1, <1>2, <1>3 DEF ContractInv

\* Steps of the Delivery service.
LEMMA ContractCreate ==
    ASSUME CountInv, TokenInv, ContractInv, NEW m \in Messages, CreateMessage(m)
    PROVE  ContractInv'
  <1>0. /\ UNCHANGED <<attempts, queue, wk, sched, now, acks, fails, sentAt>>
        /\ now' \in Nat /\ now' >= now
        /\ \A k \in Messages : SameHistory(k)
    BY DEF CreateMessage, CountInv, TypeOK, SameHistory
  <1>1. /\ api[m] = "new"
        /\ ~Out(m)
        /\ message[m].status = "absent"
        /\ \A k \in Messages \ {m} : api'[k] = api[k] /\ message'[k] = message[k]
        /\ \/ api'[m] = "rejected" /\ message'[m] = message[m]
           \/ api'[m] = "saved" /\ message'[m] = NewRow
    BY DEF CountInv, TypeOK, CreateMessage, TokenInv, Unknown
  <1>2. \A k \in Messages : /\ InQueue(k)' <=> InQueue(k)
                            /\ Out(k)' <=> Out(k)
                            /\ Unlogged(k)' <=> Unlogged(k)
    BY <1>0 DEF InQueue, Out, Unlogged, Holds
  <1>3. ASSUME NEW k \in Messages PROVE MessageInv(k)'
    <2>1. CASE k = m
      <3>1. /\ acks[m] = 0 /\ fails[m] = 0 /\ attempts[m] = <<>>
            /\ sentAt[m] <= now
        BY <1>1 DEF ContractInv, MessageInv, Untried
      <3>2. ~InQueue(m)' /\ ~Out(m)' /\ ~Unlogged(m)'
        BY <1>1, <1>2 DEF Out, Unlogged
      <3>3. message'[m].status \in {"absent", "pending"} /\ (Exists(m)' => message'[m] = NewRow)
        BY <1>1 DEF Exists, NewRow
      <3>4. Untried(m)'
        BY <1>0, <1>1, <3>1, <3>3 DEF Untried, NewRow
      <3>5. Logged(m)'
        BY <1>0, <3>1, <3>2 DEF Logged
      <3> QED
        BY <1>0, <2>1, <3>1, <3>2, <3>3, <3>4, <3>5 DEF MessageInv, Queued, Scheduled, Open
    <2>2. CASE k # m
      BY <1>0, <1>1, <1>2, <2>2, MessageFrame DEF ContractInv
    <2> QED
      BY <2>1, <2>2
  <1>4. ASSUME NEW w \in Workers PROVE CopyInv(w)'
    <2>1. ~Holds(w, m)
      BY <1>1 DEF Out
    <2>2. \A k \in Messages \ {m} : Exists(k)' <=> Exists(k)
      BY <1>1 DEF Exists
    <2> QED
      BY <1>0, <1>1, <2>1, <2>2, CopyFrame DEF ContractInv
  <1>5. ASSUME NEW s \in Schedulers PROVE BatchDue(s)'
    BY <1>0, BatchDueFrame DEF ContractInv
  <1> QED
    BY <1>3, <1>4, <1>5 DEF ContractInv

LEMMA ContractPush ==
    ASSUME CountInv, TokenInv, ContractInv, NEW m \in Messages, PushMessage(m)
    PROVE  ContractInv'
  <1>0. /\ UNCHANGED <<message, attempts, wk, sched, now, acks, fails, sentAt>>
        /\ now' \in Nat /\ now' >= now
        /\ \A k \in Messages : SameHistory(k) /\ (Exists(k)' <=> Exists(k))
    BY DEF PushMessage, CountInv, TypeOK, SameHistory, Exists
  <1>1. /\ api[m] = "saved"
        /\ api'[m] = "done"
        /\ ~Out(m)
        /\ message[m].status \in {"pending", "absent"}
        /\ \A k \in Messages \ {m} : api'[k] = api[k]
    BY DEF CountInv, TypeOK, PushMessage, TokenInv, Unknown
  <1>2. \A k \in Messages : InQueue(k)' <=> InQueue(k) \/ k = m
    <2>1. queue \in Seq(Messages) /\ queue' = Append(queue, m)
      BY DEF CountInv, TypeOK, PushMessage, Push
    <2> QED
      BY <2>1, AppendMember DEF InQueue
  <1>3. \A k \in Messages : /\ Out(k)' <=> Out(k) \/ k = m
                            /\ Unlogged(k)' <=> Unlogged(k)
    BY <1>0, <1>2 DEF Out, Unlogged, Holds
  <1>4. ASSUME NEW k \in Messages PROVE MessageInv(k)'
    <2>1. CASE k = m
      <3>1. /\ MessageInv(m)
            /\ acks[m] = 0 /\ fails[m] = 0
            /\ Exists(m) => message[m].attemptCount = 0
        BY <1>1 DEF ContractInv, MessageInv, Untried
      <3>2. Untried(m)' /\ Scheduled(m)' /\ Open(m)'
        BY <1>0, <1>1, <1>3 DEF Untried, Scheduled, Open
      <3>3. Queued(m)'
        BY <1>0, <3>1 DEF Queued, Ready, Allowed
      <3>4. Logged(m)'
        BY <1>0, <1>3, <3>1 DEF MessageInv, Logged
      <3> QED
        BY <1>0, <2>1, <3>1, <3>2, <3>3, <3>4 DEF MessageInv
    <2>2. CASE k # m
      BY <1>0, <1>1, <1>2, <1>3, <2>2, MessageFrame DEF ContractInv
    <2> QED
      BY <2>1, <2>2
  <1>5. ASSUME NEW w \in Workers PROVE CopyInv(w)'
    BY <1>0, CopyFrame DEF ContractInv
  <1>6. ASSUME NEW s \in Schedulers PROVE BatchDue(s)'
    BY <1>0, BatchDueFrame DEF ContractInv
  <1> QED
    BY <1>4, <1>5, <1>6 DEF ContractInv

\* A step in which no row, history or batch changes and no id is queued: only
\* worker w moves, and its message stays out.
LEMMA ContractMove ==
    ASSUME CountInv, TokenInv, ContractInv, NEW w \in Workers, CopyInv(w)',
           UNCHANGED <<api, message, attempts, sched, now, acks, fails, sentAt>>,
           \A v \in Workers \ {w} : wk'[v] = wk[v],
           \A k \in Messages : /\ InQueue(k)' => InQueue(k)
                               /\ Out(k)' <=> Out(k)
                               /\ Unlogged(k)' <=> Unlogged(k)
    PROVE  ContractInv'
  <1>0. /\ now' \in Nat /\ now' >= now
        /\ \A k \in Messages : SameHistory(k) /\ (Exists(k)' <=> Exists(k))
    BY DEF CountInv, TypeOK, SameHistory, Exists
  <1>1. ASSUME NEW k \in Messages PROVE MessageInv(k)'
    BY <1>0, MessageFrame DEF ContractInv
  <1>2. ASSUME NEW v \in Workers PROVE CopyInv(v)'
    BY <1>0, CopyFrame DEF ContractInv
  <1>3. ASSUME NEW s \in Schedulers PROVE BatchDue(s)'
    BY <1>0, BatchDueFrame DEF ContractInv
  <1> QED
    BY <1>1, <1>2, <1>3 DEF ContractInv

LEMMA ContractPop ==
    ASSUME CountInv, TokenInv, ContractInv, NEW w \in Workers, Pop(w)
    PROVE  ContractInv'
  <1> PICK m \in Messages : m = Head(queue)
    BY TailFacts DEF CountInv, TypeOK, Pop
  <1>0. /\ queue \in Seq(Messages) /\ queue # <<>> /\ queue' = Tail(queue)
        /\ wk[w].pc = "idle"
        /\ UNCHANGED <<api, message, attempts, sched, now, acks, fails, sentAt>>
    BY TailFacts DEF CountInv, TypeOK, Pop
  <1>1. /\ \A k \in Messages : InQueue(k)' <=> InQueue(k) /\ k # m
        /\ InQueue(m)
    BY <1>0, TailMember DEF InQueue, TokenInv, NoDuplicates
  <1>2. /\ \A v \in Workers \ {w} : wk'[v] = wk[v]
        /\ wk'[w].pc = "popped"
        /\ wk'[w].msg = m
    BY DEF CountInv, TypeOK, Pop, Idle
  <1>3. \A v \in Workers : \A k \in Messages :
           Holds(v, k)' <=> Holds(v, k) \/ (v = w /\ k = m)
    BY <1>0, <1>2 DEF Holds
  <1>4. ASSUME NEW k \in Messages PROVE Out(k)' <=> Out(k)
    BY <1>0, <1>1, <1>3 DEF Out
  <1>5. ASSUME NEW k \in Messages PROVE Unlogged(k)' <=> Unlogged(k)
    BY <1>0, <1>2, <1>3 DEF Unlogged
  <1>6. CopyInv(w)'
    <2>1. Exists(m) => Ready(m)
      BY <1>0, <1>1 DEF ContractInv, MessageInv, Queued
    <2>2. Exists(m)' => Ready(m)'
      BY <1>0, <2>1 DEF Exists, Ready, Allowed
    <2> QED
      BY <1>2, <2>2 DEF CopyInv
  <1> QED
    BY <1>0, <1>1, <1>2, <1>4, <1>5, <1>6, ContractMove

\* FindById takes a copy of a row that is ready, Sign keeps it.
LEMMA ContractPrepare ==
    ASSUME CountInv, TokenInv, ContractInv, NEW w \in Workers,
           (FindById(w) /\ Exists(wk[w].msg)) \/ Sign(w)
    PROVE  ContractInv'
  <1>0. /\ UNCHANGED <<api, message, attempts, queue, sched, now, acks, fails, sentAt>>
        /\ wk \in [Workers -> WorkerState]
        /\ wk[w].pc \in {"popped", "loaded"}
    BY DEF FindById, Sign, CountInv, TypeOK
  <1>1. PICK m \in Messages : m = wk[w].msg
    BY <1>0 DEF CountInv, WorkerCounts
  <1>2. /\ wk'[w].pc \in {"loaded", "signed"}
        /\ wk'[w].msg = m
        /\ wk'[w].count = fails[m] /\ Allowed(m)
        /\ \A v \in Workers \ {w} : wk'[v] = wk[v]
    <2>0. CopyInv(w)
      BY DEF ContractInv
    <2>1. CASE FindById(w) /\ Exists(wk[w].msg)
      <3>1. Ready(m)
        BY <1>1, <2>0, <2>1 DEF CopyInv, FindById
      <3>2. /\ wk'[w].pc = "loaded"
            /\ wk'[w].msg = m
            /\ wk'[w].count = message[m].attemptCount
            /\ \A v \in Workers \ {w} : wk'[v] = wk[v]
        BY <1>0, <1>1, <2>1 DEF FindById, WorkerState
      <3> QED
        BY <3>1, <3>2 DEF Ready
    <2>2. CASE Sign(w)
      <3>1. wk[w].count = fails[m] /\ Allowed(m)
        BY <1>1, <2>0, <2>2 DEF CopyInv, Sign
      <3>2. /\ wk'[w].pc = "signed"
            /\ wk'[w].msg = m
            /\ wk'[w].count = wk[w].count
            /\ \A v \in Workers \ {w} : wk'[v] = wk[v]
        BY <1>0, <1>1, <2>2 DEF Sign, WorkerState
      <3> QED
        BY <3>1, <3>2
    <2> QED
      BY <2>1, <2>2
  <1>3. CopyInv(w)'
    <2>1. Allowed(m)' /\ fails'[m] = fails[m]
      BY <1>0, <1>2 DEF Allowed
    <2> QED
      BY <1>2, <2>1 DEF CopyInv
  <1>4. \A k \in Messages : /\ InQueue(k)' <=> InQueue(k)
                            /\ Out(k)' <=> Out(k)
                            /\ Unlogged(k)' <=> Unlogged(k)
    BY <1>0, <1>1, <1>2, StepOfHolder, HolderFacts
  <1> QED
    BY <1>0, <1>2, <1>3, <1>4, ContractMove

\* The request, made at a time when the contract allows it.
LEMMA DoIsAllowed ==
    ASSUME CountInv, TokenInv, ContractInv, NEW w \in Workers,
           NEW result \in {"success", "failure"}, Do(w, result)
    PROVE  \E m \in Messages :
             /\ m = wk[w].msg
             /\ Allowed(m)
             /\ fails[m] = wk[w].count
             /\ fails[m] <= MaxAttempts
             /\ acks' = IF result = "success" THEN [acks EXCEPT ![m] = 1] ELSE acks
             /\ fails' = IF result = "failure" THEN [fails EXCEPT ![m] = @ + 1] ELSE fails
             /\ sentAt' = [sentAt EXCEPT ![m] = now]
             /\ UNCHANGED now
  <1>1. PICK m \in Messages : m = wk[w].msg
    BY DEF CountInv, WorkerCounts, Do
  <1>2. /\ fails[m] = wk[w].count
        /\ Allowed(m)
        /\ fails[m] <= MaxAttempts
        /\ acks[m] = 0
        /\ fails[m] \in Nat
    BY <1>1 DEF Do, CountInv, TypeOK, WorkerCounts, ContractInv, CopyInv, Allowed
  <1>3. CountUp(fails[m]) = fails[m] + 1 /\ CountUp(acks[m]) = 1
    BY <1>2, ConstantAssumption DEF CountUp
  <1> QED
    BY <1>1, <1>2, <1>3 DEF Do

LEMMA ContractDo ==
    ASSUME CountInv, TokenInv, ContractInv, NEW w \in Workers,
           NEW result \in {"success", "failure"}, Do(w, result)
    PROVE  ContractInv'
  <1>0. /\ UNCHANGED <<api, message, attempts, queue, sched, now>>
        /\ now' \in Nat /\ now' >= now
        /\ wk[w].pc = "signed"
    BY DEF Do, CountInv, TypeOK
  <1>1. PICK m \in Messages :
             /\ m = wk[w].msg
             /\ Allowed(m)
             /\ fails[m] = wk[w].count
             /\ fails[m] <= MaxAttempts
             /\ acks' = IF result = "success" THEN [acks EXCEPT ![m] = 1] ELSE acks
             /\ fails' = IF result = "failure" THEN [fails EXCEPT ![m] = @ + 1] ELSE fails
             /\ sentAt' = [sentAt EXCEPT ![m] = now]
    BY DoIsAllowed
  <1>2. /\ wk'[w].pc = "responded"
        /\ wk'[w].msg = m
        /\ wk'[w].count = wk[w].count
        /\ wk'[w].result = result
        /\ \A v \in Workers \ {w} : wk'[v] = wk[v]
    BY <1>1 DEF Do, CountInv, TypeOK, WorkerState
  <1>3. /\ acks[m] = 0 /\ fails[m] \in Nat
        /\ acks'[m] = IF result = "success" THEN 1 ELSE 0
        /\ fails'[m] = IF result = "failure" THEN fails[m] + 1 ELSE fails[m]
        /\ sentAt'[m] = now
        /\ \A k \in Messages \ {m} : SameHistory(k)
    BY <1>1 DEF CountInv, TypeOK, Allowed, SameHistory
  <1>4. /\ \A k \in Messages : InQueue(k)' <=> InQueue(k)
        /\ \A k \in Messages \ {m} : /\ Out(k)' <=> Out(k)
                                     /\ Unlogged(k)' <=> Unlogged(k)
        /\ Out(m)' /\ Unlogged(m)'
    BY <1>0, <1>1, <1>2, StepOfHolder
  <1>5. /\ Out(m) /\ ~InQueue(m) /\ ~Unlogged(m)
        /\ api[m] \notin {"new", "saved"}
        /\ \A v \in Workers \ {w} : ~Holds(v, m)
    BY <1>0, <1>1, HolderFacts
  <1>6. ASSUME NEW k \in Messages PROVE MessageInv(k)'
    <2>1. CASE k = m
      <3>0. MessageInv(m)
        BY DEF ContractInv
      <3>1. sentAt'[m] <= now' /\ Untried(m)' /\ Queued(m)' /\ Scheduled(m)'
        BY <1>0, <1>3, <1>4, <1>5 DEF Untried, Queued, Scheduled
      <3>2. Open(m)'
        BY <1>0, <1>5, <3>0 DEF MessageInv, Open
      <3>3. Logged(m)'
        <4>1. SUFFICES ASSUME m \notin BinaryReply, Exists(m)
                       PROVE  /\ \A i \in DOMAIN attempts[m] : attempts[m][i].number = i
                              /\ \A i \in DOMAIN attempts[m] :
                                     attempts[m][i].result # "success"
                              /\ Len(attempts[m]) + 1 = acks'[m] + fails'[m]
          BY <1>0, <1>4 DEF Logged, Exists
        <4>2. /\ \A i \in DOMAIN attempts[m] : attempts[m][i].number = i
              /\ \A i \in DOMAIN attempts[m] :
                     attempts[m][i].result = "success" => acks[m] = 1
              /\ Len(attempts[m]) = acks[m] + fails[m]
          BY <1>5, <3>0, <4>1 DEF MessageInv, Logged
        <4> QED
          BY <1>3, <4>2
      <3> QED
        BY <2>1, <3>1, <3>2, <3>3 DEF MessageInv
    <2>2. CASE k # m
      BY <1>0, <1>3, <1>4, <2>2, MessageFrame DEF ContractInv
    <2> QED
      BY <2>1, <2>2
  <1>7. ASSUME NEW v \in Workers PROVE CopyInv(v)'
    <2>1. CASE v = w
      BY <1>1, <1>2, <1>3, <2>1 DEF CopyInv
    <2>2. CASE v # w
      <3>1. \A k \in Messages : Exists(k)' <=> Exists(k)
        BY <1>0 DEF Exists
      <3> QED
        BY <1>0, <1>2, <1>3, <1>5, <2>2, <3>1, CopyFrame DEF ContractInv
    <2> QED
      BY <2>1, <2>2
  <1>8. ASSUME NEW s \in Schedulers PROVE BatchDue(s)'
    BY <1>0, BatchDueFrame DEF ContractInv
  <1> QED
    BY <1>6, <1>7, <1>8 DEF ContractInv

\* An attempt appended to a log keeps the attempts that are there.
LEMMA AppendAttempt ==
    ASSUME NEW log \in Seq(Attempt), NEW a \in Attempt
    PROVE  /\ Len(Append(log, a)) = Len(log) + 1
           /\ Append(log, a)[Len(log) + 1] = a
           /\ \A i \in DOMAIN Append(log, a) :
                  \/ i = Len(log) + 1
                  \/ i \in DOMAIN log /\ Append(log, a)[i] = log[i]
  OBVIOUS

LEMMA ContractLog ==
    ASSUME CountInv, TokenInv, ContractInv, NEW w \in Workers, CreateAttempt(w)
    PROVE  ContractInv'
  <1>0. /\ UNCHANGED <<api, message, queue, sched, now, acks, fails, sentAt>>
        /\ now' \in Nat /\ now' >= now
        /\ wk[w].pc = "responded"
        /\ wk \in [Workers -> WorkerState]
        /\ \A k \in Messages : SameHistory(k) /\ (Exists(k)' <=> Exists(k))
    BY DEF CreateAttempt, CountInv, TypeOK, SameHistory, Exists
  <1>1. PICK m \in Messages : m = wk[w].msg
    BY <1>0 DEF CountInv, WorkerCounts
  <1>2. PICK a \in Attempt : /\ a.number = wk[w].count + 1
                             /\ a.result = wk[w].result
                             /\ InsertAttempt(m, a)
    <2>1. [number |-> wk[w].count + 1, result |-> wk[w].result] \in Attempt
      BY <1>0 DEF Attempt, WorkerState
    <2> QED
      BY <1>1, <2>1 DEF CreateAttempt
  <1>3. /\ wk'[w].pc = "logged"
        /\ wk'[w].msg = m
        /\ wk'[w].count = wk[w].count
        /\ wk'[w].result = wk[w].result
        /\ \A v \in Workers \ {w} : wk'[v] = wk[v]
    BY <1>0, <1>1 DEF CreateAttempt, WorkerState
  <1>4. /\ \A k \in Messages : InQueue(k)' <=> InQueue(k)
        /\ \A k \in Messages \ {m} : /\ Out(k)' <=> Out(k)
                                     /\ Unlogged(k)' <=> Unlogged(k)
        /\ Out(m)' /\ ~Unlogged(m)'
    BY <1>0, <1>1, <1>3, StepOfHolder
  <1>5. /\ Out(m) /\ ~InQueue(m) /\ Unlogged(m)
        /\ api[m] \notin {"new", "saved"}
    BY <1>0, <1>1, HolderFacts
  <1>6. \A k \in Messages \ {m} : attempts'[k] = attempts[k]
    BY <1>2 DEF InsertAttempt, CountInv, TypeOK
  <1>7. /\ wk[w].count \in Nat /\ acks[m] \in Nat /\ fails[m] \in Nat
        /\ acks[m] + fails[m] = wk[w].count + 1
        /\ wk[w].result = "success" => acks[m] = 1
    <2>1. /\ wk[w].count \in Nat /\ acks[m] \in Nat /\ fails[m] \in Nat
          /\ \/ wk[w].result = "success" /\ acks[m] = 1 /\ fails[m] = wk[w].count
             \/ wk[w].result = "failure" /\ acks[m] = 0 /\ fails[m] = wk[w].count + 1
      BY <1>0, <1>1 DEF ContractInv, CopyInv, CountInv, TypeOK, WorkerState
    <2> QED
      BY <2>1
  <1>8. ASSUME NEW k \in Messages PROVE MessageInv(k)'
    <2>1. CASE k = m
      <3>0. MessageInv(m)
        BY DEF ContractInv
      <3>1. sentAt'[m] <= now' /\ Untried(m)' /\ Queued(m)' /\ Scheduled(m)' /\ Open(m)'
        BY <1>0, <1>4, <1>5, <3>0 DEF MessageInv, Untried, Queued, Scheduled, Open
      <3>2. Logged(m)'
        <4>1. SUFFICES ASSUME m \notin BinaryReply, Exists(m)
                       PROVE  /\ \A i \in DOMAIN attempts'[m] : attempts'[m][i].number = i
                              /\ \A i \in DOMAIN attempts'[m] :
                                     attempts'[m][i].result = "success" =>
                                         i = Len(attempts'[m]) /\ acks[m] = 1
                              /\ Len(attempts'[m]) = acks[m] + fails[m]
          BY <1>0, <1>4 DEF Logged, Exists
        <4>2. /\ \A i \in DOMAIN attempts[m] : attempts[m][i].number = i
              /\ \A i \in DOMAIN attempts[m] : attempts[m][i].result = "success" =>
                     Len(attempts[m]) = acks[m] + fails[m]
              /\ Len(attempts[m]) + 1 = acks[m] + fails[m]
          BY <1>5, <3>0, <4>1 DEF MessageInv, Logged
        <4>3. attempts[m] \in Seq(Attempt) /\ attempts'[m] = Append(attempts[m], a)
          BY <1>2, <4>1 DEF InsertAttempt, CountInv, TypeOK
        <4>4. Len(attempts[m]) \in Nat
          BY <4>3
        <4>5. \A i \in DOMAIN attempts[m] : attempts[m][i].result # "success"
          BY <1>7, <4>2, <4>4
        <4> QED
          BY <1>2, <1>7, <4>2, <4>3, <4>4, <4>5, AppendAttempt
      <3> QED
        BY <2>1, <3>1, <3>2 DEF MessageInv
    <2>2. CASE k # m
      BY <1>0, <1>4, <1>6, <2>2, MessageFrame DEF ContractInv
    <2> QED
      BY <2>1, <2>2
  <1>9. ASSUME NEW v \in Workers PROVE CopyInv(v)'
    <2>1. CASE v = w
      <3>1. CopyInv(w)
        BY DEF ContractInv
      <3> QED
        BY <1>0, <1>1, <1>3, <2>1, <3>1 DEF CopyInv
    <2>2. CASE v # w
      BY <1>0, <1>3, <2>2, CopyFrame DEF ContractInv
    <2> QED
      BY <2>1, <2>2
  <1>10. ASSUME NEW s \in Schedulers PROVE BatchDue(s)'
    BY <1>0, BatchDueFrame DEF ContractInv
  <1> QED
    BY <1>8, <1>9, <1>10 DEF ContractInv

\* What the last statement of deliver writes, and what it leaves in the row.
LEMMA OutcomeRow ==
    ASSUME CountInv, ContractInv, NEW w \in Workers, wk[w].pc = "logged",
           NEW m \in Messages, m = wk[w].msg, RecordOutcome(w)
    PROVE  /\ \A k \in Messages \ {m} : message'[k] = message[k]
           /\ Exists(m)' => Exists(m)
           /\ message'[m].status \in {"absent", "success", "failed", "retry"}
           /\ message'[m].status = "retry" =>
                /\ message'[m].nextRetryAt # NULL
                /\ message'[m].attemptCount = fails[m]
                /\ fails[m] > 0
                /\ acks[m] = 0
                /\ message'[m].nextRetryAt >= sentAt[m] + Backoff(fails[m] - 1)
  <1> DEFINE n == wk[w].count
  <1>0. /\ message \in [Messages -> Row]
        /\ n \in Nat /\ n <= MaxAttempts
        /\ now \in Nat /\ sentAt[m] \in Nat /\ sentAt[m] <= now
    BY DEF CountInv, TypeOK, WorkerState, WorkerCounts, ContractInv, MessageInv
  <1>1. /\ \A k \in Messages \ {m} : message'[k] = message[k]
        /\ Exists(m)' => Exists(m)
    <2>1. ~Exists(m) => message' = message
      BY DEF RecordOutcome, UpdateStatus, Update
    <2>2. ASSUME NEW k \in Messages \ {m} PROVE message'[k] = message[k]
      BY <1>0 DEF RecordOutcome, UpdateStatus, Update
    <2> QED
      BY <2>1, <2>2 DEF Exists
  <1>2. CASE ~Exists(m)
    <2>1. message' = message /\ message[m].status = "absent"
      BY <1>2 DEF RecordOutcome, UpdateStatus, Update, Exists
    <2> QED
      BY <1>1, <2>1
  <1>3. CASE Exists(m)
    <2>1. CASE wk[w].result = "success" /\ UpdateStatus(m, "success")
      <3>1. message'[m].status = "success"
        BY <1>0, <1>3, <2>1 DEF UpdateStatus, Row
      <3> QED
        BY <1>1, <3>1
    <2>2. CASE wk[w].result = "failure" /\ Update(m, "retry", n + 1, now + Backoff(n))
      <3>1. message'[m] = [status |-> "retry", attemptCount |-> n + 1,
                           nextRetryAt |-> now + Backoff(n)]
        BY <1>0, <1>3, <2>2 DEF Update
      <3>2. acks[m] = 0 /\ fails[m] = n + 1
        BY <2>2 DEF ContractInv, CopyInv
      <3>3. Backoff(n) \in Nat
        BY <1>0, BackoffAssumption, ConstantAssumption
      <3>4. fails[m] - 1 = n /\ fails[m] > 0
        BY <1>0, <3>2
      <3>5. /\ message'[m].status = "retry"
            /\ message'[m].attemptCount = n + 1
            /\ message'[m].nextRetryAt = now + Backoff(n)
        BY <3>1
      <3> HIDE DEF n
      <3>6. /\ now + Backoff(n) \in Nat
            /\ now + Backoff(n) >= sentAt[m] + Backoff(n)
        BY <1>0, <3>3
      <3>7. now + Backoff(n) # NULL
        BY <3>6, ConstantAssumption
      <3> QED
        BY <1>1, <3>2, <3>4, <3>5, <3>6, <3>7
    <2>3. CASE Update(m, "failed", n, wk[w].retryAt)
      <3>1. message'[m].status = "failed"
        BY <1>0, <1>3, <2>3 DEF Update
      <3> QED
        BY <1>1, <3>1
    <2> QED
      BY <2>1, <2>2, <2>3 DEF RecordOutcome
  <1> QED
    BY <1>2, <1>3

\* Steps in which a worker lets go of its message.
LEMMA ContractRelease ==
    ASSUME CountInv, TokenInv, ContractInv, NEW w \in Workers,
           (FindById(w) /\ ~Exists(wk[w].msg)) \/ RefuseRequest(w) \/ Settle(w)
    PROVE  ContractInv'
  <1>0. /\ UNCHANGED <<api, attempts, queue, sched, now, acks, fails, sentAt>>
        /\ now' \in Nat /\ now' >= now
        /\ wk[w].pc \in {"popped", "loaded", "logged"}
        /\ wk'[w] = Idle
        /\ \A v \in Workers \ {w} : wk'[v] = wk[v]
        /\ \A k \in Messages : SameHistory(k)
    BY DEF FindById, RefuseRequest, Settle, CountInv, TypeOK, SameHistory
  <1>1. PICK m \in Messages : m = wk[w].msg
    BY <1>0 DEF CountInv, WorkerCounts
  <1>2. /\ \A k \in Messages : InQueue(k)' <=> InQueue(k)
        /\ \A k \in Messages \ {m} : /\ Out(k)' <=> Out(k)
                                     /\ Unlogged(k)' <=> Unlogged(k)
        /\ ~Out(m)' /\ ~Unlogged(m)'
    BY <1>0, <1>1, StepOfHolder
  <1>3. /\ ~InQueue(m) /\ ~Unlogged(m)
        /\ api[m] \notin {"new", "saved"}
        /\ \A v \in Workers \ {w} : ~Holds(v, m)
    BY <1>0, <1>1, HolderFacts
  <1>4. /\ \A k \in Messages \ {m} : message'[k] = message[k]
        /\ Exists(m)' => Exists(m)
        /\ message'[m].status = "retry" =>
             /\ message'[m].nextRetryAt # NULL
             /\ message'[m].attemptCount = fails[m]
             /\ fails[m] > 0
             /\ acks[m] = 0
             /\ message'[m].nextRetryAt >= sentAt[m] + Backoff(fails[m] - 1)
    <2>1. CASE FindById(w) /\ ~Exists(wk[w].msg)
      BY <1>1, <2>1 DEF FindById, Exists
    <2>2. CASE RefuseRequest(w)
      BY <1>1, <2>2 DEF RefuseRequest, UpdateStatus, Exists, CountInv, TypeOK, Row
    <2>3. CASE Settle(w)
      BY <1>1, <2>3, OutcomeRow DEF Settle
    <2> QED
      BY <2>1, <2>2, <2>3
  <1>5. ASSUME NEW k \in Messages PROVE MessageInv(k)'
    <2>1. CASE k = m
      <3>0. MessageInv(m)
        BY DEF ContractInv
      <3>1. sentAt'[m] <= now' /\ Untried(m)' /\ Queued(m)' /\ Open(m)'
        BY <1>0, <1>2, <1>3, <3>0 DEF MessageInv, Untried, Queued, Open
      <3>2. Scheduled(m)'
        BY <1>0, <1>4 DEF Scheduled
      <3>3. Logged(m)'
        BY <1>0, <1>2, <1>3, <1>4, <3>0 DEF MessageInv, Logged
      <3> QED
        BY <2>1, <3>1, <3>2, <3>3 DEF MessageInv
    <2>2. CASE k # m
      BY <1>0, <1>2, <1>4, <2>2, MessageFrame DEF ContractInv
    <2> QED
      BY <2>1, <2>2
  <1>6. ASSUME NEW v \in Workers PROVE CopyInv(v)'
    <2>1. CASE v = w
      BY <1>0, <2>1 DEF CopyInv, Idle
    <2>2. CASE v # w
      <3>1. \A k \in Messages \ {m} : Exists(k)' <=> Exists(k)
        BY <1>4 DEF Exists
      <3> QED
        BY <1>0, <1>3, <1>4, <2>2, <3>1, CopyFrame DEF ContractInv
    <2> QED
      BY <2>1, <2>2
  <1>7. ASSUME NEW s \in Schedulers PROVE BatchDue(s)'
    BY <1>0, BatchDueFrame DEF ContractInv
  <1> QED
    BY <1>5, <1>6, <1>7 DEF ContractInv

\* Steps of the scheduler.
LEMMA ContractFetch ==
    ASSUME CountInv, TokenInv, ContractInv, NEW s \in Schedulers, FetchRetries(s)
    PROVE  ContractInv'
  <1>0. /\ UNCHANGED <<api, message, attempts, queue, wk, now, acks, fails, sentAt>>
        /\ now' \in Nat /\ now' >= now
        /\ \A k \in Messages : SameHistory(k) /\ (Exists(k)' <=> Exists(k))
        /\ \A r \in Schedulers \ {s} : sched'[r] = sched[r]
    BY DEF FetchRetries, CountInv, TypeOK, SameHistory, Exists
  <1>1. \A k \in Messages : /\ InQueue(k)' <=> InQueue(k)
                            /\ Out(k)' <=> Out(k)
                            /\ Unlogged(k)' <=> Unlogged(k)
    BY <1>0 DEF InQueue, Out, Unlogged, Holds
  <1>2. ASSUME NEW k \in Messages PROVE MessageInv(k)'
    BY <1>0, <1>1, MessageFrame DEF ContractInv
  <1>3. ASSUME NEW w \in Workers PROVE CopyInv(w)'
    BY <1>0, CopyFrame DEF ContractInv
  <1>4. ASSUME NEW r \in Schedulers PROVE BatchDue(r)'
    <2>1. CASE r = s
      <3>0. PICK n \in 1..BatchLimit : \E b \in [1..n -> Due] :
              sched' = [sched EXCEPT ![s] =
                 [pc |-> "push",
                  batch |-> [i \in 1..n |-> [msg |-> b[i],
                                             count |-> message[b[i]].attemptCount,
                                             retryAt |-> message[b[i]].nextRetryAt]]]]
        BY DEF FetchRetries
      <3>1. PICK b \in [1..n -> Due] :
              sched' = [sched EXCEPT ![s] =
                 [pc |-> "push",
                  batch |-> [i \in 1..n |-> [msg |-> b[i],
                                             count |-> message[b[i]].attemptCount,
                                             retryAt |-> message[b[i]].nextRetryAt]]]]
        BY <3>0
      <3>2. sched'[s].batch = [i \in 1..n |-> [msg |-> b[i],
                                               count |-> message[b[i]].attemptCount,
                                               retryAt |-> message[b[i]].nextRetryAt]]
        BY <3>1 DEF CountInv, TypeOK
      <3>3. ASSUME NEW i \in 1..n PROVE sched'[s].batch[i].retryAt <= now
        <4>1. b[i] \in Due
          OBVIOUS
        <4>2. message[b[i]].nextRetryAt <= now
          BY <4>1 DEF Due
        <4>3. sched'[s].batch[i].retryAt = message[b[i]].nextRetryAt
          BY <3>2
        <4> QED
          BY <4>2, <4>3
      <3>4. DOMAIN sched'[s].batch = 1..n
        BY <3>2
      <3> QED
        BY <1>0, <2>1, <3>3, <3>4 DEF BatchDue
    <2>2. CASE r # s
      BY <1>0, <2>2, BatchDueFrame DEF ContractInv
    <2> QED
      BY <2>1, <2>2
  <1> QED
    BY <1>2, <1>3, <1>4 DEF ContractInv

\* A message is pushed again when the back-off of its last failure is over.
LEMMA ContractRequeue ==
    ASSUME CountInv, TokenInv, ContractInv, NEW s \in Schedulers, Requeue(s)
    PROVE  ContractInv'
  <1>0. /\ UNCHANGED <<api, message, attempts, wk, now, acks, fails, sentAt>>
        /\ now' \in Nat /\ now' >= now
        /\ \A k \in Messages : SameHistory(k) /\ (Exists(k)' <=> Exists(k))
        /\ sched[s].pc = "push"
        /\ \A r \in Schedulers : sched'[r].batch = sched[r].batch
    BY DEF Requeue, CountInv, TypeOK, SchedState, SameHistory, Exists
  <1>1. PICK e \in Entry : e = sched[s].batch[1] /\ 1 \in DOMAIN sched[s].batch
    BY <1>0, BatchFacts
  <1>2. PICK m \in Messages : m = e.msg
    BY DEF Entry
  <1>3. \A k \in Messages : InQueue(k)' <=> InQueue(k) \/ k = m
    <2>1. queue \in Seq(Messages) /\ queue' = Append(queue, m)
      BY <1>0, <1>1, <1>2, BatchFacts DEF CountInv, TypeOK, Requeue, Push
    <2> QED
      BY <2>1, AppendMember DEF InQueue
  <1>4. \A k \in Messages : /\ Out(k)' <=> Out(k) \/ k = m
                            /\ Unlogged(k)' <=> Unlogged(k)
    BY <1>0, <1>3 DEF Out, Unlogged, Holds
  <1>5. /\ api[m] \notin {"new", "saved"}
        /\ ~Out(m)
        /\ Exists(m) => message[m] = [status |-> "retry", attemptCount |-> e.count,
                                      nextRetryAt |-> e.retryAt]
    <2>1. BatchTokens(s)
      BY DEF TokenInv
    <2>2. /\ api[e.msg] \notin {"new", "saved"}
          /\ ~Out(e.msg)
          /\ Exists(e.msg) => ~Stale(e)
      BY <1>0, <1>1, <2>1 DEF BatchTokens
    <2> QED
      BY <1>2, <2>2 DEF Stale
  <1>6. ASSUME NEW k \in Messages PROVE MessageInv(k)'
    <2>1. CASE k = m
      <3>0. MessageInv(m)
        BY DEF ContractInv
      <3>1. sentAt'[m] <= now' /\ Untried(m)' /\ Scheduled(m)'
        BY <1>0, <1>4, <1>5, <3>0 DEF MessageInv, Untried, Scheduled
      <3>2. Exists(m) => Ready(m)
        <4>1. SUFFICES ASSUME Exists(m) PROVE Ready(m)
          OBVIOUS
        <4>2. message[m].status = "retry" /\ message[m].nextRetryAt = e.retryAt
          BY <1>5, <4>1
        <4>3. /\ message[m].attemptCount = fails[m]
              /\ fails[m] > 0
              /\ acks[m] = 0
              /\ e.retryAt >= sentAt[m] + Backoff(fails[m] - 1)
          BY <1>5, <3>0, <4>2 DEF MessageInv, Scheduled
        <4>4. e.retryAt <= now /\ e.retryAt \in Nat /\ now \in Nat /\ sentAt[m] \in Nat
              /\ fails[m] \in Nat
          BY <1>1 DEF ContractInv, BatchDue, Entry, CountInv, TypeOK
        <4>5. Backoff(fails[m] - 1) \in Nat
          <5>1. fails[m] <= MaxAttempts /\ MaxAttempts \in Nat
            BY <4>3, ConstantAssumption DEF CountInv, RowCounts
          <5> QED
            BY <4>3, <4>4, <5>1, BackoffNat
        <4> QED
          BY <4>3, <4>4, <4>5 DEF Ready, Allowed
      <3>3. Queued(m)'
        BY <1>0, <3>2 DEF Queued, Ready, Allowed
      <3>4. Open(m)'
        BY <1>0, <1>5 DEF Open, Exists
      <3>5. Logged(m)'
        BY <1>0, <1>4, <3>0 DEF MessageInv, Logged
      <3> QED
        BY <2>1, <3>1, <3>3, <3>4, <3>5 DEF MessageInv
    <2>2. CASE k # m
      BY <1>0, <1>3, <1>4, <2>2, MessageFrame DEF ContractInv
    <2> QED
      BY <2>1, <2>2
  <1>7. ASSUME NEW w \in Workers PROVE CopyInv(w)'
    BY <1>0, CopyFrame DEF ContractInv
  <1>8. ASSUME NEW r \in Schedulers PROVE BatchDue(r)'
    BY <1>0, BatchDueFrame DEF ContractInv
  <1> QED
    BY <1>6, <1>7, <1>8 DEF ContractInv

\* The scheduler writes back what it read: if the id is still out that changes
\* nothing but the status, otherwise the message is not out and not waiting.
LEMMA ContractMark ==
    ASSUME CountInv, TokenInv, ContractInv, NEW s \in Schedulers, MarkPending(s)
    PROVE  ContractInv'
  <1>0. /\ UNCHANGED <<api, attempts, queue, wk, now, acks, fails, sentAt>>
        /\ now' \in Nat /\ now' >= now
        /\ \A k \in Messages : SameHistory(k)
        /\ sched[s].pc = "mark"
        /\ Advance(s)
        /\ sched[s].batch \in Seq(Entry)
        /\ sched[s].batch # <<>>
        /\ BatchTokens(s)
    BY BatchFacts DEF MarkPending, CountInv, TypeOK, SameHistory, TokenInv
  <1>1. PICK e \in Entry : /\ e = sched[s].batch[1]
                           /\ Update(e.msg, "pending", e.count, e.retryAt)
    BY <1>0, BatchFacts DEF MarkPending
  <1>2. PICK m \in Messages : m = e.msg
    BY DEF Entry
  <1>3. /\ api[m] \notin {"new", "saved"}
        /\ Exists(m) /\ Out(m) => message[m].attemptCount = e.count
    <2>1. /\ api[e.msg] \notin {"new", "saved"}
          /\ Exists(e.msg) => (Out(e.msg) <=> ~Stale(e))
      BY <1>0, <1>1, BatchFacts DEF BatchTokens
    <2> QED
      BY <1>2, <2>1 DEF Stale
  <1>4. /\ \A k \in Messages \ {m} : message'[k] = message[k]
        /\ ~Exists(m) => message'[m] = message[m]
        /\ Exists(m) => message'[m] = [status |-> "pending", attemptCount |-> e.count,
                                       nextRetryAt |-> e.retryAt]
    BY <1>1, <1>2 DEF Update, CountInv, TypeOK
  <1>5. /\ \A k \in Messages : Exists(k)' <=> Exists(k)
        /\ Exists(m) /\ Out(m) => message'[m].attemptCount = message[m].attemptCount
    BY <1>3, <1>4 DEF Exists
  <1>6. \A k \in Messages : /\ InQueue(k)' <=> InQueue(k)
                            /\ Out(k)' <=> Out(k)
                            /\ Unlogged(k)' <=> Unlogged(k)
    BY <1>0 DEF InQueue, Out, Unlogged, Holds
  <1>7. ASSUME NEW k \in Messages PROVE MessageInv(k)'
    <2>1. CASE k = m
      <3>0. MessageInv(m)
        BY DEF ContractInv
      <3>1. sentAt'[m] <= now' /\ Untried(m)'
        BY <1>0, <1>3, <3>0 DEF MessageInv, Untried
      <3>2. Scheduled(m)' /\ Open(m)'
        BY <1>4 DEF Scheduled, Open, Exists
      <3>3. Queued(m)'
        <4>1. SUFFICES ASSUME InQueue(m), Exists(m) PROVE Ready(m)'
          BY <1>5, <1>6 DEF Queued
        <4>2. Out(m) /\ Ready(m)
          BY <3>0, <4>1 DEF Out, MessageInv, Queued
        <4> QED
          BY <1>0, <1>5, <4>1, <4>2, ReadyFrame
      <3>4. Logged(m)'
        BY <1>0, <1>5, <1>6, <3>0 DEF MessageInv, Logged
      <3> QED
        BY <2>1, <3>1, <3>2, <3>3, <3>4 DEF MessageInv
    <2>2. CASE k # m
      BY <1>0, <1>4, <1>6, <2>2, MessageFrame DEF ContractInv
    <2> QED
      BY <2>1, <2>2
  <1>8. ASSUME NEW w \in Workers PROVE CopyInv(w)'
    <2>1. ASSUME NEW k \in Messages, Holds(w, k), Exists(k)'
          PROVE  message'[k].attemptCount = message[k].attemptCount
      <3>1. Out(k)
        BY <2>1 DEF Out
      <3> QED
        BY <1>4, <1>5, <2>1, <3>1
    <2> QED
      BY <1>0, <1>5, <2>1, CopyFrame DEF ContractInv
  <1>9. ASSUME NEW r \in Schedulers PROVE BatchDue(r)'
    <2>1. CASE r = s
      <3>1. sched'[s].batch = Tail(sched[s].batch)
        <4>1. CASE Tail(sched[s].batch) = <<>>
          BY <1>0, <4>1 DEF Advance, CountInv, TypeOK, Sleeping
        <4>2. CASE Tail(sched[s].batch) # <<>>
          BY <1>0, <4>2 DEF Advance, CountInv, TypeOK
        <4> QED
          BY <4>1, <4>2
      <3>2. ASSUME NEW i \in DOMAIN Tail(sched[s].batch)
            PROVE  Tail(sched[s].batch)[i].retryAt <= now
        <4>1. i + 1 \in DOMAIN sched[s].batch /\ Tail(sched[s].batch)[i] = sched[s].batch[i + 1]
          BY <1>0, TailFacts
        <4> QED
          BY <4>1 DEF ContractInv, BatchDue
      <3> QED
        BY <1>0, <2>1, <3>1, <3>2 DEF BatchDue
    <2>2. CASE r # s
      <3>1. sched'[r].batch = sched[r].batch
        BY <1>0, <2>2 DEF Advance, CountInv, TypeOK
      <3> QED
        BY <1>0, <3>1, BatchDueFrame DEF ContractInv
    <2> QED
      BY <2>1, <2>2
  <1> QED
    BY <1>7, <1>8, <1>9 DEF ContractInv

\* Steps of the API, and time: a deleted message makes no promise any more.
LEMMA ContractDelete ==
    ASSUME CountInv, TokenInv, ContractInv, NEW o \in Deletable, DeleteOrg(o)
    PROVE  ContractInv'
  <1>0. /\ UNCHANGED <<api, queue, wk, sched, now, acks, fails, sentAt>>
        /\ now' \in Nat /\ now' >= now
        /\ \A k \in Messages : SameHistory(k)
    BY DEF DeleteOrg, CountInv, TypeOK, SameHistory
  <1>1. \A k \in Messages : \/ message'[k] = message[k] /\ attempts'[k] = attempts[k]
                            \/ message'[k].status = "absent" /\ attempts'[k] = <<>>
    BY DEF DeleteOrg, Absent
  <1>2. \A k \in Messages : /\ InQueue(k)' <=> InQueue(k)
                            /\ Out(k)' <=> Out(k)
                            /\ Unlogged(k)' <=> Unlogged(k)
    BY <1>0 DEF InQueue, Out, Unlogged, Holds
  <1>3. ASSUME NEW k \in Messages PROVE MessageInv(k)'
    <2>1. CASE message'[k] = message[k] /\ attempts'[k] = attempts[k]
      BY <1>0, <1>2, <2>1, MessageFrame DEF ContractInv
    <2>2. CASE message'[k].status = "absent" /\ attempts'[k] = <<>>
      <3>0. MessageInv(k) /\ ~Exists(k)'
        BY <2>2 DEF ContractInv, Exists
      <3>1. sentAt'[k] <= now' /\ Untried(k)'
        BY <1>0, <2>2, <3>0 DEF MessageInv, Untried
      <3> QED
        BY <2>2, <3>0, <3>1 DEF MessageInv, Queued, Scheduled, Open, Logged
    <2> QED
      BY <1>1, <2>1, <2>2
  <1>4. ASSUME NEW w \in Workers PROVE CopyInv(w)'
    <2>1. \A k \in Messages : Exists(k)' => Exists(k) /\ message'[k] = message[k]
      BY <1>1 DEF Exists
    <2> QED
      BY <1>0, <2>1, CopyFrame DEF ContractInv
  <1>5. ASSUME NEW s \in Schedulers PROVE BatchDue(s)'
    BY <1>0, BatchDueFrame DEF ContractInv
  <1> QED
    BY <1>3, <1>4, <1>5 DEF ContractInv

LEMMA ContractTime ==
    ASSUME CountInv, TokenInv, ContractInv, now' \in Nat, now' >= now,
           UNCHANGED <<api, message, attempts, queue, wk, sched, acks, fails, sentAt>>
    PROVE  ContractInv'
  <1>0. \A k \in Messages : SameHistory(k) /\ (Exists(k)' <=> Exists(k))
    BY DEF SameHistory, Exists
  <1>1. \A k \in Messages : /\ InQueue(k)' <=> InQueue(k)
                            /\ Out(k)' <=> Out(k)
                            /\ Unlogged(k)' <=> Unlogged(k)
    BY DEF InQueue, Out, Unlogged, Holds
  <1>2. ASSUME NEW k \in Messages PROVE MessageInv(k)'
    BY <1>0, <1>1, MessageFrame DEF ContractInv
  <1>3. ASSUME NEW w \in Workers PROVE CopyInv(w)'
    BY <1>0, CopyFrame DEF ContractInv
  <1>4. ASSUME NEW s \in Schedulers PROVE BatchDue(s)'
    BY BatchDueFrame DEF ContractInv
  <1> QED
    BY <1>2, <1>3, <1>4 DEF ContractInv

LEMMA ContractNext == CountInv /\ TokenInv /\ ContractInv /\ [Next]_vars => ContractInv'
  <1> SUFFICES ASSUME CountInv, TokenInv, ContractInv, [Next]_vars PROVE ContractInv'
    OBVIOUS
  <1>0. now \in Nat
    BY DEF CountInv, TypeOK
  <1>1. CASE \E m \in Messages : CreateMessage(m) \/ PushMessage(m)
    BY <1>1, ContractCreate, ContractPush
  <1>2. CASE \E w \in Workers : WorkerStep(w)
    <2>1. PICK w \in Workers : WorkerStep(w)
      BY <1>2
    <2>2. CASE FindById(w)
      BY <2>2, ContractPrepare, ContractRelease
    <2>3. CASE \E result \in {"success", "failure"} : Do(w, result)
      BY <2>3, ContractDo
    <2> QED
      BY <2>1, <2>2, <2>3, ContractPop, ContractPrepare, ContractLog, ContractRelease
         DEF WorkerStep
  <1>3. CASE \E s \in Schedulers : SchedulerStep(s)
    BY <1>3, ContractFetch, ContractRequeue, ContractMark DEF SchedulerStep
  <1>4. CASE \E o \in Orgs : RotateSigningSecret(o)
    BY <1>0, <1>4, ContractTime DEF RotateSigningSecret
  <1>5. CASE \E o \in Deletable : DeleteOrg(o)
    BY <1>5, ContractDelete
  <1>6. CASE Tick
    BY <1>0, <1>6, ContractTime DEF Tick
  <1>7. CASE UNCHANGED vars
    BY <1>0, <1>7, ContractTime DEF vars
  <1> QED
    BY <1>1, <1>2, <1>3, <1>4, <1>5, <1>6, <1>7 DEF Next

\* The invariant holds in every behaviour with one scheduler.
THEOREM ContractHolds ==
    ASSUME OneScheduler PROVE Spec => [](CountInv /\ TokenInv /\ ContractInv)
  <1>1. Init => CountInv /\ TokenInv /\ ContractInv
    BY CountInit, TokenInit, ContractInit
  <1>2. CountInv /\ TokenInv /\ ContractInv /\ [Next]_vars
        => (CountInv /\ TokenInv /\ ContractInv)'
    BY CountNext, TokenNext, ContractNext
  <1> QED
    BY <1>1, <1>2, PTL DEF Spec

-----------------------------------------------------------------------------
(* What the endpoint, the log and the statuses show.                       *)

\* delivery_attempts lists every completed request once, in order, and nothing
\* after a success.
THEOREM LogTellsTheHistory == ASSUME OneScheduler PROVE Spec => []AttemptLog
  <1>1. CountInv /\ ContractInv => AttemptLog
    <2> SUFFICES ASSUME CountInv, ContractInv, NEW m \in Messages \ BinaryReply, Exists(m)
                 PROVE  LET log == attempts[m] IN
                        /\ \A i \in DOMAIN log : log[i].number = i
                        /\ \A i \in DOMAIN log : log[i].result = "success" => i = Len(log)
                        /\ Len(log) = acks[m] + fails[m]
                           \/ \E w \in Workers : /\ Holds(w, m)
                                                 /\ wk[w].pc = "responded"
                                                 /\ Len(log) + 1 = acks[m] + fails[m]
      BY DEF AttemptLog
    <2>1. Logged(m)
      BY DEF ContractInv, MessageInv
    <2> QED
      BY <2>1 DEF Logged, Unlogged
  <1> QED
    BY <1>1, ContractHolds, PTL

\* A message that is "success" or "failed" stays so until its organization is
\* deleted or the scheduler finishes a re-queue of that very message.
THEOREM FinalStatusStays == ASSUME OneScheduler PROVE Spec => FinalUnlessRequeued
  <1> DEFINE Stays == \A m \in Messages :
          /\ message[m].status \in {"success", "failed"}
          /\ message'[m].status # message[m].status
          => \/ message'[m].status = "absent"
             \/ \E s \in Schedulers : /\ sched[s].pc = "mark"
                                      /\ Head(sched[s].batch).msg = m
  <1>1. CountInv /\ TokenInv /\ ContractInv /\ [Next]_vars => [Stays]_vars
    <2> SUFFICES ASSUME CountInv, TokenInv, ContractInv, Next, NEW m \in Messages,
                        message[m].status \in {"success", "failed"},
                        message'[m] # message[m]
                 PROVE  \/ message'[m].status = "absent"
                        \/ \E s \in Schedulers : /\ sched[s].pc = "mark"
                                                 /\ Head(sched[s].batch).msg = m
      OBVIOUS
    <2>0. /\ ~Out(m)
          /\ api[m] # "new"
          /\ message \in [Messages -> Row]
      BY DEF ContractInv, MessageInv, Open, TokenInv, Unknown, CountInv, TypeOK
    <2>1. ASSUME NEW k \in Messages, CreateMessage(k) \/ PushMessage(k) PROVE FALSE
      BY <2>0, <2>1 DEF CreateMessage, PushMessage
    <2>2. ASSUME NEW w \in Workers, WorkerStep(w) PROVE FALSE
      <3>1. wk[w].pc # "idle" => wk[w].msg # m
        BY <2>0 DEF Out, Holds
      <3>2. CASE RefuseRequest(w)
        BY <2>0, <3>1, <3>2 DEF RefuseRequest, UpdateStatus
      <3>3. CASE Settle(w)
        BY <2>0, <3>1, <3>3 DEF Settle, RecordOutcome, UpdateStatus, Update
      <3> QED
        BY <2>2, <3>2, <3>3 DEF WorkerStep, Pop, FindById, Sign, Do, CreateAttempt
    <2>3. ASSUME NEW s \in Schedulers, SchedulerStep(s)
          PROVE  sched[s].pc = "mark" /\ Head(sched[s].batch).msg = m
      <3>1. CASE MarkPending(s)
        BY <2>0, <3>1 DEF MarkPending, Update
      <3> QED
        BY <2>3, <3>1 DEF SchedulerStep, FetchRetries, Requeue
    <2>4. ASSUME NEW o \in Deletable, DeleteOrg(o) PROVE message'[m].status = "absent"
      BY <2>4 DEF DeleteOrg, Absent
    <2>5. ~Tick /\ \A o \in Orgs : ~RotateSigningSecret(o)
      BY DEF Tick, RotateSigningSecret
    <2> QED
      BY <2>1, <2>2, <2>3, <2>4, <2>5 DEF Next
  <1> QED
    BY <1>1, ContractHolds, PTL DEF Spec, FinalUnlessRequeued

\* The pipeline implements DeliveryContract: requests for a message come one after
\* the other, never after a 2xx answer, at most MaxAttempts + 1 in all, and never
\* before the back-off of the last failure is over.
THEOREM PipelineMeetsContract == ASSUME OneScheduler PROVE Spec => MeetsContract
  <1>1. Init => Contract!CInit
    BY DEF Init, Contract!CInit
  <1>2. CountInv /\ TokenInv /\ ContractInv /\ [Next]_vars
        => [Contract!CNext]_(Contract!cvars)
    <2> SUFFICES ASSUME CountInv, TokenInv, ContractInv, [Next]_vars
                 PROVE  Contract!CNext \/ UNCHANGED Contract!cvars
      OBVIOUS
    <2>1. ASSUME NEW w \in Workers, NEW result \in {"success", "failure"}, Do(w, result)
          PROVE  Contract!CNext
      <3>1. PICK m \in Messages :
               /\ Allowed(m)
               /\ fails[m] <= MaxAttempts
               /\ acks' = IF result = "success" THEN [acks EXCEPT ![m] = 1] ELSE acks
               /\ fails' = IF result = "failure" THEN [fails EXCEPT ![m] = @ + 1] ELSE fails
               /\ sentAt' = [sentAt EXCEPT ![m] = now]
               /\ UNCHANGED now
        BY <2>1, DoIsAllowed
      <3>2. Contract!MayAttempt(m)
        BY <3>1 DEF Contract!MayAttempt, Allowed, Backoff
      <3>3. Contract!Succeed(m) \/ Contract!Fail(m)
        BY <3>1, <3>2 DEF Contract!Succeed, Contract!Fail
      <3> QED
        BY <3>3 DEF Contract!CNext
    <2>2. CASE Tick
      BY <2>2 DEF Tick, Contract!CNext, Contract!Wait
    <2>3. CASE UNCHANGED <<acks, fails, sentAt, now>>
      BY <2>3 DEF Contract!cvars
    <2> QED
      BY <2>1, <2>2, <2>3 DEF Next, vars, CreateMessage, PushMessage, WorkerStep, Pop,
         FindById, RefuseRequest, Sign, CreateAttempt, Settle, SchedulerStep,
         FetchRetries, Requeue, MarkPending, RotateSigningSecret, DeleteOrg
  <1> QED
    BY <1>1, <1>2, ContractHolds, PTL DEF Spec, MeetsContract, Contract!CSpec
=============================================================================
