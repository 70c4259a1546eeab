--------------------------- MODULE DeliveryProofs ---------------------------
(***************************************************************************)
(* Proofs about module Delivery, for every value of its constants.         *)
(***************************************************************************)
EXTENDS Delivery, TLAPS

-----------------------------------------------------------------------------
(* Facts about sequences and the histories.                                *)

\* The rest of a batch is a batch, and its elements are later elements of it.
LEMMA TailFacts ==
    ASSUME NEW S, NEW q \in Seq(S), q # <<>>
    PROVE  /\ Head(q) \in S
           /\ Head(q) = q[1]
           /\ 1 \in DOMAIN q
           /\ Tail(q) \in Seq(S)
           /\ Len(Tail(q)) = Len(q) - 1
           /\ \A i \in DOMAIN Tail(q) : i + 1 \in DOMAIN q /\ Tail(q)[i] = q[i + 1]
  OBVIOUS

\* An element of a sequence over S is in S.
LEMMA SeqElement ==
    ASSUME NEW S, NEW q \in Seq(S), NEW i \in DOMAIN q
    PROVE  q[i] \in S
  OBVIOUS

\* A function on 1..n is a sequence: the batch FetchRetries builds is one.
LEMMA BatchIsSeq ==
    ASSUME NEW S, NEW n \in Nat, NEW f \in [1..n -> S]
    PROVE  f \in Seq(S) /\ Len(f) = n /\ DOMAIN f = 1..n
  OBVIOUS

\* A history never decreases, and counts the first MaxAttempts + 1 events.
LEMMA CountUpFacts ==
    ASSUME NEW n \in Nat
    PROVE  /\ CountUp(n) \in Nat
           /\ CountUp(n) >= n
           /\ CountUp(n) > 0
           /\ \A c \in Nat : c <= n /\ c <= MaxAttempts => c + 1 <= CountUp(n)
  BY ConstantAssumption DEF CountUp

-----------------------------------------------------------------------------
(* Counting: what the rows and the copies of them say is backed by requests  *)
(* that were really made. Holds for any number of workers and schedulers.    *)

RowCounts(m) ==
    /\ message[m].attemptCount <= MaxAttempts
    /\ message[m].attemptCount <= fails[m]
    /\ message[m].status = "success" => acks[m] > 0
    /\ message[m].status = "failed" /\ m \notin BadURL => fails[m] >= MaxAttempts + 1

WorkerCounts(w) ==
    /\ wk[w].count <= MaxAttempts
    /\ wk[w].pc # "idle" => /\ wk[w].msg \in Messages
                            /\ wk[w].count <= fails[wk[w].msg]
    /\ wk[w].pc \in {"responded", "logged"} =>
           /\ wk[w].result = "success" => acks[wk[w].msg] > 0
           /\ wk[w].result = "failure" => wk[w].count + 1 <= fails[wk[w].msg]

BatchCounts(s) ==
    /\ sched[s].pc # "idle" => sched[s].batch # <<>>
    /\ \A i \in DOMAIN sched[s].batch :
           /\ sched[s].batch[i].count <= MaxAttempts
           /\ sched[s].batch[i].count <= fails[sched[s].batch[i].msg]

CountInv ==
    /\ TypeOK
    /\ \A m \in Messages : RowCounts(m)
    /\ \A w \in Workers : WorkerCounts(w)
    /\ \A s \in Schedulers : BatchCounts(s)

LEMMA CountInit == Init => CountInv
  <1> SUFFICES ASSUME Init PROVE CountInv
    OBVIOUS
  <1>1. TypeOK
    BY ConstantAssumption DEF Init, TypeOK, Row, Absent, Statuses, MessageStatus, Attempt, Results,
       WorkerState, Idle, SchedState, Sleeping, Entry
  <1>2. ASSUME NEW m \in Messages PROVE RowCounts(m)
    BY ConstantAssumption DEF Init, RowCounts, Absent
  <1>3. ASSUME NEW w \in Workers PROVE WorkerCounts(w)
    BY ConstantAssumption DEF Init, WorkerCounts, Idle
  <1>4. ASSUME NEW s \in Schedulers PROVE BatchCounts(s)
    BY DEF Init, BatchCounts, Sleeping
  <1> QED
    BY <1>1, <1>2, <1>3, <1>4 DEF CountInv

\* The two statements that write a row keep it a row.
LEMMA UpdateType ==
    ASSUME TypeOK, NEW m \in Messages, NEW st \in Statuses, NEW n \in Nat,
           NEW t \in Nat \cup {NULL}, Update(m, st, n, t)
    PROVE  /\ message' \in [Messages -> Row]
           /\ \A k \in Messages \ {m} : message'[k] = message[k]
           /\ message'[m] = message[m] \/
              message'[m] = [status |-> st, attemptCount |-> n, nextRetryAt |-> t]
  BY DEF TypeOK, Update, Row

LEMMA UpdateStatusType ==
    ASSUME TypeOK, NEW m \in Messages, NEW st \in Statuses, UpdateStatus(m, st)
    PROVE  /\ message' \in [Messages -> Row]
           /\ \A k \in Messages \ {m} : message'[k] = message[k]
           /\ message'[m].attemptCount = message[m].attemptCount
           /\ message'[m].nextRetryAt = message[m].nextRetryAt
           /\ message'[m].status \in {message[m].status, st}
  BY DEF TypeOK, UpdateStatus, Row

\* Steps of the Delivery service.
LEMMA CountService ==
    ASSUME CountInv, NEW m \in Messages, CreateMessage(m) \/ PushMessage(m)
    PROVE  CountInv'
  <1>1. CASE CreateMessage(m)
    <2>0. /\ message' \in [Messages -> Row]
          /\ api' \in [Messages -> {"new", "saved", "done", "rejected"}]
          /\ \A k \in Messages : message'[k] \in {message[k], NewRow}
      <3> NewRow \in Row
        BY ConstantAssumption DEF NewRow, Row, Statuses, MessageStatus
      <3> QED
        BY <1>1 DEF CountInv, TypeOK, CreateMessage
    <2>1. TypeOK'
      BY <1>1, <2>0 DEF CountInv, TypeOK, CreateMessage
    <2>2. ASSUME NEW k \in Messages PROVE RowCounts(k)'
      <3>1. RowCounts(k) /\ fails[k] \in Nat /\ UNCHANGED <<fails, acks>>
        BY <1>1 DEF CountInv, TypeOK, CreateMessage
      <3> QED
        BY <2>0, <3>1, ConstantAssumption DEF NewRow, RowCounts
    <2>3. ASSUME NEW w \in Workers PROVE WorkerCounts(w)'
      BY <1>1 DEF CountInv, CreateMessage, WorkerCounts
    <2>4. ASSUME NEW s \in Schedulers PROVE BatchCounts(s)'
      BY <1>1 DEF CountInv, CreateMessage, BatchCounts
    <2> QED
      BY <2>1, <2>2, <2>3, <2>4 DEF CountInv
  <1>2. CASE PushMessage(m)
    <2>1. TypeOK'
      BY <1>2 DEF CountInv, TypeOK, PushMessage, Push
    <2> QED
      BY <1>2, <2>1 DEF CountInv, PushMessage, RowCounts, WorkerCounts, BatchCounts
  <1> QED
    BY <1>1, <1>2

\* Steps of a worker up to the request.
LEMMA CountPrepare ==
    ASSUME CountInv, NEW w \in Workers, Pop(w) \/ FindById(w) \/ Sign(w)
    PROVE  CountInv'
  <1> USE DEF CountInv
  <1>0. /\ Idle \in WorkerState
        /\ wk[w] \in WorkerState
        /\ wk[w].pc # "idle" => wk[w].msg \in Messages
    BY ConstantAssumption DEF TypeOK, Idle, WorkerState, Results, WorkerCounts
  <1>1. CASE Pop(w)
    <2>1. Head(queue) \in Messages /\ Tail(queue) \in Seq(Messages)
      BY <1>1, TailFacts DEF TypeOK, Pop
    <2>2. /\ wk' \in [Workers -> WorkerState]
          /\ wk'[w].count = 0
          /\ wk'[w].pc = "popped"
          /\ wk'[w].msg = Head(queue)
          /\ \A v \in Workers \ {w} : wk'[v] = wk[v]
      BY <1>0, <1>1, <2>1 DEF TypeOK, Pop, Idle, WorkerState
    <2>3. TypeOK'
      BY <1>1, <2>1, <2>2 DEF TypeOK, Pop
    <2>4. ASSUME NEW v \in Workers PROVE WorkerCounts(v)'
      BY <1>1, <2>1, <2>2, ConstantAssumption DEF TypeOK, Pop, WorkerCounts
    <2> QED
      BY <1>1, <2>3, <2>4 DEF Pop, RowCounts, BatchCounts
  <1>2. CASE FindById(w)
    <2> DEFINE m == wk[w].msg
    <2>1. m \in Messages /\ message[m] \in Row /\ RowCounts(m)
      BY <1>0, <1>2 DEF TypeOK, FindById
    <2>2. /\ wk' \in [Workers -> WorkerState]
          /\ \/ wk'[w] = Idle
             \/ /\ wk'[w].pc = "loaded"
                /\ wk'[w].msg = m
                /\ wk'[w].count = message[m].attemptCount
          /\ \A v \in Workers \ {w} : wk'[v] = wk[v]
      BY <1>0, <1>2, <2>1 DEF TypeOK, FindById, WorkerState, Row
    <2>3. TypeOK'
      BY <1>2, <2>2 DEF TypeOK, FindById
    <2>4. ASSUME NEW v \in Workers PROVE WorkerCounts(v)'
      BY <1>2, <2>1, <2>2, ConstantAssumption
         DEF TypeOK, FindById, WorkerCounts, RowCounts, Idle
    <2> QED
      BY <1>2, <2>3, <2>4 DEF FindById, RowCounts, BatchCounts
  <1>3. CASE Sign(w)
    <2>1. GetSigningSecret(wk[w].msg) \in Nat \cup {NULL}
      BY <1>0, <1>3, ConstantAssumption DEF TypeOK, Sign, GetSigningSecret
    <2>2. /\ wk' \in [Workers -> WorkerState]
          /\ wk'[w].pc = "signed"
          /\ wk'[w].msg = wk[w].msg
          /\ wk'[w].count = wk[w].count
          /\ \A v \in Workers \ {w} : wk'[v] = wk[v]
      BY <1>0, <1>3, <2>1 DEF TypeOK, Sign, WorkerState
    <2>3. TypeOK'
      BY <1>3, <2>2 DEF TypeOK, Sign
    <2>4. ASSUME NEW v \in Workers PROVE WorkerCounts(v)'
      BY <1>3, <2>2 DEF Sign, WorkerCounts
    <2> QED
      BY <1>3, <2>3, <2>4 DEF Sign, RowCounts, BatchCounts
  <1> QED
    BY <1>1, <1>2, <1>3

\* The request: the one step that moves the histories.
LEMMA CountDo ==
    ASSUME CountInv, NEW w \in Workers, NEW result \in {"success", "failure"},
           Do(w, result)
    PROVE  CountInv'
  <1> USE DEF CountInv
  <1> DEFINE m == wk[w].msg
  <1>0. /\ wk[w] \in WorkerState
        /\ m \in Messages
        /\ wk[w].count \in Nat
        /\ wk[w].count <= MaxAttempts
        /\ wk[w].count <= fails[m]
        /\ acks[m] \in Nat
        /\ fails[m] \in Nat
    BY DEF TypeOK, Do, WorkerCounts, WorkerState
  <1>1. /\ wk' \in [Workers -> WorkerState]
        /\ wk'[w].pc = "responded"
        /\ wk'[w].msg = m
        /\ wk'[w].count = wk[w].count
        /\ wk'[w].result = result
        /\ \A v \in Workers \ {w} : wk'[v] = wk[v]
    BY <1>0 DEF TypeOK, Do, WorkerState, Results
  <1>2. /\ acks' \in [Messages -> Nat]
        /\ fails' \in [Messages -> Nat]
        /\ sentAt' \in [Messages -> Nat]
        /\ \A k \in Messages : acks'[k] >= acks[k] /\ fails'[k] >= fails[k]
        /\ result = "success" => acks'[m] > 0
        /\ result = "failure" => wk[w].count + 1 <= fails'[m]
    <2>1. /\ CountUp(acks[m]) \in Nat
          /\ CountUp(acks[m]) >= acks[m]
          /\ CountUp(acks[m]) > 0
          /\ CountUp(fails[m]) \in Nat
          /\ CountUp(fails[m]) >= fails[m]
          /\ wk[w].count + 1 <= CountUp(fails[m])
      BY <1>0, CountUpFacts
    <2> QED
      BY <1>0, <2>1 DEF TypeOK, Do
  <1>3. TypeOK'
    BY <1>1, <1>2 DEF TypeOK, Do
  <1>4. ASSUME NEW k \in Messages PROVE RowCounts(k)'
    <2>1. /\ RowCounts(k)
          /\ message' = message
          /\ message[k].attemptCount \in Nat
          /\ acks[k] \in Nat /\ fails[k] \in Nat
          /\ acks'[k] \in Nat /\ fails'[k] \in Nat
      BY <1>2 DEF TypeOK, Do, Row
    <2> QED
      BY <1>2, <2>1, ConstantAssumption DEF RowCounts
  <1>5. ASSUME NEW v \in Workers PROVE WorkerCounts(v)'
    <2>1. CASE v = w
      BY <1>0, <1>1, <1>2, <2>1 DEF WorkerCounts
    <2>2. CASE v # w
      <3>1. wk'[v] = wk[v] /\ wk[v].count \in Nat /\ WorkerCounts(v)
        BY <1>1, <2>2 DEF TypeOK, WorkerState
      <3> QED
        BY <1>2, <3>1 DEF TypeOK, WorkerCounts
    <2> QED
      BY <2>1, <2>2
  <1>6. ASSUME NEW s \in Schedulers PROVE BatchCounts(s)'
    <2>1. /\ BatchCounts(s)
          /\ sched' = sched
          /\ sched[s].batch \in Seq(Entry)
      BY DEF TypeOK, Do, SchedState
    <2>2. ASSUME NEW i \in DOMAIN sched[s].batch
          PROVE  sched[s].batch[i].count <= fails'[sched[s].batch[i].msg]
      <3>1. sched[s].batch[i] \in Entry
        BY <2>1, SeqElement
      <3>2. /\ sched[s].batch[i].count \in Nat
            /\ sched[s].batch[i].msg \in Messages
        BY <3>1 DEF Entry
      <3>3. sched[s].batch[i].count <= fails[sched[s].batch[i].msg]
        BY <2>1 DEF BatchCounts
      <3>4. fails \in [Messages -> Nat] /\ fails' \in [Messages -> Nat]
        BY <1>2 DEF TypeOK
      <3>5. fails'[sched[s].batch[i].msg] >= fails[sched[s].batch[i].msg]
        BY <1>2, <3>2
      <3> QED
        BY <3>2, <3>3, <3>4, <3>5
    <2> QED
      BY <2>1, <2>2 DEF BatchCounts
  <1> QED
    BY <1>3, <1>4, <1>5, <1>6

\* Steps of a worker after the request, and the refusal to make one.
LEMMA CountRecord ==
    ASSUME CountInv, NEW w \in Workers,
           RefuseRequest(w) \/ CreateAttempt(w) \/ Settle(w)
    PROVE  CountInv'
  <1> USE DEF CountInv
  <1> PICK m \in Messages : m = wk[w].msg
    BY DEF WorkerCounts, RefuseRequest, CreateAttempt, Settle
  <1>0. /\ Idle \in WorkerState
        /\ wk[w] \in WorkerState
        /\ wk[w].count \in Nat
        /\ wk[w].count <= MaxAttempts
        /\ wk[w].count <= fails[m]
        /\ wk[w].retryAt \in Nat \cup {NULL}
        /\ WorkerCounts(w)
        /\ fails[m] \in Nat
    BY ConstantAssumption DEF TypeOK, Idle, WorkerState, Results, WorkerCounts,
       RefuseRequest, CreateAttempt, Settle
  <1>1. CASE RefuseRequest(w)
    <2>1. /\ message' \in [Messages -> Row]
          /\ \A k \in Messages \ {m} : message'[k] = message[k]
          /\ message'[m].attemptCount = message[m].attemptCount
          /\ message'[m].status \in {message[m].status, "failed"}
      BY <1>0, <1>1, UpdateStatusType DEF RefuseRequest, Statuses, MessageStatus
    <2>2. wk' \in [Workers -> WorkerState] /\ wk' = [wk EXCEPT ![w] = Idle]
      BY <1>0, <1>1 DEF TypeOK, RefuseRequest
    <2>3. TypeOK'
      BY <1>1, <2>1, <2>2 DEF TypeOK, RefuseRequest
    <2>4. ASSUME NEW k \in Messages PROVE RowCounts(k)'
      BY <1>1, <2>1 DEF RefuseRequest, RowCounts
    <2>5. ASSUME NEW v \in Workers PROVE WorkerCounts(v)'
      BY <1>1, <2>2, ConstantAssumption DEF TypeOK, RefuseRequest, WorkerCounts, Idle
    <2> QED
      BY <1>1, <2>3, <2>4, <2>5 DEF RefuseRequest, BatchCounts
  <1>2. CASE CreateAttempt(w)
    <2>1. attempts' \in [Messages -> Seq(Attempt)]
      <3> DEFINE a == [number |-> wk[w].count + 1, result |-> wk[w].result]
      <3>1. a \in Attempt
        BY <1>0 DEF Attempt, WorkerState
      <3>2. attempts' = attempts \/ attempts' = [attempts EXCEPT ![m] = Append(@, a)]
        BY <1>2 DEF CreateAttempt, InsertAttempt
      <3> HIDE DEF a
      <3>3. attempts \in [Messages -> Seq(Attempt)] /\ attempts[m] \in Seq(Attempt)
        BY DEF TypeOK
      <3>4. Append(attempts[m], a) \in Seq(Attempt)
        BY <3>1, <3>3
      <3> QED
        BY <3>2, <3>3, <3>4
    <2>2. /\ wk' \in [Workers -> WorkerState]
          /\ wk'[w].pc = "logged"
          /\ wk'[w].msg = m
          /\ wk'[w].count = wk[w].count
          /\ wk'[w].result = wk[w].result
          /\ \A v \in Workers \ {w} : wk'[v] = wk[v]
      BY <1>0, <1>2 DEF TypeOK, CreateAttempt, WorkerState
    <2>3. TypeOK'
      BY <1>2, <2>1, <2>2 DEF TypeOK, CreateAttempt
    <2>4. ASSUME NEW v \in Workers PROVE WorkerCounts(v)'
      BY <1>0, <1>2, <2>2 DEF CreateAttempt, WorkerCounts
    <2> QED
      BY <1>2, <2>3, <2>4 DEF CreateAttempt, RowCounts, BatchCounts
  <1>3. CASE Settle(w)
    <2>1. /\ message' \in [Messages -> Row]
          /\ \A k \in Messages \ {m} : message'[k] = message[k]
          /\ RowCounts(m)'
      <3>0. RowCounts(m) /\ UNCHANGED <<acks, fails>>
        BY <1>0, <1>3 DEF Settle
      <3>1. CASE wk[w].result = "success" /\ UpdateStatus(m, "success")
        <4>1. /\ message' \in [Messages -> Row]
              /\ \A k \in Messages \ {m} : message'[k] = message[k]
              /\ message'[m].attemptCount = message[m].attemptCount
              /\ message'[m].status \in {message[m].status, "success"}
          BY <1>0, <3>1, UpdateStatusType DEF Statuses, MessageStatus
        <4>2. acks[m] > 0
          BY <1>0, <1>3, <3>1 DEF WorkerCounts, Settle
        <4> QED
          BY <3>0, <4>1, <4>2 DEF RowCounts
      <3>2. CASE /\ wk[w].result = "failure"
                 /\ wk[w].count < MaxAttempts
                 /\ Update(m, "retry", wk[w].count + 1, now + Backoff(wk[w].count))
        <4>1. /\ wk[w].count + 1 \in Nat
              /\ now + Backoff(wk[w].count) \in Nat \cup {NULL}
          <5>1. wk[w].count \in 0..MaxAttempts /\ now \in Nat
            BY <1>0, ConstantAssumption DEF TypeOK
          <5>2. Backoff(wk[w].count) \in Nat
            BY <5>1, BackoffAssumption
          <5> QED
            BY <5>1, <5>2
        <4>2. /\ message' \in [Messages -> Row]
              /\ \A k \in Messages \ {m} : message'[k] = message[k]
              /\ \/ message'[m] = message[m]
                 \/ /\ message'[m].attemptCount = wk[w].count + 1
                    /\ message'[m].status = "retry"
          <5> DEFINE n == wk[w].count + 1
                     t == now + Backoff(wk[w].count)
          <5>1. Update(m, "retry", n, t) /\ n \in Nat /\ t \in Nat \cup {NULL}
            BY <3>2, <4>1
          <5> HIDE DEF n, t
          <5>2. /\ message' \in [Messages -> Row]
                /\ \A k \in Messages \ {m} : message'[k] = message[k]
                /\ \/ message'[m] = message[m]
                   \/ message'[m] = [status |-> "retry", attemptCount |-> n,
                                     nextRetryAt |-> t]
            BY <5>1, UpdateType DEF Statuses, MessageStatus
          <5> QED
            BY <5>2 DEF n
        <4>3. wk[w].count + 1 <= fails[m]
          BY <1>0, <1>3, <3>2 DEF WorkerCounts, Settle
        <4> QED
          BY <1>0, <3>0, <3>2, <4>2, <4>3, ConstantAssumption DEF RowCounts
      <3>3. CASE /\ wk[w].result = "failure"
                 /\ wk[w].count >= MaxAttempts
                 /\ Update(m, "failed", wk[w].count, wk[w].retryAt)
        <4>1. /\ message' \in [Messages -> Row]
              /\ \A k \in Messages \ {m} : message'[k] = message[k]
              /\ \/ message'[m] = message[m]
                 \/ /\ message'[m].attemptCount = wk[w].count
                    /\ message'[m].status = "failed"
          <5> DEFINE n == wk[w].count
                     t == wk[w].retryAt
          <5>1. Update(m, "failed", n, t) /\ n \in Nat /\ t \in Nat \cup {NULL}
            BY <1>0, <3>3
          <5> HIDE DEF n, t
          <5>2. /\ message' \in [Messages -> Row]
                /\ \A k \in Messages \ {m} : message'[k] = message[k]
                /\ \/ message'[m] = message[m]
                   \/ message'[m] = [status |-> "failed", attemptCount |-> n,
                                     nextRetryAt |-> t]
            BY <5>1, UpdateType DEF Statuses, MessageStatus
          <5> QED
            BY <5>2 DEF n
        <4>2. wk[w].count + 1 <= fails[m]
          BY <1>0, <1>3, <3>3 DEF WorkerCounts, Settle
        <4>3. MaxAttempts + 1 <= fails[m]
          BY <1>0, <3>3, <4>2, ConstantAssumption
        <4> QED
          BY <1>0, <3>0, <4>1, <4>3, ConstantAssumption DEF RowCounts
      <3> QED
        BY <1>3, <3>1, <3>2, <3>3 DEF Settle, RecordOutcome
    <2>2. wk' \in [Workers -> WorkerState] /\ wk' = [wk EXCEPT ![w] = Idle]
      BY <1>0, <1>3 DEF TypeOK, Settle
    <2>3. TypeOK'
      BY <1>3, <2>1, <2>2 DEF TypeOK, Settle
    <2>4. ASSUME NEW k \in Messages PROVE RowCounts(k)'
      BY <1>3, <2>1 DEF Settle, RowCounts
    <2>5. ASSUME NEW v \in Workers PROVE WorkerCounts(v)'
      BY <1>3, <2>2, ConstantAssumption DEF TypeOK, Settle, WorkerCounts, Idle
    <2> QED
      BY <1>3, <2>3, <2>4, <2>5 DEF Settle, BatchCounts
  <1> QED
    BY <1>1, <1>2, <1>3

\* processRetries moves on to the next message of its batch.
LEMMA CountAdvance ==
    ASSUME CountInv, NEW s \in Schedulers, sched[s].pc # "idle", Advance(s),
           UNCHANGED fails
    PROVE  /\ sched' \in [Schedulers -> SchedState]
           /\ \A r \in Schedulers : BatchCounts(r)'
  <1> USE DEF CountInv
  <1> DEFINE q == sched[s].batch
  <1>1. q \in Seq(Entry) /\ q # <<>> /\ BatchCounts(s)
    BY DEF TypeOK, SchedState, BatchCounts
  <1>2. /\ Tail(q) \in Seq(Entry)
        /\ \A i \in DOMAIN Tail(q) : i + 1 \in DOMAIN q /\ Tail(q)[i] = q[i + 1]
    <2> HIDE DEF q
    <2> QED
      BY <1>1, TailFacts
  <1> DEFINE new == IF Tail(q) = <<>> THEN Sleeping
                    ELSE [pc |-> "push", batch |-> Tail(q)]
  <1>3. /\ new \in SchedState
        /\ sched' = [sched EXCEPT ![s] = new]
        /\ new.batch = Tail(q)
        /\ new.pc # "idle" => new.batch # <<>>
    <2>1. sched' = [sched EXCEPT ![s] = new]
      BY DEF Advance
    <2>2. CASE Tail(q) = <<>>
      BY <1>2, <2>1, <2>2 DEF SchedState, Sleeping
    <2>3. CASE Tail(q) # <<>>
      BY <1>2, <2>1, <2>3 DEF SchedState
    <2> QED
      BY <2>2, <2>3
  <1> HIDE DEF new
  <1>4. sched' \in [Schedulers -> SchedState]
    BY <1>3 DEF TypeOK
  <1>5. ASSUME NEW r \in Schedulers PROVE BatchCounts(r)'
    <2>1. CASE r = s
      <3>1. sched'[r] = new
        BY <1>3, <2>1 DEF TypeOK
      <3>2. ASSUME NEW i \in DOMAIN Tail(q)
            PROVE  /\ Tail(q)[i].count <= MaxAttempts
                   /\ Tail(q)[i].count <= fails[Tail(q)[i].msg]
        BY <1>1, <1>2 DEF BatchCounts
      <3> QED
        BY <1>3, <3>1, <3>2 DEF BatchCounts
    <2>2. CASE r # s
      BY <1>3, <2>2 DEF TypeOK, BatchCounts
    <2> QED
      BY <2>1, <2>2
  <1> QED
    BY <1>4, <1>5

\* Steps of a scheduler.
LEMMA CountSchedule ==
    ASSUME CountInv, NEW s \in Schedulers, SchedulerStep(s)
    PROVE  CountInv'
  <1> USE DEF CountInv
  <1>0. /\ sched[s] \in SchedState
        /\ sched[s].batch \in Seq(Entry)
        /\ BatchCounts(s)
    BY DEF TypeOK, SchedState
  <1>1. CASE FetchRetries(s)
    <2>0. PICK n \in 1..BatchLimit : \E b \in [1..n -> Due] :
              sched' = [sched EXCEPT ![s] =
                 [pc |-> "push",
                  batch |-> [i \in 1..n |-> [msg |-> b[i],
                                             count |-> message[b[i]].attemptCount,
                                             retryAt |-> message[b[i]].nextRetryAt]]]]
      BY <1>1 DEF FetchRetries
    <2>1. PICK b \in [1..n -> Due] :
              sched' = [sched EXCEPT ![s] =
                 [pc |-> "push",
                  batch |-> [i \in 1..n |-> [msg |-> b[i],
                                             count |-> message[b[i]].attemptCount,
                                             retryAt |-> message[b[i]].nextRetryAt]]]]
      BY <2>0
    <2> DEFINE batch == [i \in 1..n |-> [msg |-> b[i],
                                         count |-> message[b[i]].attemptCount,
                                         retryAt |-> message[b[i]].nextRetryAt]]
    <2>2. n \in Nat /\ n # 0
      BY ConstantAssumption
    <2>3. ASSUME NEW i \in 1..n
          PROVE  /\ batch[i] \in Entry
                 /\ batch[i].count <= MaxAttempts
                 /\ batch[i].count <= fails[batch[i].msg]
      <3>1. b[i] \in Messages /\ message[b[i]].nextRetryAt # NULL
        BY DEF Due
      <3>2. message[b[i]] \in Row /\ RowCounts(b[i])
        BY <3>1 DEF TypeOK
      <3> QED
        BY <3>1, <3>2 DEF Row, RowCounts, Entry
    <2>4. batch \in Seq(Entry) /\ Len(batch) = n /\ DOMAIN batch = 1..n
      <3>1. batch \in [1..n -> Entry]
        BY <2>3
      <3> HIDE DEF batch
      <3> QED
        BY <2>2, <3>1, BatchIsSeq
    <2>5. sched' = [sched EXCEPT ![s] = [pc |-> "push", batch |-> batch]]
      BY <2>1
    <2> HIDE DEF batch
    <2>6. sched' \in [Schedulers -> SchedState]
      BY <2>4, <2>5 DEF TypeOK, SchedState
    <2>7. TypeOK'
      BY <1>1, <2>6 DEF TypeOK, FetchRetries
    <2>8. ASSUME NEW r \in Schedulers PROVE BatchCounts(r)'
      <3>1. CASE r = s
        <4>1. sched'[r].batch = batch /\ fails' = fails
          BY <1>1, <2>5, <3>1 DEF TypeOK, FetchRetries
        <4>2. batch # <<>>
          BY <2>2, <2>4
        <4> QED
          BY <2>3, <2>4, <4>1, <4>2 DEF BatchCounts
      <3>2. CASE r # s
        BY <1>1, <2>5, <3>2 DEF TypeOK, FetchRetries, BatchCounts
      <3> QED
        BY <3>1, <3>2
    <2> QED
      BY <1>1, <2>7, <2>8 DEF FetchRetries, RowCounts, WorkerCounts
  <1>2. CASE Requeue(s)
    <2>1. queue' \in Seq(Messages)
      <3>1. sched[s].batch # <<>>
        BY <1>0, <1>2 DEF Requeue, BatchCounts
      <3>2. Head(sched[s].batch) \in Entry
        BY <1>0, <3>1, TailFacts
      <3>3. Head(sched[s].batch).msg \in Messages
        BY <3>2 DEF Entry
      <3> QED
        BY <1>2, <3>3 DEF TypeOK, Requeue, Push
    <2>2. /\ sched' \in [Schedulers -> SchedState]
          /\ sched'[s].batch = sched[s].batch
          /\ \A r \in Schedulers \ {s} : sched'[r] = sched[r]
      BY <1>0, <1>2 DEF TypeOK, Requeue, SchedState
    <2>3. TypeOK'
      BY <1>2, <2>1, <2>2 DEF TypeOK, Requeue
    <2>4. ASSUME NEW r \in Schedulers PROVE BatchCounts(r)'
      <3>1. sched[s].batch # <<>>
        BY <1>0, <1>2 DEF Requeue, BatchCounts
      <3> QED
        BY <1>2, <2>2, <3>1 DEF Requeue, BatchCounts
    <2> QED
      BY <1>2, <2>3, <2>4 DEF Requeue, RowCounts, WorkerCounts
  <1>3. CASE MarkPending(s)
    <2>1. sched[s].batch # <<>>
      BY <1>0, <1>3 DEF MarkPending, BatchCounts
    <2>2. PICK e \in Entry : /\ e = Head(sched[s].batch)
                             /\ e.count <= MaxAttempts
                             /\ e.count <= fails[e.msg]
      BY <1>0, <2>1, TailFacts DEF BatchCounts
    <2>3. e.msg \in Messages /\ e.count \in Nat /\ e.retryAt \in Nat \cup {NULL}
      BY DEF Entry
    <2>4. /\ message' \in [Messages -> Row]
          /\ \A k \in Messages : RowCounts(k)'
      <3>0. Update(e.msg, "pending", e.count, e.retryAt) /\ UNCHANGED <<acks, fails>>
        BY <1>3, <2>2 DEF MarkPending
      <3> DEFINE m == e.msg
                 n == e.count
                 t == e.retryAt
      <3>1. /\ Update(m, "pending", n, t)
            /\ m \in Messages /\ n \in Nat /\ t \in Nat \cup {NULL}
            /\ n <= MaxAttempts /\ n <= fails[m]
        BY <2>2, <2>3, <3>0
      <3> HIDE DEF m, n, t
      <3>2. /\ message' \in [Messages -> Row]
            /\ \A k \in Messages \ {m} : message'[k] = message[k]
            /\ \/ message'[m] = message[m]
               \/ message'[m] = [status |-> "pending", attemptCount |-> n,
                                 nextRetryAt |-> t]
        BY <3>1, UpdateType DEF Statuses, MessageStatus
      <3> QED
        BY <3>0, <3>1, <3>2 DEF RowCounts
    <2>5. clobbered' \subseteq Messages
      BY <1>3, <2>2, <2>3 DEF TypeOK, MarkPending
    <2>6. sched' \in [Schedulers -> SchedState] /\ \A r \in Schedulers : BatchCounts(r)'
      BY <1>3, CountAdvance DEF MarkPending
    <2>7. TypeOK'
      BY <1>3, <2>4, <2>5, <2>6 DEF TypeOK, MarkPending
    <2> QED
      BY <1>3, <2>4, <2>6, <2>7 DEF MarkPending, WorkerCounts
  <1> QED
    BY <1>1, <1>2, <1>3 DEF SchedulerStep

\* Steps of the API, and time.
LEMMA CountEnvironment ==
    ASSUME CountInv,
           \/ \E o \in Orgs : RotateSigningSecret(o)
           \/ \E o \in Deletable : DeleteOrg(o)
           \/ Tick
    PROVE  CountInv'
  <1> USE DEF CountInv
  <1>1. CASE \E o \in Orgs : RotateSigningSecret(o)
    <2>1. PICK o \in Orgs : RotateSigningSecret(o)
      BY <1>1
    <2>2. TypeOK'
      BY <2>1 DEF TypeOK, RotateSigningSecret
    <2> QED
      BY <2>1, <2>2 DEF RotateSigningSecret, RowCounts, WorkerCounts, BatchCounts
  <1>2. CASE \E o \in Deletable : DeleteOrg(o)
    <2>1. PICK o \in Deletable : DeleteOrg(o)
      BY <1>2
    <2>2. /\ message' \in [Messages -> Row]
          /\ \A k \in Messages : message'[k] \in {message[k], Absent}
      <3> Absent \in Row
        BY ConstantAssumption DEF Absent, Row, Statuses, MessageStatus
      <3> QED
        BY <2>1 DEF TypeOK, DeleteOrg
    <2>3. attempts' \in [Messages -> Seq(Attempt)] /\ secret' \in [Orgs -> Nat \cup {NULL}]
      <3> <<>> \in Seq(Attempt)
        OBVIOUS
      <3> QED
        BY <2>1, ConstantAssumption DEF TypeOK, DeleteOrg
    <2>4. TypeOK'
      BY <2>1, <2>2, <2>3 DEF TypeOK, DeleteOrg
    <2>5. ASSUME NEW k \in Messages PROVE RowCounts(k)'
      <3>1. /\ RowCounts(k)
            /\ fails[k] \in Nat
            /\ UNCHANGED <<acks, fails>>
            /\ message'[k] = message[k] \/ message'[k] = Absent
        BY <2>1, <2>2 DEF TypeOK, DeleteOrg
      <3> QED
        BY <3>1, ConstantAssumption DEF RowCounts, Absent
    <2> QED
      BY <2>1, <2>4, <2>5 DEF DeleteOrg, WorkerCounts, BatchCounts
  <1>3. CASE Tick
    <2>1. TypeOK'
      BY <1>3 DEF TypeOK, Tick
    <2> QED
      BY <1>3, <2>1 DEF Tick, RowCounts, WorkerCounts, BatchCounts
  <1> QED
    BY <1>1, <1>2, <1>3

LEMMA CountNext == CountInv /\ [Next]_vars => CountInv'
  <1> SUFFICES ASSUME CountInv, [Next]_vars PROVE CountInv'
    OBVIOUS
  <1>1. CASE \E m \in Messages : CreateMessage(m) \/ PushMessage(m)
    BY <1>1, CountService
  <1>2. CASE \E w \in Workers : WorkerStep(w)
    <2>1. PICK w \in Workers : WorkerStep(w)
      BY <1>2
    <2>2. CASE \E result \in {"success", "failure"} : Do(w, result)
      BY <2>2, CountDo
    <2> QED
      BY <2>1, <2>2, CountPrepare, CountRecord DEF WorkerStep
  <1>3. CASE \E s \in Schedulers : SchedulerStep(s)
    BY <1>3, CountSchedule
  <1>4. CASE \/ \E o \in Orgs : RotateSigningSecret(o)
             \/ \E o \in Deletable : DeleteOrg(o)
             \/ Tick
    BY <1>4, CountEnvironment
  <1>5. CASE UNCHANGED vars
    BY <1>5 DEF CountInv, TypeOK, RowCounts, WorkerCounts, BatchCounts, vars
  <1> QED
    BY <1>1, <1>2, <1>3, <1>4, <1>5 DEF Next

\* In every behaviour of the pipeline without faults each variable keeps its type.
THEOREM TypeCorrect == Spec => []TypeOK
  <1>1. CountInv => TypeOK
    BY DEF CountInv
  <1> QED
    BY <1>1, CountInit, CountNext, PTL DEF Spec

-----------------------------------------------------------------------------
(* Deletion and rotation: what the API's organization handlers do to work   *)
(* that is under way. For any number of workers and schedulers.             *)

\* Nothing but CreateMessage makes a row, and it does so only under the foreign key.
LEMMA OrphanNext == CountInv /\ NoOrphans /\ [Next]_vars => NoOrphans'
  <1> SUFFICES ASSUME CountInv, NoOrphans, [Next]_vars, NEW k \in Messages,
                      (secret[OrgOf[k]] = NULL)'
               PROVE  message'[k].status = "absent" /\ attempts'[k] = <<>>
    BY DEF NoOrphans, Exists
  <1> USE ConstantAssumption DEF CountInv
  <1>0. /\ secret[OrgOf[k]] = NULL => message[k].status = "absent" /\ attempts[k] = <<>>
        /\ message \in [Messages -> Row]
        /\ attempts \in [Messages -> Seq(Attempt)]
        /\ secret \in [Orgs -> Nat \cup {NULL}]
        /\ OrgOf[k] \in Orgs
    BY DEF NoOrphans, Exists, TypeOK
  <1>1. ASSUME NEW m \in Messages, CreateMessage(m) \/ PushMessage(m)
        PROVE  message'[k].status = "absent" /\ attempts'[k] = <<>>
    BY <1>0, <1>1 DEF CreateMessage, PushMessage
  <1>2. ASSUME NEW w \in Workers, WorkerStep(w)
        PROVE  message'[k].status = "absent" /\ attempts'[k] = <<>>
    <2>0. /\ secret' = secret
          /\ message[k].status = "absent"
          /\ attempts[k] = <<>>
      BY <1>0, <1>2 DEF WorkerStep, Pop, FindById, RefuseRequest, Sign, Do,
         CreateAttempt, Settle
    <2>1. message'[k] = message[k]
      <3>1. CASE RefuseRequest(w)
        BY <1>0, <2>0, <3>1 DEF RefuseRequest, UpdateStatus, Exists
      <3>2. CASE Settle(w)
        BY <1>0, <2>0, <3>2 DEF Settle, RecordOutcome, UpdateStatus, Update, Exists
      <3> QED
        BY <1>2, <3>1, <3>2 DEF WorkerStep, Pop, FindById, Sign, Do, CreateAttempt
    <2>2. attempts'[k] = attempts[k]
      <3>1. CASE CreateAttempt(w)
        BY <1>0, <2>0, <3>1 DEF CreateAttempt, InsertAttempt, Exists
      <3> QED
        BY <1>2, <3>1 DEF WorkerStep, Pop, FindById, RefuseRequest, Sign, Do, Settle
    <2> QED
      BY <2>0, <2>1, <2>2
  <1>3. ASSUME NEW s \in Schedulers, SchedulerStep(s)
        PROVE  message'[k].status = "absent" /\ attempts'[k] = <<>>
    <2>1. CASE MarkPending(s)
      BY <1>0, <2>1 DEF MarkPending, Update, Exists
    <2> QED
      BY <1>0, <1>3, <2>1 DEF SchedulerStep, FetchRetries, Requeue
  <1>4. ASSUME NEW o \in Orgs, RotateSigningSecret(o)
        PROVE  message'[k].status = "absent" /\ attempts'[k] = <<>>
    BY <1>0, <1>4 DEF RotateSigningSecret
  <1>5. ASSUME NEW o \in Deletable, DeleteOrg(o)
        PROVE  message'[k].status = "absent" /\ attempts'[k] = <<>>
    BY <1>0, <1>5 DEF DeleteOrg, Absent
  <1>6. CASE Tick
    BY <1>0, <1>6 DEF Tick
  <1>7. CASE UNCHANGED vars
    BY <1>0, <1>7 DEF vars
  <1> QED
    BY <1>1, <1>2, <1>3, <1>4, <1>5, <1>6, <1>7 DEF Next

LEMMA OrphanInit == Init => NoOrphans
  BY ConstantAssumption DEF Init, NoOrphans

\* A deleted organization's messages and attempts never come back, whatever the
\* workers and schedulers were doing when it was deleted.
THEOREM DeletedStaysDeleted == Spec => []NoOrphans
  BY CountInit, CountNext, OrphanInit, OrphanNext, PTL DEF Spec

\* A copy of the secret is taken by Sign and by nothing else.
Unsigned == \A w \in Workers : wk[w].pc \in {"popped", "loaded"} => wk[w].secret = NULL

LEMMA UnsignedNext == CountInv /\ Unsigned /\ [Next]_vars => Unsigned'
  <1> SUFFICES ASSUME CountInv, Unsigned, [Next]_vars, NEW v \in Workers,
                      wk'[v].pc \in {"popped", "loaded"}
               PROVE  wk'[v].secret = NULL
    BY DEF Unsigned
  <1>0. /\ wk \in [Workers -> WorkerState]
        /\ wk[v].pc \in {"popped", "loaded"} => wk[v].secret = NULL
    BY DEF CountInv, TypeOK, Unsigned
  <1>1. ASSUME NEW w \in Workers, WorkerStep(w)
        PROVE  wk'[v].secret = NULL
    <2>1. CASE Pop(w)
      BY <1>0, <2>1 DEF Pop, Idle
    <2>2. CASE FindById(w)
      BY <1>0, <2>2 DEF FindById, Idle, WorkerState
    <2>3. CASE Sign(w)
      BY <1>0, <2>3 DEF Sign, WorkerState
    <2>4. CASE \E result \in {"success", "failure"} : Do(w, result)
      BY <1>0, <2>4 DEF Do, WorkerState
    <2>5. CASE CreateAttempt(w)
      BY <1>0, <2>5 DEF CreateAttempt, WorkerState
    <2>6. CASE RefuseRequest(w) \/ Settle(w)
      BY <1>0, <2>6 DEF RefuseRequest, Settle, Idle
    <2> QED
      BY <1>1, <2>1, <2>2, <2>3, <2>4, <2>5, <2>6 DEF WorkerStep
  <1>2. CASE UNCHANGED wk
    BY <1>0, <1>2
  <1> QED
    BY <1>1, <1>2 DEF Next, vars, CreateMessage, PushMessage, SchedulerStep, FetchRetries,
       Requeue, MarkPending, RotateSigningSecret, DeleteOrg, Tick

\* Version v of o's secret is installed, or a later one, or none; and worker w has
\* signed nothing for o with an older one.
Reached(w, o, v) ==
    /\ secret[o] = NULL \/ secret[o] >= v
    /\ wk[w].pc = "signed" /\ OrgOf[wk[w].msg] = o
       => wk[w].secret = NULL \/ wk[w].secret >= v

LEMMA ReachedNext ==
    ASSUME NEW w \in Workers, NEW o \in Orgs, NEW v \in 1..MaxSecret
    PROVE  CountInv /\ Reached(w, o, v) /\ [Next]_vars => Reached(w, o, v)'
  <1> SUFFICES ASSUME CountInv, Reached(w, o, v), [Next]_vars PROVE Reached(w, o, v)'
    OBVIOUS
  <1> USE ConstantAssumption
  <1>0. /\ wk \in [Workers -> WorkerState]
        /\ secret \in [Orgs -> Nat \cup {NULL}]
        /\ v \in Nat
    BY DEF CountInv, TypeOK
  <1>1. secret'[o] = NULL \/ secret'[o] >= v
    <2>1. CASE secret' = secret
      BY <2>1 DEF Reached
    <2>2. CASE \E p \in Orgs : RotateSigningSecret(p)
      <3>1. PICK p \in Orgs : RotateSigningSecret(p)
        BY <2>2
      <3>2. CASE p = o
        BY <1>0, <3>1, <3>2 DEF RotateSigningSecret, Reached
      <3>3. CASE p # o
        BY <1>0, <3>1, <3>3 DEF RotateSigningSecret, Reached
      <3> QED
        BY <3>2, <3>3
    <2>3. CASE \E p \in Deletable : DeleteOrg(p)
      BY <1>0, <2>3 DEF DeleteOrg, Reached
    <2> QED
      BY <2>1, <2>2, <2>3 DEF Next, vars, CreateMessage, PushMessage, WorkerStep, Pop,
         FindById, RefuseRequest, Sign, Do, CreateAttempt, Settle, SchedulerStep,
         FetchRetries, Requeue, MarkPending, Tick
  <1>2. ASSUME wk'[w].pc = "signed", OrgOf[wk'[w].msg] = o
        PROVE  wk'[w].secret = NULL \/ wk'[w].secret >= v
    <2>1. ASSUME NEW u \in Workers, WorkerStep(u)
          PROVE  wk'[w] = wk[w] \/ Sign(w)
      <3>1. CASE u = w
        <4>1. CASE Pop(u)
          BY <1>0, <1>2, <3>1, <4>1 DEF Pop, Idle
        <4>2. CASE FindById(u)
          BY <1>0, <1>2, <3>1, <4>2 DEF FindById, Idle, WorkerState
        <4>3. CASE \E result \in {"success", "failure"} : Do(u, result)
          BY <1>0, <1>2, <3>1, <4>3 DEF Do, WorkerState
        <4>4. CASE CreateAttempt(u)
          BY <1>0, <1>2, <3>1, <4>4 DEF CreateAttempt, WorkerState
        <4>5. CASE RefuseRequest(u) \/ Settle(u)
          BY <1>0, <1>2, <3>1, <4>5 DEF RefuseRequest, Settle, Idle
        <4> QED
          BY <2>1, <3>1, <4>1, <4>2, <4>3, <4>4, <4>5 DEF WorkerStep
      <3>2. CASE u # w
        BY <1>0, <2>1, <3>2 DEF WorkerStep, Pop, FindById, RefuseRequest, Sign, Do,
           CreateAttempt, Settle
      <3> QED
        BY <3>1, <3>2
    <2>2. CASE wk'[w] = wk[w]
      BY <1>2, <2>2 DEF Reached
    <2>3. CASE Sign(w)
      <3>1. wk'[w].secret = secret[OrgOf[wk[w].msg]] /\ wk'[w].msg = wk[w].msg
        BY <1>0, <2>3 DEF Sign, GetSigningSecret, WorkerState
      <3> QED
        BY <1>2, <3>1 DEF Reached
    <2> QED
      BY <2>1, <2>2, <2>3 DEF Next, vars, CreateMessage, PushMessage, SchedulerStep,
         FetchRetries, Requeue, MarkPending, RotateSigningSecret, DeleteOrg, Tick
  <1> QED
    BY <1>1, <1>2 DEF Reached

\* Once version v of a secret is installed, a worker that was not already about to
\* send never sends a request signed with an older one.
THEOREM RotationReachesWorkers == Spec => RotationReaches
  <1>1. ASSUME NEW w \in Workers, NEW o \in Orgs, NEW v \in 1..MaxSecret
        PROVE  Spec => []((wk[w].pc # "signed" /\ secret[o] = v)
                          => [](wk[w].pc = "signed" /\ OrgOf[wk[w].msg] = o
                                => wk[w].secret = NULL \/ wk[w].secret >= v))
    <2>1. CountInv /\ Reached(w, o, v) /\ [Next]_vars => Reached(w, o, v)'
      BY ReachedNext
    <2>2. wk[w].pc # "signed" /\ secret[o] = v => Reached(w, o, v)
      BY ConstantAssumption DEF Reached
    <2>3. Reached(w, o, v) => (wk[w].pc = "signed" /\ OrgOf[wk[w].msg] = o
                               => wk[w].secret = NULL \/ wk[w].secret >= v)
      BY DEF Reached
    <2> QED
      BY <2>1, <2>2, <2>3, CountInit, CountNext, PTL DEF Spec
  <1> QED
    BY <1>1 DEF RotationReaches
=============================================================================
