------------------------ MODULE DeliveryTokenProofs -------------------------
(***************************************************************************)
(* Proofs about module Delivery with one scheduler, as k8s/scheduler.yaml  *)
(* deploys it: a message is never delivered by two workers at a time, and  *)
(* a pending message is on its way to a worker unless a stale write of the *)
(* scheduler hit it. For any number of messages and workers.               *)
(***************************************************************************)
EXTENDS DeliveryProofs

\* There is at most one scheduler.
OneScheduler == \A r, s \in Schedulers : r = s

-----------------------------------------------------------------------------
(* The inductive invariant.                                                *)

\* The id of m is in the queue or in a worker's hands.
Out(m) == InQueue(m) \/ \E w \in Workers : Holds(w, m)

\* Ids are never duplicated.
NoDuplicates ==
    /\ \A i, j \in DOMAIN queue : queue[i] = queue[j] => i = j
    /\ \A v, w \in Workers : \A m \in Messages : Holds(v, m) /\ Holds(w, m) => v = w
    /\ \A w \in Workers : \A m \in Messages : Holds(w, m) => ~InQueue(m)

\* Before QueueMessage has pushed m nobody else knows of it.
Unknown(m) ==
    /\ api[m] \in {"new", "saved"} => ~Out(m)
    /\ api[m] = "new" => message[m].status = "absent"
    /\ api[m] = "saved" => message[m].status \in {"pending", "absent"}

\* Scheduler s has pushed the first message of its batch and is about to mark it.
Marking(s, m) == sched[s].pc = "mark" /\ sched[s].batch[1].msg = m

\* A message that waits for a retry has no id out, except between the two
\* halves of its re-queue.
Waiting(m) ==
    message[m].status = "retry" /\ Out(m) => \E s \in Schedulers : Marking(s, m)

\* What a scheduler still has to push is as it read it; what it has pushed is as
\* it read it exactly as long as the id is out.
BatchTokens(s) ==
    LET batch == sched[s].batch IN
    /\ sched[s].pc = "idle" => batch = <<>>
    /\ \A i, j \in DOMAIN batch : batch[i].msg = batch[j].msg => i = j
    /\ \A i \in DOMAIN batch :
         /\ api[batch[i].msg] \notin {"new", "saved"}
         /\ sched[s].pc = "push" \/ i > 1 =>
              /\ ~Out(batch[i].msg)
              /\ Exists(batch[i].msg) => ~Stale(batch[i])
    /\ sched[s].pc = "mark" /\ Exists(batch[1].msg) =>
         (Out(batch[1].msg) <=> ~Stale(batch[1]))

\* A worker's copy of attempt_count is the row's.
FreshCopy(w) ==
    /\ wk[w].pc \notin {"idle", "popped"}
    /\ Exists(wk[w].msg)
    => wk[w].count = message[wk[w].msg].attemptCount

TokenInv ==
    /\ NoDuplicates
    /\ \A m \in Messages : Unknown(m) /\ Waiting(m)
    /\ \A s \in Schedulers : BatchTokens(s)
    /\ \A w \in Workers : FreshCopy(w)
    /\ NotStranded

-----------------------------------------------------------------------------
(* Facts about the queue.                                                  *)

LEMMA AppendMember ==
    ASSUME NEW S, NEW q \in Seq(S), NEW e \in S
    PROVE  /\ \A x \in S : (\E i \in DOMAIN Append(q, e) : Append(q, e)[i] = x)
                           <=> (x = e \/ \E i \in DOMAIN q : q[i] = x)
           /\ /\ \A i \in DOMAIN q : q[i] # e
              /\ \A i, j \in DOMAIN q : q[i] = q[j] => i = j
              => \A i, j \in DOMAIN Append(q, e) :
                     Append(q, e)[i] = Append(q, e)[j] => i = j
  <1>1. /\ DOMAIN Append(q, e) = 1..(Len(q) + 1)
        /\ DOMAIN q = 1..Len(q)
        /\ Len(q) \in Nat
        /\ \A i \in 1..Len(q) : Append(q, e)[i] = q[i]
        /\ Append(q, e)[Len(q) + 1] = e
    OBVIOUS
  <1>2. \A i \in 1..(Len(q) + 1) : i \in 1..Len(q) \/ i = Len(q) + 1
    BY <1>1
  <1>3. \A i \in 1..Len(q) : i \in 1..(Len(q) + 1)
    BY <1>1
  <1>4. Len(q) + 1 \in 1..(Len(q) + 1)
    BY <1>1
  <1>5. ASSUME NEW x \in S
        PROVE  (\E i \in DOMAIN Append(q, e) : Append(q, e)[i] = x)
               <=> (x = e \/ \E i \in DOMAIN q : q[i] = x)
    BY <1>1, <1>2, <1>3, <1>4
  <1>6. ASSUME \A i \in DOMAIN q : q[i] # e,
               \A i, j \in DOMAIN q : q[i] = q[j] => i = j
        PROVE  \A i, j \in DOMAIN Append(q, e) :
                   Append(q, e)[i] = Append(q, e)[j] => i = j
    BY <1>1, <1>2, <1>6
  <1> QED
    BY <1>5, <1>6

LEMMA TailMember ==
    ASSUME NEW S, NEW q \in Seq(S), q # <<>>,
           \A i, j \in DOMAIN q : q[i] = q[j] => i = j
    PROVE  /\ \A x \in S : (\E i \in DOMAIN Tail(q) : Tail(q)[i] = x)
                           <=> (x # Head(q) /\ \E i \in DOMAIN q : q[i] = x)
           /\ \A i, j \in DOMAIN Tail(q) : Tail(q)[i] = Tail(q)[j] => i = j
           /\ \E i \in DOMAIN q : q[i] = Head(q)
  <1>1. /\ Len(q) \in Nat \ {0}
        /\ DOMAIN q = 1..Len(q)
        /\ DOMAIN Tail(q) = 1..(Len(q) - 1)
        /\ \A i \in 1..(Len(q) - 1) : Tail(q)[i] = q[i + 1]
        /\ Head(q) = q[1]
    OBVIOUS
  <1>2. \A i \in 1..(Len(q) - 1) : i + 1 \in 1..Len(q) /\ i + 1 # 1
    BY <1>1
  <1>3. \A i \in 1..Len(q) : i = 1 \/ (i - 1 \in 1..(Len(q) - 1) /\ (i - 1) + 1 = i)
    BY <1>1
  <1>4. 1 \in DOMAIN q
    BY <1>1
  <1>5. ASSUME NEW x \in S
        PROVE  (\E i \in DOMAIN Tail(q) : Tail(q)[i] = x)
               <=> (x # Head(q) /\ \E i \in DOMAIN q : q[i] = x)
    <2>1. ASSUME NEW i \in DOMAIN Tail(q), Tail(q)[i] = x
          PROVE  x # Head(q) /\ \E j \in DOMAIN q : q[j] = x
      BY <1>1, <1>2, <1>4, <2>1
    <2>2. ASSUME NEW i \in DOMAIN q, q[i] = x, x # Head(q)
          PROVE  \E j \in DOMAIN Tail(q) : Tail(q)[j] = x
      <3>1. i - 1 \in DOMAIN Tail(q) /\ Tail(q)[i - 1] = q[i]
        BY <1>1, <1>3, <2>2
      <3> QED
        BY <2>2, <3>1
    <2> QED
      BY <2>1, <2>2
  <1>6. ASSUME NEW i \in DOMAIN Tail(q), NEW j \in DOMAIN Tail(q), Tail(q)[i] = Tail(q)[j]
        PROVE  i = j
    BY <1>1, <1>2, <1>6
  <1> QED
    BY <1>1, <1>4, <1>5, <1>6

\* What the types say of a batch.
LEMMA BatchFacts ==
    ASSUME CountInv, NEW s \in Schedulers
    PROVE  /\ sched[s].batch \in Seq(Entry)
           /\ \A i \in DOMAIN sched[s].batch : /\ sched[s].batch[i] \in Entry
                                               /\ sched[s].batch[i].msg \in Messages
           /\ sched[s].pc # "idle" => /\ sched[s].batch # <<>>
                                      /\ 1 \in DOMAIN sched[s].batch
                                      /\ Head(sched[s].batch) = sched[s].batch[1]
  <1>1. sched[s].batch \in Seq(Entry)
    BY DEF CountInv, TypeOK, SchedState
  <1>2. ASSUME NEW i \in DOMAIN sched[s].batch
        PROVE  sched[s].batch[i] \in Entry /\ sched[s].batch[i].msg \in Messages
    <2>1. sched[s].batch[i] \in Entry
      BY <1>1, SeqElement
    <2> QED
      BY <2>1 DEF Entry
  <1>3. ASSUME sched[s].pc # "idle"
        PROVE  /\ sched[s].batch # <<>>
               /\ 1 \in DOMAIN sched[s].batch
               /\ Head(sched[s].batch) = sched[s].batch[1]
    <2>1. sched[s].batch # <<>>
      BY <1>3 DEF CountInv, BatchCounts
    <2> QED
      BY <1>1, <2>1, TailFacts
  <1> QED
    BY <1>1, <1>2, <1>3

-----------------------------------------------------------------------------

LEMMA TokenInit == Init => TokenInv
  <1> SUFFICES ASSUME Init PROVE TokenInv
    OBVIOUS
  <1>1. /\ \A m \in Messages : ~Out(m)
        /\ NoDuplicates
    BY DEF Init, Out, InQueue, Holds, NoDuplicates, Idle
  <1>2. \A m \in Messages : Unknown(m) /\ Waiting(m)
    BY <1>1 DEF Init, Unknown, Waiting, Absent
  <1>3. \A s \in Schedulers : BatchTokens(s)
    BY DEF Init, BatchTokens, Sleeping
  <1>4. \A w \in Workers : FreshCopy(w)
    BY DEF Init, FreshCopy, Idle
  <1>5. NotStranded
    BY DEF Init, NotStranded, Absent
  <1> QED
    BY <1>1, <1>2, <1>3, <1>4, <1>5 DEF TokenInv

\* The scheduler's part of the invariant only speaks of messages that were pushed.
LEMMA BatchFrame ==
    ASSUME CountInv, TokenInv, NEW s \in Schedulers, sched'[s] = sched[s],
           \A k \in Messages : api[k] \notin {"new", "saved"} =>
               /\ api'[k] \notin {"new", "saved"}
               /\ Out(k)' <=> Out(k)
               /\ message'[k] = message[k]
    PROVE  BatchTokens(s)'
  <1>1. BatchTokens(s)
    BY DEF TokenInv
  <1>2. ASSUME NEW i \in DOMAIN sched[s].batch
        PROVE  LET e == sched[s].batch[i] IN
               /\ api'[e.msg] \notin {"new", "saved"}
               /\ Out(e.msg)' <=> Out(e.msg)
               /\ Exists(e.msg)' <=> Exists(e.msg)
               /\ Stale(e)' <=> Stale(e)
    <2>1. PICK e \in Entry : e = sched[s].batch[i] /\ e.msg \in Messages
      BY BatchFacts
    <2>2. api[e.msg] \notin {"new", "saved"}
      BY <1>1, <2>1 DEF BatchTokens
    <2>3. PICK m \in Messages : m = e.msg
      BY <2>1
    <2>4. /\ api'[m] \notin {"new", "saved"}
          /\ Out(m)' <=> Out(m)
          /\ message'[m] = message[m]
      BY <2>2, <2>3
    <2>5. (Exists(m)' <=> Exists(m)) /\ (Stale(e)' <=> Stale(e))
      BY <2>3, <2>4 DEF Exists, Stale
    <2> QED
      BY <2>1, <2>3, <2>4, <2>5
  <1> QED
    BY <1>1, <1>2, BatchFacts DEF BatchTokens

\* A step that changes no row, moves no id and leaves the schedulers alone.
LEMMA TokenFrame ==
    ASSUME TokenInv, NoDuplicates',
           UNCHANGED <<api, sched, message, clobbered>>,
           \A m \in Messages : Out(m)' <=> Out(m),
           \A w \in Workers : FreshCopy(w)',
           CountInv
    PROVE  TokenInv'
  <1>1. ASSUME NEW m \in Messages PROVE Unknown(m)' /\ Waiting(m)'
    BY DEF TokenInv, Unknown, Waiting, Marking
  <1>2. ASSUME NEW s \in Schedulers PROVE BatchTokens(s)'
    BY BatchFacts DEF TokenInv, BatchTokens, Exists, Stale
  <1>3. NotStranded'
    <2>1. \A m \in Messages : HasToken(m)' <=> HasToken(m)
      BY DEF HasToken, Out
    <2> QED
      BY <2>1 DEF TokenInv, NotStranded
  <1> QED
    BY <1>1, <1>2, <1>3 DEF TokenInv

\* Steps of the Delivery service.
LEMMA TokenCreate ==
    ASSUME CountInv, TokenInv, NEW m \in Messages, CreateMessage(m)
    PROVE  TokenInv'
  <1>0. /\ \A k \in Messages : Out(k)' <=> Out(k)
        /\ NoDuplicates'
        /\ UNCHANGED <<queue, wk, sched, clobbered>>
    BY DEF CreateMessage, TokenInv, Out, InQueue, Holds, NoDuplicates
  <1>1. /\ api[m] = "new"
        /\ ~Out(m)
        /\ message[m].status = "absent"
        /\ \A k \in Messages \ {m} : api'[k] = api[k] /\ message'[k] = message[k]
        /\ \/ api'[m] = "rejected" /\ message'[m] = message[m]
           \/ api'[m] = "saved" /\ message'[m] = NewRow
    BY DEF CountInv, TypeOK, CreateMessage, TokenInv, Unknown
  <1>2. ASSUME NEW k \in Messages PROVE Unknown(k)' /\ Waiting(k)'
    BY <1>0, <1>1 DEF TokenInv, Unknown, Waiting, Marking, NewRow
  <1>3. ASSUME NEW s \in Schedulers PROVE BatchTokens(s)'
    BY <1>0, <1>1, BatchFrame
  <1>4. ASSUME NEW w \in Workers PROVE FreshCopy(w)'
    <2>1. wk[w].pc # "idle" => wk[w].msg \in Messages /\ wk[w].msg # m
      BY <1>1 DEF CountInv, WorkerCounts, Out, Holds
    <2> QED
      BY <1>0, <1>1, <2>1 DEF TokenInv, FreshCopy, Exists
  <1>5. NotStranded'
    <2>1. /\ \A k \in Messages : InQueue(k)' <=> InQueue(k)
          /\ \A w \in Workers : \A k \in Messages : Holds(w, k)' <=> Holds(w, k)
      BY <1>0 DEF InQueue, Holds
    <2> QED
      BY <1>0, <1>1, <2>1 DEF TokenInv, NotStranded, HasToken
  <1> QED
    BY <1>0, <1>2, <1>3, <1>4, <1>5 DEF TokenInv

LEMMA TokenPush ==
    ASSUME CountInv, TokenInv, NEW m \in Messages, PushMessage(m)
    PROVE  TokenInv'
  <1>0. /\ api[m] = "saved"
        /\ api'[m] = "done"
        /\ ~Out(m)
        /\ message[m].status \in {"pending", "absent"}
        /\ \A k \in Messages \ {m} : api'[k] = api[k]
        /\ UNCHANGED <<message, wk, sched, clobbered>>
    BY DEF CountInv, TypeOK, PushMessage, TokenInv, Unknown
  <1>1. /\ \A k \in Messages : InQueue(k)' <=> InQueue(k) \/ k = m
        /\ \A i, j \in DOMAIN queue' : queue'[i] = queue'[j] => i = j
    <2>1. queue \in Seq(Messages) /\ queue' = Append(queue, m)
      BY DEF CountInv, TypeOK, PushMessage, Push
    <2>2. /\ \A i \in DOMAIN queue : queue[i] # m
          /\ \A i, j \in DOMAIN queue : queue[i] = queue[j] => i = j
      BY <1>0 DEF Out, InQueue, TokenInv, NoDuplicates
    <2> QED
      BY <2>1, <2>2, AppendMember DEF InQueue
  <1>2. \A w \in Workers : \A k \in Messages : Holds(w, k)' <=> Holds(w, k)
    BY <1>0 DEF Holds
  <1>3. \A k \in Messages : Out(k)' <=> Out(k) \/ k = m
    BY <1>1, <1>2 DEF Out
  <1>4. NoDuplicates'
    BY <1>0, <1>1, <1>2 DEF TokenInv, NoDuplicates, Out
  <1>5. ASSUME NEW k \in Messages PROVE Unknown(k)' /\ Waiting(k)'
    BY <1>0, <1>3 DEF TokenInv, Unknown, Waiting, Marking
  <1>6. ASSUME NEW s \in Schedulers PROVE BatchTokens(s)'
    BY <1>0, <1>3, BatchFrame
  <1>7. ASSUME NEW w \in Workers PROVE FreshCopy(w)'
    BY <1>0 DEF TokenInv, FreshCopy, Exists
  <1>8. NotStranded'
    BY <1>0, <1>1, <1>2 DEF TokenInv, NotStranded, HasToken
  <1> QED
    BY <1>4, <1>5, <1>6, <1>7, <1>8 DEF TokenInv

\* Steps of a worker that keep the id where it is, or take it from the queue.
LEMMA TokenPop ==
    ASSUME CountInv, TokenInv, NEW w \in Workers, Pop(w)
    PROVE  TokenInv'
  <1> DEFINE m == Head(queue)
  <1>0. /\ queue \in Seq(Messages) /\ queue # <<>> /\ queue' = Tail(queue)
        /\ wk[w].pc = "idle"
        /\ m \in Messages
        /\ UNCHANGED <<api, message, sched, clobbered>>
    BY TailFacts DEF CountInv, TypeOK, Pop
  <1>1. /\ \A k \in Messages : InQueue(k)' <=> InQueue(k) /\ k # m
        /\ \A i, j \in DOMAIN queue' : queue'[i] = queue'[j] => i = j
        /\ InQueue(m)
    BY <1>0, TailMember DEF InQueue, TokenInv, NoDuplicates
  <1>2. /\ \A v \in Workers \ {w} : wk'[v] = wk[v]
        /\ wk'[w].pc = "popped"
        /\ wk'[w].msg = m
    BY DEF CountInv, TypeOK, Pop, Idle
  <1> HIDE DEF m
  <1>3. \A v \in Workers : \A k \in Messages :
           Holds(v, k)' <=> Holds(v, k) \/ (v = w /\ k = m)
    BY <1>0, <1>2 DEF Holds
  <1>4. \A k \in Messages : Out(k)' <=> Out(k)
    BY <1>0, <1>1, <1>3 DEF Out
  <1>5. NoDuplicates'
    BY <1>0, <1>1, <1>3 DEF TokenInv, NoDuplicates
  <1>6. ASSUME NEW v \in Workers PROVE FreshCopy(v)'
    BY <1>0, <1>2 DEF TokenInv, FreshCopy, Exists
  <1> QED
    BY <1>0, <1>4, <1>5, <1>6, TokenFrame

LEMMA TokenKeep ==
    ASSUME CountInv, TokenInv, NEW w \in Workers,
           \/ FindById(w) /\ Exists(wk[w].msg)
           \/ Sign(w)
           \/ \E result \in {"success", "failure"} : Do(w, result)
           \/ CreateAttempt(w)
    PROVE  TokenInv'
  <1>0. /\ UNCHANGED <<api, message, queue, sched, clobbered>>
        /\ wk[w].pc # "idle"
        /\ wk'[w].pc # "idle"
        /\ wk'[w].msg = wk[w].msg
        /\ \/ wk'[w].count = message[wk[w].msg].attemptCount
           \/ wk'[w].count = wk[w].count /\ wk[w].pc # "popped"
        /\ \A v \in Workers \ {w} : wk'[v] = wk[v]
    <2> wk \in [Workers -> WorkerState]
      BY DEF CountInv, TypeOK
    <2>1. CASE FindById(w) /\ Exists(wk[w].msg)
      BY <2>1 DEF FindById, WorkerState
    <2>2. CASE Sign(w)
      BY <2>2 DEF Sign, WorkerState
    <2>3. CASE \E result \in {"success", "failure"} : Do(w, result)
      BY <2>3 DEF Do, WorkerState
    <2>4. CASE CreateAttempt(w)
      BY <2>4 DEF CreateAttempt, WorkerState
    <2> QED
      BY <2>1, <2>2, <2>3, <2>4
  <1>1. \A v \in Workers : \A k \in Messages : Holds(v, k)' <=> Holds(v, k)
    BY <1>0 DEF Holds
  <1>2. \A k \in Messages : InQueue(k)' <=> InQueue(k)
    BY <1>0 DEF InQueue
  <1>3. (\A k \in Messages : Out(k)' <=> Out(k)) /\ NoDuplicates'
    BY <1>0, <1>1, <1>2 DEF Out, TokenInv, NoDuplicates
  <1>4. ASSUME NEW v \in Workers PROVE FreshCopy(v)'
    BY <1>0 DEF TokenInv, FreshCopy, Exists
  <1> QED
    BY <1>0, <1>3, <1>4, TokenFrame

\* A worker lets go of its message: there is no row, or it writes one that no
\* scheduler can take for the one it read.
LEMMA TokenDrop ==
    ASSUME CountInv, TokenInv, NEW w \in Workers, NEW m \in Messages, Holds(w, m),
           wk' = [wk EXCEPT ![w] = Idle],
           UNCHANGED <<api, queue, sched, clobbered>>,
           \A k \in Messages \ {m} : message'[k] = message[k],
           ~Exists(m) => message'[m] = message[m],
           Exists(m) => /\ message'[m].status \in {"success", "failed", "retry"}
                        /\ message'[m].status = "retry" =>
                               message'[m].attemptCount # message[m].attemptCount
    PROVE  TokenInv'
  <1>0. /\ wk[w].pc # "idle" /\ wk[w].msg = m
        /\ wk'[w].pc = "idle"
        /\ \A v \in Workers \ {w} : wk'[v] = wk[v]
    BY DEF CountInv, TypeOK, Holds, Idle
  <1>1. /\ \A k \in Messages : InQueue(k)' <=> InQueue(k)
        /\ \A v \in Workers : \A k \in Messages : Holds(v, k)' <=> Holds(v, k) /\ v # w
    BY <1>0 DEF InQueue, Holds
  <1>2. /\ Out(m)
        /\ ~Out(m)'
        /\ \A k \in Messages \ {m} : Out(k)' <=> Out(k)
    <2>1. \A k \in Messages : Holds(w, k) => k = m
      BY <1>0 DEF Holds
    <2> QED
      BY <1>1, <2>1 DEF TokenInv, NoDuplicates, Out
  <1>3. NoDuplicates'
    BY <1>1 DEF TokenInv, NoDuplicates
  <1>4. api[m] \notin {"new", "saved"} /\ (Exists(m)' <=> Exists(m))
    BY <1>2 DEF TokenInv, Unknown, Exists
  <1>5. ASSUME NEW k \in Messages PROVE Unknown(k)' /\ Waiting(k)'
    BY <1>2, <1>4 DEF TokenInv, Unknown, Waiting, Marking
  <1>6. ASSUME NEW s \in Schedulers PROVE BatchTokens(s)'
    <2>1. BatchTokens(s) /\ sched'[s] = sched[s]
      BY DEF TokenInv
    <2>2. ASSUME NEW i \in DOMAIN sched[s].batch
          PROVE  LET e == sched[s].batch[i] IN
                 /\ api'[e.msg] \notin {"new", "saved"}
                 /\ sched[s].pc = "push" \/ i > 1 =>
                      /\ ~Out(e.msg)'
                      /\ Exists(e.msg)' => ~Stale(e)'
                 /\ sched[s].pc = "mark" /\ i = 1 /\ Exists(e.msg)' =>
                      (Out(e.msg)' <=> ~Stale(e)')
      <3>1. PICK e \in Entry : e = sched[s].batch[i] /\ e.msg \in Messages
        BY BatchFacts
      <3>2. CASE e.msg # m
        <4>1. PICK k \in Messages \ {m} : k = e.msg
          BY <3>1, <3>2
        <4>2. (Exists(k)' <=> Exists(k)) /\ (Stale(e)' <=> Stale(e)) /\ (Out(k)' <=> Out(k))
          BY <1>2, <4>1 DEF Exists, Stale
        <4> QED
          BY <2>1, <3>1, <4>1, <4>2 DEF BatchTokens
      <3>3. CASE e.msg = m
        <4>1. ~(sched[s].pc = "push" \/ i > 1)
          BY <1>2, <2>1, <3>1, <3>3 DEF BatchTokens
        <4>2. sched[s].pc = "mark" /\ i = 1 /\ Exists(m) => ~Stale(e)
          BY <1>2, <2>1, <3>1, <3>3 DEF BatchTokens
        <4>3. sched[s].pc = "mark" /\ i = 1 /\ Exists(m) => Stale(e)'
          BY <3>3, <4>2 DEF Stale
        <4> QED
          BY <1>2, <1>4, <2>1, <3>1, <3>3, <4>1, <4>3
      <3> QED
        BY <3>2, <3>3
    <2> QED
      BY <2>1, <2>2, BatchFacts DEF BatchTokens
  <1>7. ASSUME NEW v \in Workers PROVE FreshCopy(v)'
    <2>1. CASE v = w
      BY <1>0, <2>1 DEF FreshCopy
    <2>2. CASE v # w
      <3>1. wk'[v] = wk[v] /\ (wk[v].pc # "idle" => wk[v].msg \in Messages /\ wk[v].msg # m)
        BY <1>0, <2>2 DEF CountInv, WorkerCounts, TokenInv, NoDuplicates, Holds
      <3> QED
        BY <3>1 DEF TokenInv, FreshCopy, Exists
    <2> QED
      BY <2>1, <2>2
  <1>8. NotStranded'
    <2>1. ASSUME NEW k \in Messages \ {m}
          PROVE  (HasToken(k)' <=> HasToken(k)) /\ message'[k] = message[k]
      BY <1>2 DEF HasToken, Out
    <2>2. message'[m].status # "pending"
      BY DEF Exists
    <2> QED
      BY <2>1, <2>2 DEF TokenInv, NotStranded
  <1> QED
    BY <1>3, <1>5, <1>6, <1>7, <1>8 DEF TokenInv

LEMMA TokenRelease ==
    ASSUME CountInv, TokenInv, NEW w \in Workers,
           \/ FindById(w) /\ ~Exists(wk[w].msg)
           \/ RefuseRequest(w)
           \/ Settle(w)
    PROVE  TokenInv'
  <1>0. PICK m \in Messages : Holds(w, m) /\ m = wk[w].msg
    BY DEF CountInv, WorkerCounts, Holds, FindById, RefuseRequest, Settle
  <1>1. CASE FindById(w) /\ ~Exists(wk[w].msg)
    BY <1>0, <1>1, TokenDrop DEF FindById
  <1>2. CASE RefuseRequest(w)
    <2>1. /\ \A k \in Messages \ {m} : message'[k] = message[k]
          /\ ~Exists(m) => message'[m] = message[m]
          /\ Exists(m) => message'[m].status = "failed"
      BY <1>0, <1>2 DEF RefuseRequest, UpdateStatus, CountInv, TypeOK, Row
    <2> QED
      BY <1>0, <1>2, <2>1, TokenDrop DEF RefuseRequest
  <1>3. CASE Settle(w)
    <2>0. /\ message \in [Messages -> Row]
          /\ Exists(m) => wk[w].count = message[m].attemptCount
          /\ wk[w].count \in Nat
      BY <1>0, <1>3 DEF CountInv, TypeOK, WorkerState, TokenInv, FreshCopy, Settle
    <2>1. /\ \A k \in Messages \ {m} : message'[k] = message[k]
          /\ ~Exists(m) => message'[m] = message[m]
          /\ Exists(m) => \/ message'[m].status \in {"success", "failed"}
                          \/ /\ message'[m].status = "retry"
                             /\ message'[m].attemptCount = wk[w].count + 1
      <3>1. CASE UpdateStatus(m, "success")
        BY <2>0, <3>1 DEF UpdateStatus, Row
      <3>2. CASE Update(m, "retry", wk[w].count + 1, now + Backoff(wk[w].count))
        BY <2>0, <3>2 DEF Update
      <3>3. CASE Update(m, "failed", wk[w].count, wk[w].retryAt)
        BY <2>0, <3>3 DEF Update
      <3> QED
        BY <1>0, <1>3, <3>1, <3>2, <3>3 DEF Settle, RecordOutcome
    <2>2. Exists(m) => /\ message'[m].status \in {"success", "failed", "retry"}
                       /\ message'[m].status = "retry" =>
                              message'[m].attemptCount # message[m].attemptCount
      BY <2>0, <2>1
    <2> QED
      BY <1>0, <1>3, <2>1, <2>2, TokenDrop DEF Settle
  <1> QED
    BY <1>1, <1>2, <1>3

\* Steps of the scheduler: it reads messages that nobody has, ...
LEMMA TokenFetch ==
    ASSUME CountInv, TokenInv, OneScheduler, NEW s \in Schedulers, FetchRetries(s)
    PROVE  TokenInv'
  <1>0. /\ sched[s].pc = "idle"
        /\ UNCHANGED <<api, message, queue, wk, clobbered>>
    BY DEF FetchRetries
  <1>1. PICK n \in 1..BatchLimit : \E b \in [1..n -> Due] :
            /\ IsRetryReady(b)
            /\ sched' = [sched EXCEPT ![s] =
                 [pc |-> "push",
                  batch |-> [i \in 1..n |-> [msg |-> b[i],
                                             count |-> message[b[i]].attemptCount,
                                             retryAt |-> message[b[i]].nextRetryAt]]]]
    BY DEF FetchRetries
  <1>2. PICK b \in [1..n -> Due] :
            /\ IsRetryReady(b)
            /\ sched' = [sched EXCEPT ![s] =
                 [pc |-> "push",
                  batch |-> [i \in 1..n |-> [msg |-> b[i],
                                             count |-> message[b[i]].attemptCount,
                                             retryAt |-> message[b[i]].nextRetryAt]]]]
    BY <1>1
  <1>3. ASSUME NEW k \in Messages
        PROVE  /\ Out(k)' <=> Out(k)
               /\ HasToken(k)' <=> HasToken(k)
               /\ Unknown(k)'
               /\ message[k].status = "retry" => ~Out(k) /\ api[k] \notin {"new", "saved"}
    <2>1. /\ Out(k)' <=> Out(k)
          /\ HasToken(k)' <=> HasToken(k)
      BY <1>0 DEF Out, HasToken, InQueue, Holds
    <2>2. ~\E r \in Schedulers : Marking(r, k)
      BY <1>0 DEF OneScheduler, Marking
    <2>3. Unknown(k) /\ Waiting(k)
      BY DEF TokenInv
    <2> QED
      BY <1>0, <2>1, <2>2, <2>3 DEF Unknown, Waiting
  <1>4. ASSUME NEW k \in Messages PROVE Waiting(k)'
    BY <1>0, <1>3 DEF Waiting
  <1>5. /\ sched'[s].pc = "push"
        /\ DOMAIN sched'[s].batch = 1..n
        /\ \A i \in 1..n : sched'[s].batch[i] =
               [msg |-> b[i], count |-> message[b[i]].attemptCount,
                retryAt |-> message[b[i]].nextRetryAt]
        /\ \A i \in 1..n : sched'[s].batch[i].msg = b[i]
    BY <1>2 DEF CountInv, TypeOK
  <1>6. \A i, j \in 1..n : b[i] = b[j] => i = j
    <2>1. \A i, j \in 1..n : i < j => b[i] # b[j]
      BY <1>2 DEF IsRetryReady
    <2>2. \A i, j \in 1..n : i < j \/ j < i \/ i = j
      BY ConstantAssumption
    <2> QED
      BY <2>1, <2>2
  <1>7. ASSUME NEW i \in 1..n
        PROVE  /\ b[i] \in Messages
               /\ api[b[i]] \notin {"new", "saved"}
               /\ ~Out(b[i])
               /\ message[b[i]] = [status |-> "retry",
                                   attemptCount |-> message[b[i]].attemptCount,
                                   nextRetryAt |-> message[b[i]].nextRetryAt]
    <2>1. b[i] \in Messages /\ message[b[i]].status = "retry"
      BY DEF Due
    <2>2. message[b[i]] \in Row
      BY <2>1 DEF CountInv, TypeOK
    <2> QED
      BY <1>3, <2>1, <2>2 DEF Row
  <1>8. ASSUME NEW r \in Schedulers PROVE BatchTokens(r)'
    <2>1. r = s
      BY DEF OneScheduler
    <2>2. ASSUME NEW i \in 1..n
          PROVE  /\ api'[sched'[s].batch[i].msg] \notin {"new", "saved"}
                 /\ ~Out(sched[s].batch[i].msg)'
                 /\ ~Stale(sched[s].batch[i])'
      <3>1. PICK m \in Messages : m = b[i]
        BY <1>7
      <3>2. PICK e : e = sched'[s].batch[i]
        OBVIOUS
      <3>3. e = [msg |-> m, count |-> message[m].attemptCount,
                 retryAt |-> message[m].nextRetryAt]
        BY <1>5, <3>1, <3>2
      <3>4. /\ api[m] \notin {"new", "saved"}
            /\ ~Out(m)
            /\ message[m] = [status |-> "retry",
                             attemptCount |-> message[m].attemptCount,
                             nextRetryAt |-> message[m].nextRetryAt]
        BY <1>7, <3>1
      <3>5. ~Out(m)'
        BY <1>3, <3>4
      <3>6. ~Stale(e)'
        <4>1. e.msg = m /\ e.count = message[m].attemptCount
                       /\ e.retryAt = message[m].nextRetryAt
          BY <3>3
        <4>2. message' = message
          BY <1>0
        <4> QED
          BY <3>4, <4>1, <4>2 DEF Stale
      <3>7. e.msg = m
        BY <3>3
      <3> QED
        BY <1>0, <3>2, <3>4, <3>5, <3>6, <3>7
    <2>3. \A i, j \in 1..n : sched'[s].batch[i].msg = sched'[s].batch[j].msg => i = j
      <3>1. ASSUME NEW i \in 1..n, NEW j \in 1..n,
                   sched'[s].batch[i].msg = sched'[s].batch[j].msg
            PROVE  i = j
        <4>1. sched'[s].batch[i].msg = b[i] /\ sched'[s].batch[j].msg = b[j]
          BY <1>5
        <4> QED
          BY <1>6, <3>1, <4>1
      <3> QED
        BY <3>1
    <2>4. BatchTokens(s)'
      BY <1>5, <2>2, <2>3 DEF BatchTokens
    <2> QED
      BY <2>1, <2>4
  <1>9. NoDuplicates' /\ NotStranded' /\ \A w \in Workers : FreshCopy(w)'
    <2>1. NoDuplicates'
      BY <1>0 DEF TokenInv, NoDuplicates, InQueue, Holds
    <2>2. NotStranded'
      BY <1>0, <1>3 DEF TokenInv, NotStranded
    <2>3. \A w \in Workers : FreshCopy(w)'
      BY <1>0 DEF TokenInv, FreshCopy, Exists
    <2> QED
      BY <2>1, <2>2, <2>3
  <1> QED
    BY <1>3, <1>4, <1>8, <1>9 DEF TokenInv

\* ... pushes the first of them, ...
LEMMA TokenRequeue ==
    ASSUME CountInv, TokenInv, OneScheduler, NEW s \in Schedulers, Requeue(s)
    PROVE  TokenInv'
  <1>0. /\ sched[s].pc = "push"
        /\ UNCHANGED <<api, message, wk, clobbered>>
        /\ sched'[s].pc = "mark"
        /\ sched'[s].batch = sched[s].batch
        /\ BatchTokens(s)
    BY DEF CountInv, TypeOK, SchedState, Requeue, TokenInv
  <1>1. PICK m \in Messages : m = sched[s].batch[1].msg
    BY <1>0, BatchFacts
  <1>2. /\ 1 \in DOMAIN sched[s].batch
        /\ api[m] \notin {"new", "saved"}
        /\ ~Out(m)
        /\ Exists(m) => ~Stale(sched[s].batch[1])
    BY <1>0, <1>1, BatchFacts DEF BatchTokens
  <1>3. /\ \A k \in Messages : InQueue(k)' <=> InQueue(k) \/ k = m
        /\ \A i, j \in DOMAIN queue' : queue'[i] = queue'[j] => i = j
    <2>1. queue \in Seq(Messages) /\ queue' = Append(queue, m)
      BY <1>0, <1>1, BatchFacts DEF CountInv, TypeOK, Requeue, Push
    <2>2. /\ \A i \in DOMAIN queue : queue[i] # m
          /\ \A i, j \in DOMAIN queue : queue[i] = queue[j] => i = j
      BY <1>2 DEF Out, InQueue, TokenInv, NoDuplicates
    <2> QED
      BY <2>1, <2>2, AppendMember DEF InQueue
  <1>4. \A w \in Workers : \A k \in Messages : Holds(w, k)' <=> Holds(w, k)
    BY <1>0 DEF Holds
  <1>5. \A k \in Messages : Out(k)' <=> Out(k) \/ k = m
    BY <1>3, <1>4 DEF Out
  <1>6. NoDuplicates'
    BY <1>2, <1>3, <1>4 DEF TokenInv, NoDuplicates, Out
  <1>7. ASSUME NEW k \in Messages PROVE Unknown(k)'
    BY <1>0, <1>2, <1>5 DEF TokenInv, Unknown
  <1>8. ASSUME NEW k \in Messages PROVE Waiting(k)'
    <2>1. CASE k = m
      BY <1>0, <1>1, <2>1 DEF Waiting, Marking
    <2>2. CASE k # m
      <3>1. ~\E r \in Schedulers : Marking(r, k)
        BY <1>0 DEF OneScheduler, Marking
      <3> QED
        BY <1>0, <1>5, <2>2, <3>1 DEF TokenInv, Waiting
    <2> QED
      BY <2>1, <2>2
  <1>9. ASSUME NEW r \in Schedulers PROVE BatchTokens(r)'
    <2>1. r = s
      BY DEF OneScheduler
    <2>2. ASSUME NEW i \in DOMAIN sched[s].batch
          PROVE  /\ api'[sched'[s].batch[i].msg] \notin {"new", "saved"}
                 /\ i > 1 => ~Out(sched[s].batch[i].msg)'
                 /\ Exists(sched[s].batch[i].msg)' => ~Stale(sched[s].batch[i])'
      <3>1. PICK e \in Entry : e = sched[s].batch[i] /\ e = sched'[s].batch[i]
                               /\ e.msg \in Messages
        BY <1>0, BatchFacts
      <3>2. (Exists(e.msg)' <=> Exists(e.msg)) /\ (Stale(e)' <=> Stale(e))
        BY <1>0 DEF Exists, Stale
      <3>3. /\ api[e.msg] \notin {"new", "saved"}
            /\ ~Out(e.msg)
            /\ Exists(e.msg) => ~Stale(e)
            /\ i > 1 => e.msg # m
        BY <1>0, <1>1, <1>2, <3>1 DEF BatchTokens
      <3>4. i > 1 => ~Out(e.msg)'
        BY <1>5, <3>1, <3>3
      <3> QED
        BY <1>0, <3>1, <3>2, <3>3, <3>4
    <2>3. Out(sched[s].batch[1].msg)'
      <3>1. sched'[s].batch[1].msg = m /\ Out(m)'
        BY <1>0, <1>1, <1>5
      <3> QED
        BY <3>1
    <2>4. BatchTokens(s)'
      BY <1>0, <1>2, <2>2, <2>3 DEF BatchTokens
    <2> QED
      BY <2>1, <2>4
  <1>10. ASSUME NEW w \in Workers PROVE FreshCopy(w)'
    BY <1>0 DEF TokenInv, FreshCopy, Exists
  <1>11. NotStranded'
    BY <1>0, <1>3, <1>4 DEF TokenInv, NotStranded, HasToken
  <1> QED
    BY <1>6, <1>7, <1>8, <1>9, <1>10, <1>11 DEF TokenInv

\* ... and writes back what it read. If a worker has been faster the row is no
\* longer that, and the message counts as clobbered.
LEMMA TokenMark ==
    ASSUME CountInv, TokenInv, OneScheduler, NEW s \in Schedulers, MarkPending(s)
    PROVE  TokenInv'
  <1>0. /\ sched[s].pc = "mark"
        /\ UNCHANGED <<api, queue, wk>>
        /\ BatchTokens(s)
        /\ Advance(s)
        /\ sched[s].batch \in Seq(Entry)
        /\ sched[s].batch # <<>>
    BY BatchFacts DEF MarkPending, TokenInv
  <1>1. PICK e \in Entry : /\ e = sched[s].batch[1]
                           /\ Update(e.msg, "pending", e.count, e.retryAt)
                           /\ clobbered' = IF Exists(e.msg) /\ Stale(e)
                                           THEN clobbered \cup {e.msg} ELSE clobbered
    BY <1>0, BatchFacts DEF MarkPending
  <1>2. PICK m \in Messages : m = e.msg
    BY DEF Entry
  <1>3. /\ api[m] \notin {"new", "saved"}
        /\ Exists(m) => (Out(m) <=> ~Stale(e))
    BY <1>0, <1>1, <1>2, BatchFacts DEF BatchTokens
  <1>4. /\ \A k \in Messages \ {m} : message'[k] = message[k]
        /\ ~Exists(m) => message'[m] = message[m]
        /\ Exists(m) => message'[m] = [status |-> "pending", attemptCount |-> e.count,
                                       nextRetryAt |-> e.retryAt]
        /\ clobbered \subseteq clobbered'
        /\ Exists(m) /\ Stale(e) => m \in clobbered'
    BY <1>1, <1>2 DEF Update, CountInv, TypeOK
  <1>5. \A k \in Messages : (Out(k)' <=> Out(k)) /\ (HasToken(k)' <=> HasToken(k))
    BY <1>0 DEF Out, HasToken, InQueue, Holds
  <1>6. ASSUME NEW k \in Messages PROVE Unknown(k)' /\ Waiting(k)'
    <2>1. CASE k = m
      BY <1>0, <1>3, <1>4, <1>5, <2>1 DEF Unknown, Waiting, Exists
    <2>2. CASE k # m
      <3>1. ~\E r \in Schedulers : Marking(r, k)
        BY <1>0, <1>1, <1>2, <2>2 DEF OneScheduler, Marking
      <3> QED
        BY <1>0, <1>4, <1>5, <2>2, <3>1 DEF TokenInv, Unknown, Waiting
    <2> QED
      BY <2>1, <2>2
  <1>7. ASSUME NEW r \in Schedulers PROVE BatchTokens(r)'
    <2>1. r = s
      BY DEF OneScheduler
    <2>2. /\ sched'[s].batch = Tail(sched[s].batch)
          /\ sched'[s].pc \in {"idle", "push"}
          /\ sched'[s].pc = "idle" => sched'[s].batch = <<>>
      <3>1. CASE Tail(sched[s].batch) = <<>>
        BY <1>0, <3>1 DEF Advance, CountInv, TypeOK, Sleeping
      <3>2. CASE Tail(sched[s].batch) # <<>>
        BY <1>0, <3>2 DEF Advance, CountInv, TypeOK
      <3> QED
        BY <3>1, <3>2
    <2>3. \A i \in DOMAIN sched'[s].batch : /\ i \in Nat \ {0}
                                            /\ i + 1 \in DOMAIN sched[s].batch
                                            /\ sched'[s].batch[i] = sched[s].batch[i + 1]
      <3>1. \A i \in DOMAIN Tail(sched[s].batch) :
               /\ i + 1 \in DOMAIN sched[s].batch
               /\ Tail(sched[s].batch)[i] = sched[s].batch[i + 1]
               /\ i \in Nat \ {0}
        BY <1>0, TailFacts
      <3> QED
        BY <2>2, <3>1
    <2>4. ASSUME NEW i \in DOMAIN sched'[s].batch
          PROVE  /\ api'[sched'[s].batch[i].msg] \notin {"new", "saved"}
                 /\ ~Out(sched[s].batch[i].msg)'
                 /\ Exists(sched[s].batch[i].msg)' => ~Stale(sched[s].batch[i])'
      <3>0. i + 1 \in DOMAIN sched[s].batch /\ i + 1 > 1 /\ 1 \in DOMAIN sched[s].batch
        BY <1>0, <2>3, BatchFacts
      <3>1. PICK f \in Entry : f = sched[s].batch[i + 1] /\ f.msg \in Messages
        BY <3>0, BatchFacts
      <3>2. /\ api[f.msg] \notin {"new", "saved"}
            /\ ~Out(f.msg)
            /\ Exists(f.msg) => ~Stale(f)
            /\ f.msg # m
        BY <1>0, <1>1, <1>2, <3>0, <3>1 DEF BatchTokens
      <3>3. PICK k \in Messages \ {m} : k = f.msg
        BY <3>1, <3>2
      <3>4. ~Out(k)' /\ (Exists(k)' => ~Stale(f)')
        BY <1>4, <1>5, <3>2, <3>3 DEF Exists, Stale
      <3>5. f = sched'[s].batch[i]
        BY <2>3, <3>1
      <3> QED
        BY <1>0, <3>2, <3>3, <3>4, <3>5
    <2>5. \A i, j \in DOMAIN sched'[s].batch :
             sched'[s].batch[i].msg = sched'[s].batch[j].msg => i = j
      <3>1. ASSUME NEW i \in DOMAIN sched'[s].batch, NEW j \in DOMAIN sched'[s].batch,
                   sched'[s].batch[i].msg = sched'[s].batch[j].msg
            PROVE  i + 1 = j + 1 /\ i \in Nat /\ j \in Nat
        BY <1>0, <2>3, <3>1 DEF BatchTokens
      <3> QED
        BY <3>1
    <2>6. BatchTokens(s)'
      BY <2>2, <2>4, <2>5 DEF BatchTokens
    <2> QED
      BY <2>1, <2>6
  <1>8. ASSUME NEW w \in Workers PROVE FreshCopy(w)'
    <2>1. SUFFICES ASSUME wk[w].pc \notin {"idle", "popped"}, Exists(wk[w].msg)'
                   PROVE  wk[w].count = message'[wk[w].msg].attemptCount
      BY <1>0 DEF FreshCopy
    <2>2. PICK k \in Messages : k = wk[w].msg
      BY <2>1 DEF CountInv, WorkerCounts
    <2>3. Out(k) /\ Exists(k) /\ wk[w].count = message[k].attemptCount
      <3>1. message'[k].status # "absent"
        BY <1>0, <2>1, <2>2 DEF Exists
      <3>2. Exists(k)
        BY <1>4, <3>1 DEF Exists
      <3>3. Holds(w, k) /\ FreshCopy(w)
        BY <2>1, <2>2 DEF Holds, TokenInv
      <3> QED
        BY <2>1, <2>2, <3>2, <3>3 DEF FreshCopy, Out
    <2>4. CASE k = m
      <3>1. message[m].attemptCount = e.count
        BY <1>2, <1>3, <2>3, <2>4 DEF Stale
      <3> QED
        BY <1>4, <2>2, <2>3, <2>4, <3>1
    <2>5. CASE k # m
      BY <1>4, <2>2, <2>3, <2>5
    <2> QED
      BY <2>4, <2>5
  <1>9. NoDuplicates'
    BY <1>0 DEF TokenInv, NoDuplicates, InQueue, Holds
  <1>10. NotStranded'
    <2>1. ASSUME NEW k \in Messages, message'[k].status = "pending"
          PROVE  HasToken(k)' \/ k \in clobbered'
      <3>1. CASE k = m /\ Exists(m)
        <4>1. Out(m) => HasToken(m)
          BY DEF Out, HasToken
        <4> QED
          BY <1>3, <1>4, <1>5, <3>1, <4>1
      <3>2. CASE ~(k = m /\ Exists(m))
        <4>1. message[k].status = "pending"
          BY <1>4, <2>1, <3>2
        <4>2. HasToken(k) \/ k \in clobbered
          BY <4>1 DEF TokenInv, NotStranded
        <4> QED
          BY <1>4, <1>5, <4>2
      <3> QED
        BY <3>1, <3>2
    <2> QED
      BY <2>1 DEF NotStranded
  <1> QED
    BY <1>6, <1>7, <1>8, <1>9, <1>10 DEF TokenInv

\* Steps of the API, and time.
LEMMA TokenDelete ==
    ASSUME CountInv, TokenInv, NEW o \in Deletable, DeleteOrg(o)
    PROVE  TokenInv'
  <1>0. /\ UNCHANGED <<api, queue, wk, sched, clobbered>>
        /\ \A k \in Messages : message'[k] = message[k] \/ message'[k] = Absent
    BY DEF DeleteOrg
  <1>1. \A k \in Messages : (Out(k)' <=> Out(k)) /\ (HasToken(k)' <=> HasToken(k))
    BY <1>0 DEF Out, HasToken, InQueue, Holds
  <1>2. \A k \in Messages : message'[k] = message[k] \/ message'[k].status = "absent"
    BY <1>0 DEF Absent
  <1>3. ASSUME NEW k \in Messages PROVE Unknown(k)' /\ Waiting(k)'
    BY <1>0, <1>1, <1>2 DEF TokenInv, Unknown, Waiting, Marking
  <1>4. ASSUME NEW s \in Schedulers PROVE BatchTokens(s)'
    <2>1. BatchTokens(s) /\ sched' = sched
      BY <1>0 DEF TokenInv
    <2>2. ASSUME NEW i \in DOMAIN sched[s].batch
          PROVE  /\ api'[sched'[s].batch[i].msg] = api[sched[s].batch[i].msg]
                 /\ Out(sched[s].batch[i].msg)' <=> Out(sched[s].batch[i].msg)
                 /\ Exists(sched[s].batch[i].msg)' =>
                      /\ Exists(sched[s].batch[i].msg)
                      /\ Stale(sched[s].batch[i])' <=> Stale(sched[s].batch[i])
      <3>1. PICK e \in Entry : e = sched[s].batch[i] /\ e.msg \in Messages
        BY BatchFacts
      <3>2. PICK k \in Messages : k = e.msg
        BY <3>1
      <3>3. Exists(k)' => Exists(k) /\ (Stale(e)' <=> Stale(e))
        BY <1>2, <3>2 DEF Exists, Stale
      <3> QED
        BY <1>0, <1>1, <3>1, <3>2, <3>3
    <2> QED
      BY <2>1, <2>2, BatchFacts DEF BatchTokens
  <1>5. ASSUME NEW w \in Workers PROVE FreshCopy(w)'
    <2>1. wk[w].pc # "idle" => wk[w].msg \in Messages
      BY DEF CountInv, WorkerCounts
    <2> QED
      BY <1>0, <1>2, <2>1 DEF TokenInv, FreshCopy, Exists
  <1>6. NoDuplicates'
    BY <1>0 DEF TokenInv, NoDuplicates, InQueue, Holds
  <1>7. NotStranded'
    BY <1>0, <1>1, <1>2 DEF TokenInv, NotStranded
  <1> QED
    BY <1>3, <1>4, <1>5, <1>6, <1>7 DEF TokenInv

\* A step that touches nothing the invariant speaks of.
LEMMA TokenStutter ==
    ASSUME CountInv, TokenInv,
           UNCHANGED <<api, message, queue, wk, sched, clobbered>>
    PROVE  TokenInv'
  <1>1. \A m \in Messages : Out(m)' <=> Out(m)
    BY DEF Out, InQueue, Holds
  <1>2. NoDuplicates'
    BY DEF TokenInv, NoDuplicates, InQueue, Holds
  <1>3. \A w \in Workers : FreshCopy(w)'
    BY DEF TokenInv, FreshCopy, Exists
  <1> QED
    BY <1>1, <1>2, <1>3, TokenFrame

LEMMA TokenNext == OneScheduler /\ CountInv /\ TokenInv /\ [Next]_vars => TokenInv'
  <1> SUFFICES ASSUME OneScheduler, CountInv, TokenInv, [Next]_vars PROVE TokenInv'
    OBVIOUS
  <1>1. CASE \E m \in Messages : CreateMessage(m) \/ PushMessage(m)
    BY <1>1, TokenCreate, TokenPush
  <1>2. CASE \E w \in Workers : WorkerStep(w)
    <2>1. PICK w \in Workers : WorkerStep(w)
      BY <1>2
    <2>2. CASE FindById(w)
      BY <2>2, TokenKeep, TokenRelease
    <2> QED
      BY <2>1, <2>2, TokenPop, TokenKeep, TokenRelease DEF WorkerStep
  <1>3. CASE \E s \in Schedulers : SchedulerStep(s)
    BY <1>3, TokenFetch, TokenRequeue, TokenMark DEF SchedulerStep
  <1>4. CASE \E o \in Orgs : RotateSigningSecret(o)
    BY <1>4, TokenStutter DEF RotateSigningSecret
  <1>5. CASE \E o \in Deletable : DeleteOrg(o)
    BY <1>5, TokenDelete
  <1>6. CASE Tick
    BY <1>6, TokenStutter DEF Tick
  <1>7. CASE UNCHANGED vars
    BY <1>7, TokenStutter DEF vars
  <1> QED
    BY <1>1, <1>2, <1>3, <1>4, <1>5, <1>6, <1>7 DEF Next

\* The invariant holds in every behaviour with one scheduler.
THEOREM TokensHold == ASSUME OneScheduler PROVE Spec => [](CountInv /\ TokenInv)
  <1>1. Init => CountInv /\ TokenInv
    BY CountInit, TokenInit
  <1>2. CountInv /\ TokenInv /\ [Next]_vars => (CountInv /\ TokenInv)'
    BY CountNext, TokenNext
  <1> QED
    BY <1>1, <1>2, PTL DEF Spec

\* No message is ever delivered by two workers at a time, or queued twice.
THEOREM DeliveryIsExclusive == ASSUME OneScheduler PROVE Spec => []ExclusiveDelivery
  <1>1. CountInv /\ TokenInv => ExclusiveDelivery
    BY DEF TokenInv, NoDuplicates, Unknown, Out, ExclusiveDelivery
  <1> QED
    BY <1>1, TokensHold, PTL

\* A pending message is on its way to a worker, or was clobbered.
THEOREM PendingIsNotStranded == ASSUME OneScheduler PROVE Spec => []NotStranded
  <1>1. CountInv /\ TokenInv => NotStranded
    BY DEF TokenInv
  <1> QED
    BY <1>1, TokensHold, PTL
=============================================================================
