------------------------ MODULE DeliveryFaultsProofs ------------------------
(***************************************************************************)
(* Proofs about module DeliveryFaults: what the statuses and the attempt   *)
(* counts say is true whatever fails, for any number of messages, workers, *)
(* schedulers and faults. The invariant is CountInv of DeliveryProofs,     *)
(* which every step of Delivery keeps; it remains to see that faults do.   *)
(***************************************************************************)
EXTENDS DeliveryFaults, DeliveryProofs

\* CountInv is about the rows, the workers, the schedulers' batches and the
\* histories; a step that leaves those alone keeps it if types are kept.
LEMMA CountFrame ==
    ASSUME CountInv, TypeOK', UNCHANGED <<message, wk, sched, acks, fails>>
    PROVE  CountInv'
  BY DEF CountInv, RowCounts, WorkerCounts, BatchCounts

\* Faults of the Delivery service and of Redis.
LEMMA CountServiceFault ==
    ASSUME CountInv,
           \/ \E m \in Messages : CreateFails(m) \/ PushFails(m) \/ HandlerCrash(m)
           \/ PopLost
           \/ RedisRestart
    PROVE  CountInv'
  <1> USE DEF CountInv
  <1>1. ASSUME NEW m \in Messages, CreateFails(m) PROVE CountInv'
    <2>0. /\ message' \in [Messages -> Row]
          /\ \A k \in Messages : message'[k] \in {message[k], NewRow}
      <3> NewRow \in Row
        BY ConstantAssumption DEF NewRow, Row, Statuses, MessageStatus
      <3> QED
        BY <1>1 DEF TypeOK, CreateFails
    <2>1. TypeOK'
      BY <1>1, <2>0 DEF TypeOK, CreateFails
    <2>2. ASSUME NEW k \in Messages PROVE RowCounts(k)'
      <3>1. RowCounts(k) /\ fails[k] \in Nat /\ UNCHANGED <<fails, acks>>
        BY <1>1 DEF TypeOK, CreateFails
      <3> QED
        BY <2>0, <3>1, ConstantAssumption DEF NewRow, RowCounts
    <2> QED
      BY <1>1, <2>1, <2>2 DEF CreateFails, WorkerCounts, BatchCounts
  <1>2. ASSUME NEW m \in Messages, PushFails(m) PROVE CountInv'
    <2>1. queue' \in Seq(Messages)
      <3>1. queue \o <<m, m>> \in Seq(Messages)
        BY DEF TypeOK
      <3> QED
        BY <1>2, <3>1 DEF TypeOK, PushFails
    <2>2. TypeOK'
      BY <1>2, <2>1 DEF TypeOK, PushFails
    <2> QED
      BY <1>2, <2>2, CountFrame DEF PushFails
  <1>3. ASSUME NEW m \in Messages, HandlerCrash(m) PROVE CountInv'
    <2>1. TypeOK'
      BY <1>3 DEF TypeOK, HandlerCrash
    <2> QED
      BY <1>3, <2>1, CountFrame DEF HandlerCrash
  <1>4. CASE PopLost
    <2>1. TypeOK'
      BY <1>4, TailFacts DEF TypeOK, PopLost
    <2> QED
      BY <1>4, <2>1, CountFrame DEF PopLost
  <1>5. CASE RedisRestart
    <2>1. TypeOK'
      BY <1>5 DEF TypeOK, RedisRestart
    <2> QED
      BY <1>5, <2>1, CountFrame DEF RedisRestart
  <1> QED
    BY <1>1, <1>2, <1>3, <1>4, <1>5

\* Faults of a worker: it forgets, or goes on with the same copy.
LEMMA CountWorkerFault ==
    ASSUME CountInv, NEW w \in Workers,
           WorkerAbandons(w) \/ SignFails(w) \/ CreateAttemptFails(w)
    PROVE  CountInv'
  <1> USE DEF CountInv
  <1>0. Idle \in WorkerState /\ wk[w] \in WorkerState /\ WorkerCounts(w)
    BY ConstantAssumption DEF TypeOK, Idle, WorkerState, Results
  <1>1. /\ UNCHANGED <<api, message, attempts, queue, sched, secret, now, acks, fails,
                       sentAt, clobbered>>
        /\ \/ wk' = [wk EXCEPT ![w] = Idle]
           \/ wk[w].pc = "loaded" /\ wk' = [wk EXCEPT ![w].pc = "signed"]
           \/ wk[w].pc = "responded" /\ wk' = [wk EXCEPT ![w].pc = "logged"]
    <2>1. CASE WorkerAbandons(w)
      BY <2>1 DEF WorkerAbandons
    <2>2. CASE SignFails(w)
      BY <2>2 DEF SignFails
    <2>3. CASE CreateAttemptFails(w)
      BY <2>3 DEF CreateAttemptFails
    <2> QED
      BY <2>1, <2>2, <2>3
  <1>2. /\ wk' \in [Workers -> WorkerState]
        /\ \A v \in Workers \ {w} : wk'[v] = wk[v]
        /\ \/ wk'[w] = Idle
           \/ /\ wk'[w].msg = wk[w].msg
              /\ wk'[w].count = wk[w].count
              /\ wk'[w].result = wk[w].result
              /\ wk[w].pc # "idle"
              /\ wk'[w].pc \in {"responded", "logged"} => wk[w].pc = "responded"
    <2>1. CASE wk' = [wk EXCEPT ![w] = Idle]
      BY <1>0, <2>1 DEF TypeOK
    <2>2. CASE wk[w].pc = "loaded" /\ wk' = [wk EXCEPT ![w].pc = "signed"]
      BY <1>0, <2>2 DEF TypeOK, WorkerState
    <2>3. CASE wk[w].pc = "responded" /\ wk' = [wk EXCEPT ![w].pc = "logged"]
      BY <1>0, <2>3 DEF TypeOK, WorkerState
    <2> QED
      BY <1>1, <2>1, <2>2, <2>3
  <1>3. TypeOK'
    BY <1>1, <1>2 DEF TypeOK
  <1>4. ASSUME NEW v \in Workers PROVE WorkerCounts(v)'
    BY <1>0, <1>1, <1>2, ConstantAssumption DEF WorkerCounts, Idle
  <1> QED
    BY <1>1, <1>3, <1>4 DEF RowCounts, BatchCounts

\* Faults of a scheduler: the push or the write is lost, or it starts over.
LEMMA CountSchedulerFault ==
    ASSUME CountInv, NEW s \in Schedulers,
           RequeueFails(s) \/ MarkFails(s) \/ SchedulerCrash(s)
    PROVE  CountInv'
  <1> USE DEF CountInv
  <1>0. /\ sched[s] \in SchedState
        /\ sched[s].batch \in Seq(Entry)
        /\ BatchCounts(s)
    BY DEF TypeOK, SchedState
  <1>1. CASE RequeueFails(s)
    <2>0. sched[s].batch # <<>>
      BY <1>0, <1>1 DEF RequeueFails, BatchCounts
    <2>1. queue' \in Seq(Messages)
      <3>1. PICK m \in Messages : m = Head(sched[s].batch).msg
        <4>1. Head(sched[s].batch) \in Entry
          BY <1>0, <2>0, TailFacts
        <4> QED
          BY <4>1 DEF Entry
      <3>2. queue \o <<m, m>> \in Seq(Messages)
        BY DEF TypeOK
      <3> QED
        BY <1>1, <3>1, <3>2 DEF TypeOK, RequeueFails
    <2>2. /\ sched' \in [Schedulers -> SchedState]
          /\ sched'[s].batch = sched[s].batch
          /\ \A r \in Schedulers \ {s} : sched'[r] = sched[r]
      BY <1>0, <1>1 DEF TypeOK, RequeueFails, SchedState
    <2>3. TypeOK'
      BY <1>1, <2>1, <2>2 DEF TypeOK, RequeueFails
    <2>4. ASSUME NEW r \in Schedulers PROVE BatchCounts(r)'
      BY <1>1, <2>0, <2>2 DEF RequeueFails, BatchCounts
    <2> QED
      BY <1>1, <2>3, <2>4 DEF RequeueFails, RowCounts, WorkerCounts
  <1>2. CASE MarkFails(s)
    <2>1. sched' \in [Schedulers -> SchedState] /\ \A r \in Schedulers : BatchCounts(r)'
      BY <1>2, CountAdvance DEF MarkFails
    <2>2. TypeOK'
      BY <1>2, <2>1 DEF TypeOK, MarkFails
    <2> QED
      BY <1>2, <2>1, <2>2 DEF MarkFails, RowCounts, WorkerCounts
  <1>3. CASE SchedulerCrash(s)
    <2>1. Sleeping \in SchedState
      BY DEF Sleeping, SchedState
    <2>2. TypeOK'
      BY <1>3, <2>1 DEF TypeOK, SchedulerCrash
    <2>3. ASSUME NEW r \in Schedulers PROVE BatchCounts(r)'
      BY <1>3 DEF TypeOK, SchedulerCrash, BatchCounts, Sleeping
    <2> QED
      BY <1>3, <2>2, <2>3 DEF SchedulerCrash, RowCounts, WorkerCounts
  <1> QED
    BY <1>1, <1>2, <1>3

LEMMA CountFaults == CountInv /\ [FNext]_fvars => CountInv'
  <1> SUFFICES ASSUME CountInv, [FNext]_fvars PROVE CountInv'
    OBVIOUS
  <1>1. CASE FaultStep
    BY <1>1, CountServiceFault, CountWorkerFault, CountSchedulerFault DEF FaultStep
  <1>2. CASE Next /\ UNCHANGED faults
    BY <1>2, CountNext
  <1>3. CASE UNCHANGED fvars
    <2>1. UNCHANGED vars
      BY <1>3 DEF fvars
    <2> QED
      BY <2>1, CountNext
  <1> QED
    BY <1>1, <1>2, <1>3 DEF FNext

\* The invariant holds in every behaviour with faults.
THEOREM CountingHolds == FSpec => []CountInv
  <1>1. FInit => CountInv
    BY CountInit DEF FInit
  <1> QED
    BY <1>1, CountFaults, PTL DEF FSpec

\* attempt_count stays within MaxAttempts in the rows, in the workers' copies and
\* in the schedulers' batches, whatever calls fail and whoever crashes.
THEOREM AttemptCountIsBounded == FSpec => []AttemptBound
  <1>1. CountInv => AttemptBound
    BY DEF CountInv, AttemptBound, RowCounts, WorkerCounts, BatchCounts
  <1> QED
    BY <1>1, CountingHolds, PTL

\* "success" is only ever written for a message whose endpoint answered 2xx.
THEOREM SuccessIsNeverInvented == FSpec => []SuccessIsReal
  <1>1. CountInv => SuccessIsReal
    BY DEF CountInv, SuccessIsReal, RowCounts
  <1> QED
    BY <1>1, CountingHolds, PTL

\* No message is dead-lettered before MaxAttempts + 1 requests for it failed.
THEOREM DeadLetterIsEarned == FSpec => []NoPrematureDeadLetter
  <1>1. CountInv => NoPrematureDeadLetter
    BY DEF CountInv, NoPrematureDeadLetter, RowCounts
  <1> QED
    BY <1>1, CountingHolds, PTL

-----------------------------------------------------------------------------
(* Deletion and rotation hold through the faults too.                       *)

\* A fault makes a row in one place only, under the same foreign key.
LEMMA OrphanFaults == CountInv /\ NoOrphans /\ [FNext]_fvars => NoOrphans'
  <1> SUFFICES ASSUME CountInv, NoOrphans, [FNext]_fvars PROVE NoOrphans'
    OBVIOUS
  <1>1. CASE FaultStep
    <2>0. /\ message \in [Messages -> Row]
          /\ UNCHANGED <<attempts, secret>>
          /\ \/ UNCHANGED message
             \/ \E m \in Messages : /\ secret[OrgOf[m]] # NULL
                                    /\ message' = [message EXCEPT ![m] = NewRow]
      BY <1>1 DEF CountInv, TypeOK, FaultStep, CreateFails, PushFails, HandlerCrash, PopLost,
         RedisRestart, WorkerAbandons, SignFails, CreateAttemptFails, RequeueFails,
         MarkFails, SchedulerCrash
    <2>1. ASSUME NEW k \in Messages, secret[OrgOf[k]] = NULL
          PROVE  message'[k] = message[k]
      BY <2>0, <2>1
    <2> QED
      BY <2>0, <2>1 DEF NoOrphans, Exists
  <1>2. CASE [Next]_vars
    BY <1>2, OrphanNext
  <1> QED
    BY <1>1, <1>2 DEF FNext, fvars

\* A deleted organization's messages and attempts never come back, whatever calls
\* fail and whoever crashes.
THEOREM DeletedStaysDeletedInFaults == FSpec => []NoOrphans
  <1>1. FInit => CountInv /\ NoOrphans
    BY CountInit, OrphanInit DEF FInit
  <1> QED
    BY <1>1, CountFaults, OrphanFaults, PTL DEF FSpec

\* A fault gives no worker a secret: a failed GetSigningSecret leaves it without.
LEMMA SecretFaults ==
    ASSUME CountInv, Unsigned, FaultStep
    PROVE  /\ UNCHANGED secret
           /\ \A w \in Workers : \/ wk'[w] = wk[w]
                                 \/ wk'[w] = Idle
                                 \/ wk'[w].pc = "logged"
                                 \/ wk'[w].pc = "signed" /\ wk'[w].secret = NULL
  <1>1. UNCHANGED secret
    BY DEF FaultStep, CreateFails, PushFails, HandlerCrash, PopLost, RedisRestart,
       WorkerAbandons, SignFails, CreateAttemptFails, RequeueFails, MarkFails, SchedulerCrash
  <1>2. wk \in [Workers -> WorkerState]
    BY DEF CountInv, TypeOK
  <1>3. ASSUME NEW w \in Workers, NEW u \in Workers,
               WorkerAbandons(u) \/ SignFails(u) \/ CreateAttemptFails(u)
        PROVE  \/ wk'[w] = wk[w]
               \/ wk'[w] = Idle
               \/ wk'[w].pc = "logged"
               \/ wk'[w].pc = "signed" /\ wk'[w].secret = NULL
    <2>1. CASE WorkerAbandons(u)
      BY <1>2, <2>1 DEF WorkerAbandons
    <2>2. CASE SignFails(u)
      BY <1>2, <2>2 DEF SignFails, Unsigned, WorkerState
    <2>3. CASE CreateAttemptFails(u)
      BY <1>2, <2>3 DEF CreateAttemptFails, WorkerState
    <2> QED
      BY <1>3, <2>1, <2>2, <2>3
  <1>4. CASE UNCHANGED wk
    BY <1>1, <1>4
  <1> QED
    BY <1>1, <1>3, <1>4 DEF FaultStep, CreateFails, PushFails, HandlerCrash, PopLost,
       RedisRestart, RequeueFails, MarkFails, SchedulerCrash

LEMMA UnsignedFaults == CountInv /\ Unsigned /\ [FNext]_fvars => Unsigned'
  <1> SUFFICES ASSUME CountInv, Unsigned, [FNext]_fvars PROVE Unsigned'
    OBVIOUS
  <1>1. CASE FaultStep
    BY <1>1, SecretFaults DEF Unsigned, Idle
  <1>2. CASE [Next]_vars
    BY <1>2, UnsignedNext
  <1> QED
    BY <1>1, <1>2 DEF FNext, fvars

\* Rotation reaches every worker although calls fail and workers restart: a worker
\* that cannot read the secret sends without a signature, never with an old one.
THEOREM RotationReachesInFaults == FSpec => RotationReaches
  <1>0. FInit => CountInv /\ Unsigned
    <2>1. Init => Unsigned
      BY DEF Init, Unsigned, Idle
    <2> QED
      BY <2>1, CountInit DEF FInit
  <1>1. ASSUME NEW w \in Workers, NEW o \in Orgs, NEW v \in 1..MaxSecret
        PROVE  FSpec => []((wk[w].pc # "signed" /\ secret[o] = v)
                           => [](wk[w].pc = "signed" /\ OrgOf[wk[w].msg] = o
                                 => wk[w].secret = NULL \/ wk[w].secret >= v))
    <2>1. CountInv /\ Unsigned /\ Reached(w, o, v) /\ [FNext]_fvars => Reached(w, o, v)'
      <3> SUFFICES ASSUME CountInv, Unsigned, Reached(w, o, v), [FNext]_fvars
                   PROVE  Reached(w, o, v)'
        OBVIOUS
      <3>1. CASE FaultStep
        BY <3>1, SecretFaults DEF Reached, Idle
      <3>2. CASE [Next]_vars
        BY <3>2, ReachedNext
      <3> QED
        BY <3>1, <3>2 DEF FNext, fvars
    <2>2. wk[w].pc # "signed" /\ secret[o] = v => Reached(w, o, v)
      BY ConstantAssumption DEF Reached
    <2>3. Reached(w, o, v) => (wk[w].pc = "signed" /\ OrgOf[wk[w].msg] = o
                               => wk[w].secret = NULL \/ wk[w].secret >= v)
      BY DEF Reached
    <2> QED
      BY <1>0, <2>1, <2>2, <2>3, CountFaults, UnsignedFaults, PTL DEF FSpec
  <1> QED
    BY <1>1 DEF RotationReaches
=============================================================================
