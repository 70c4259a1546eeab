--------------------------- MODULE DeliveryFaults ---------------------------
(***************************************************************************)
(* The pipeline of module Delivery when its calls fail. The code ignores   *)
(* the errors of queue.Push, attemptRepo.Create and of every UPDATE, drops *)
(* an id whose message it cannot read, and keeps no record of what a       *)
(* process had in hand when it died. A fault is of one of the kinds        *)
(*                                                                         *)
(*   "push"     an LPUSH fails, or its reply is lost and go-redis repeats  *)
(*              what was carried out                                       *)
(*   "pop"      the reply of a BRPOP is lost                               *)
(*   "restart"  Redis restarts with an empty list (k8s/redis.yaml gives it *)
(*              no volume)                                                 *)
(*   "db"       a call to PostgreSQL fails                                 *)
(*   "crash"    a process dies and is started again                        *)
(***************************************************************************)
EXTENDS Delivery

CONSTANTS
    FaultKinds, \* the kinds of fault that happen
    MaxFaults   \* bound on the number of faults

ASSUME FaultAssumption ==
    /\ FaultKinds \subseteq {"push", "pop", "restart", "db", "crash"}
    /\ MaxFaults \in Nat

VARIABLE faults \* the number of faults so far

fvars == <<vars, faults>>

Fault(kind) ==
    /\ kind \in FaultKinds
    /\ faults < MaxFaults
    /\ faults' = faults + 1

-----------------------------------------------------------------------------
(* The Delivery service.                                                   *)

\* messageRepo.Create fails: nothing is inserted, or the row is inserted and
\* the reply is lost. Either way the handler answers Internal and pushes nothing.
CreateFails(m) ==
    /\ Fault("db")
    /\ api[m] = "new"
    /\ api' = [api EXCEPT ![m] = "rejected"]
    /\ \/ UNCHANGED message
       \/ /\ secret[OrgOf[m]] # NULL
          /\ message' = [message EXCEPT ![m] = NewRow]
    /\ UNCHANGED <<attempts, queue, wk, sched, secret, now, acks, fails, sentAt,
                   clobbered>>

\* queue.Push fails and its error is ignored, or it is carried out twice.
PushFails(m) ==
    /\ Fault("push")
    /\ api[m] = "saved"
    /\ api' = [api EXCEPT ![m] = "done"]
    /\ queue' \in {queue, queue \o <<m, m>>}
    /\ UNCHANGED <<message, attempts, wk, sched, secret, now, acks, fails,
                   sentAt, clobbered>>

\* The service dies between messageRepo.Create and queue.Push.
HandlerCrash(m) ==
    /\ Fault("crash")
    /\ api[m] = "saved"
    /\ api' = [api EXCEPT ![m] = "rejected"]
    /\ UNCHANGED <<message, attempts, queue, wk, sched, secret, now, acks, fails,
                   sentAt, clobbered>>

-----------------------------------------------------------------------------
(* Redis.                                                                  *)

\* BRPOP removes an id and the reply does not arrive.
PopLost ==
    /\ Fault("pop")
    /\ queue # <<>>
    /\ queue' = Tail(queue)
    /\ UNCHANGED <<api, message, attempts, wk, sched, secret, now, acks, fails,
                   sentAt, clobbered>>

RedisRestart ==
    /\ Fault("restart")
    /\ queue # <<>>
    /\ queue' = <<>>
    /\ UNCHANGED <<api, message, attempts, wk, sched, secret, now, acks, fails,
                   sentAt, clobbered>>

-----------------------------------------------------------------------------
(* A worker.                                                               *)

\* A failed FindById drops the id; the last write of deliver fails and its
\* error is ignored; the process dies. The worker starts over with nothing.
WorkerAbandons(w) ==
    /\ \/ Fault("db") /\ wk[w].pc = "popped"
       \/ Fault("db") /\ wk[w].pc = "loaded" /\ wk[w].msg \in BadURL
       \/ Fault("db") /\ wk[w].pc = "logged"
       \/ Fault("crash") /\ wk[w].pc # "idle"
    /\ wk' = [wk EXCEPT ![w] = Idle]
    /\ UNCHANGED <<api, message, attempts, queue, sched, secret, now, acks, fails,
                   sentAt, clobbered>>

\* GetSigningSecret fails: the error is logged and the request goes unsigned.
SignFails(w) ==
    /\ Fault("db")
    /\ wk[w].pc = "loaded"
    /\ wk[w].msg \notin BadURL
    /\ wk' = [wk EXCEPT ![w].pc = "signed"]
    /\ UNCHANGED <<api, message, attempts, queue, sched, secret, now, acks, fails,
                   sentAt, clobbered>>

\* attemptRepo.Create fails and its error is ignored.
CreateAttemptFails(w) ==
    /\ Fault("db")
    /\ wk[w].pc = "responded"
    /\ wk' = [wk EXCEPT ![w].pc = "logged"]
    /\ UNCHANGED <<api, message, attempts, queue, sched, secret, now, acks, fails,
                   sentAt, clobbered>>

-----------------------------------------------------------------------------
(* A scheduler. A failed FindRetryReady changes nothing.                   *)

RequeueFails(s) ==
    /\ Fault("push")
    /\ sched[s].pc = "push"
    /\ LET m == Head(sched[s].batch).msg IN queue' \in {queue, queue \o <<m, m>>}
    /\ sched' = [sched EXCEPT ![s].pc = "mark"]
    /\ UNCHANGED <<api, message, attempts, wk, secret, now, acks, fails, sentAt,
                   clobbered>>

MarkFails(s) ==
    /\ Fault("db")
    /\ sched[s].pc = "mark"
    /\ Advance(s)
    /\ UNCHANGED <<api, message, attempts, queue, wk, secret, now, acks, fails,
                   sentAt, clobbered>>

SchedulerCrash(s) ==
    /\ Fault("crash")
    /\ sched[s].pc # "idle"
    /\ sched' = [sched EXCEPT ![s] = Sleeping]
    /\ UNCHANGED <<api, message, attempts, queue, wk, secret, now, acks, fails,
                   sentAt, clobbered>>

-----------------------------------------------------------------------------

FInit == Init /\ faults = 0

FaultStep ==
    \/ \E m \in Messages : CreateFails(m) \/ PushFails(m) \/ HandlerCrash(m)
    \/ PopLost
    \/ RedisRestart
    \/ \E w \in Workers : WorkerAbandons(w) \/ SignFails(w) \/ CreateAttemptFails(w)
    \/ \E s \in Schedulers : RequeueFails(s) \/ MarkFails(s) \/ SchedulerCrash(s)

FNext == FaultStep \/ (Next /\ UNCHANGED faults)

FSpec == FInit /\ [][FNext]_fvars

\* The processes keep running between the faults, which are finitely many.
FFairness ==
    /\ \A m \in Messages : WF_fvars(PushMessage(m) /\ UNCHANGED faults)
    /\ \A w \in Workers : WF_fvars(WorkerStep(w) /\ UNCHANGED faults)
    /\ \A s \in Schedulers : WF_fvars(SchedulerStep(s) /\ UNCHANGED faults)
    /\ WF_fvars(Tick /\ UNCHANGED faults)

FFairSpec == FSpec /\ FFairness
=============================================================================
