------------------------------ MODULE Delivery ------------------------------
(***************************************************************************)
(* The webhook pipeline of Chis: the Delivery service persists a message   *)
(* and pushes its id on the Redis list, workers pop ids, call the endpoint *)
(* and record the outcome, the scheduler re-queues the messages whose      *)
(* back-off has expired, and the API rotates signing secrets and deletes   *)
(* organizations under their feet.                                         *)
(*                                                                         *)
(* Every process is a sequential program whose steps are its calls to      *)
(* PostgreSQL, Redis or the endpoint; each call is one atomic action and   *)
(* everything the program remembers between two calls is in its record.    *)
(* This module has no faults: module DeliveryFaults adds them.             *)
(***************************************************************************)
EXTENDS Naturals, Sequences, FiniteSets

CONSTANTS
    Messages,    \* the webhooks clients submit
    Workers,     \* worker processes
    Schedulers,  \* scheduler processes (one replica in k8s/scheduler.yaml)
    Orgs,        \* organizations
    OrgOf,       \* the organization of each message
    MaxAttempts, \* worker.MaxAttempts, 5 in the code
    BatchLimit,  \* the limit processRetries gives FindRetryReady, 10 in the code
    BadURL,      \* messages whose URL or method http.NewRequest rejects
    BinaryReply, \* messages whose endpoint may answer bytes a text column rejects
    Deletable,   \* organizations that an admin may delete
    MaxSecret,   \* bound on the number of rotations of a signing secret
    NULL         \* SQL NULL, and "no value" in a process's record

ASSUME ConstantAssumption ==
    /\ MaxAttempts \in Nat
    /\ BatchLimit \in Nat \ {0}
    /\ MaxSecret \in Nat
    /\ OrgOf \in [Messages -> Orgs]
    /\ BadURL \subseteq Messages
    /\ BinaryReply \subseteq Messages
    /\ Deletable \subseteq Orgs
    /\ NULL \notin Nat
    /\ NULL \notin Messages

VARIABLES
    api,      \* api[m]: progress of the QueueMessage call that submits m
    message,  \* message[m]: the row of m in the table messages
    attempts, \* attempts[m]: the rows of m in delivery_attempts, as inserted
    queue,    \* the Redis list "main", oldest element first
    wk,       \* wk[w]: where worker w is, and its copy of the message
    sched,    \* sched[s]: where scheduler s is, and the rest of its batch
    secret,   \* secret[o]: version of the signing secret; NULL once deleted
    now,      \* time in seconds
    acks,     \* history: requests for m that were answered with 2xx
    fails,    \* history: requests for m that failed
    sentAt,   \* history: when the last request for m completed
    clobbered \* history: messages whose row a stale scheduler write replaced

vars == <<api, message, attempts, queue, wk, sched, secret, now, acks, fails,
          sentAt, clobbered>>

-----------------------------------------------------------------------------
(* Values.                                                                 *)

\* The enum message_status as it was created, and with the value added for
\* retries. A message without a row is "absent".
MessageStatus == {"pending", "success", "failed"}
Statuses == MessageStatus \cup {"retry", "absent"}
Row == [status: Statuses, attemptCount: Nat, nextRetryAt: Nat \cup {NULL}]
Absent == [status |-> "absent", attemptCount |-> 0, nextRetryAt |-> NULL]
NewRow == [status |-> "pending", attemptCount |-> 0, nextRetryAt |-> NULL]

Results == {"none", "success", "failure"}
Attempt == [number: Nat, result: Results]

WorkerState == [pc: {"idle", "popped", "loaded", "signed", "responded", "logged"},
                msg: Messages \cup {NULL}, count: Nat, retryAt: Nat \cup {NULL},
                secret: Nat \cup {NULL}, result: Results]
Idle == [pc |-> "idle", msg |-> NULL, count |-> 0, retryAt |-> NULL,
         secret |-> NULL, result |-> "none"]

\* What the scheduler keeps of a row it read: the row as it was then.
Entry == [msg: Messages, count: Nat, retryAt: Nat]
SchedState == [pc: {"idle", "push", "mark"}, batch: Seq(Entry)]
Sleeping == [pc |-> "idle", batch |-> <<>>]

\* BaseBackoff * 2^n, with BaseBackoff = 1 second.
Backoff(n) == 2^n

ASSUME BackoffAssumption == \A n \in 0..MaxAttempts : Backoff(n) \in Nat

\* The histories count as far as the properties can tell.
CountUp(n) == IF n > MaxAttempts + 1 THEN n ELSE n + 1

-----------------------------------------------------------------------------
(* The message repository.                                                 *)

Exists(m) == message[m].status # "absent"

\* Mutant of Update: an upsert, which brings a deleted row back.
UpsertMutant(m, status, count, retryAt) ==
    message' = [message EXCEPT ![m] = [status |-> status, attemptCount |-> count,
                                       nextRetryAt |-> retryAt]]

\* An UPDATE ... WHERE id = m: no row, no effect.
Update(m, status, count, retryAt) ==
    message' = IF Exists(m)
               THEN [message EXCEPT ![m] = [status |-> status,
                         attemptCount |-> count, nextRetryAt |-> retryAt]]
               ELSE message

UpdateStatus(m, status) ==
    message' = IF Exists(m) THEN [message EXCEPT ![m].status = status] ELSE message

\* Mutants of Due: a query that forgets status = 'retry', and one that takes
\* attempt_count < MaxAttempts for "has an attempt left".
AnyStatusMutant == {m \in Messages : /\ message[m].nextRetryAt # NULL
                                     /\ message[m].nextRetryAt <= now}
LastRetryMutant == {m \in Messages : /\ message[m].status = "retry"
                                     /\ message[m].attemptCount < MaxAttempts
                                     /\ message[m].nextRetryAt <= now}

Due == {m \in Messages : /\ message[m].status = "retry"
                         /\ message[m].nextRetryAt # NULL
                         /\ message[m].nextRetryAt <= now}

\* b is an answer of FindRetryReady: the due messages that come first by
\* next_retry_at, in that order (ties in any order), at most BatchLimit.
IsRetryReady(b) ==
    LET Picked == {b[i] : i \in DOMAIN b}
        At(m)  == message[m].nextRetryAt
    IN  /\ \A i, j \in DOMAIN b : i < j => b[i] # b[j] /\ At(b[i]) <= At(b[j])
        /\ \A m \in Due \ Picked : /\ Len(b) = BatchLimit
                                   /\ \A p \in Picked : At(p) <= At(m)

-----------------------------------------------------------------------------
(* The queue, and the repositories of attempts and organizations.          *)

\* queue.Push: LPUSH. The list is drained from its other end.
Push(m) == queue' = Append(queue, m)

\* attemptRepo.Create, whose error the worker ignores: the foreign key refuses
\* the row of a deleted message, the text column a body that is not text.
InsertAttempt(m, a) ==
    \/ /\ Exists(m)
       /\ attempts' = [attempts EXCEPT ![m] = Append(@, a)]
    \/ /\ ~Exists(m) \/ m \in BinaryReply
       /\ UNCHANGED attempts

\* orgRepo.GetSigningSecret: NULL stands for its error.
GetSigningSecret(m) == secret[OrgOf[m]]

-----------------------------------------------------------------------------
(* The Delivery service: QueueMessage, one handler per submitted message.  *)

\* messageRepo.Create; the foreign key refuses a deleted organization.
CreateMessage(m) ==
    /\ api[m] = "new"
    /\ IF secret[OrgOf[m]] = NULL
       THEN /\ api' = [api EXCEPT ![m] = "rejected"]
            /\ UNCHANGED message
       ELSE /\ api' = [api EXCEPT ![m] = "saved"]
            /\ message' = [message EXCEPT ![m] = NewRow]
    /\ UNCHANGED <<attempts, queue, wk, sched, secret, now, acks, fails, sentAt,
                   clobbered>>

\* Mutants of PushMessage: the id is pushed twice, or not at all.
PushTwiceMutant(m) ==
    /\ api[m] = "saved"
    /\ api' = [api EXCEPT ![m] = "done"]
    /\ queue' = queue \o <<m, m>>
    /\ UNCHANGED <<message, attempts, wk, sched, secret, now, acks, fails,
                   sentAt, clobbered>>
NoPushMutant(m) ==
    /\ api[m] = "saved"
    /\ api' = [api EXCEPT ![m] = "done"]
    /\ UNCHANGED <<message, attempts, queue, wk, sched, secret, now, acks, fails,
                   sentAt, clobbered>>

\* queue.Push, then the answer to the client.
PushMessage(m) ==
    /\ api[m] = "saved"
    /\ api' = [api EXCEPT ![m] = "done"]
    /\ Push(m)
    /\ UNCHANGED <<message, attempts, wk, sched, secret, now, acks, fails,
                   sentAt, clobbered>>

-----------------------------------------------------------------------------
(* A worker: the loop of Start and the body of deliver.                    *)

\* queue.Pop: BRPOP takes the oldest id.
Pop(w) ==
    /\ wk[w].pc = "idle"
    /\ queue # <<>>
    /\ queue' = Tail(queue)
    /\ wk' = [wk EXCEPT ![w] = [Idle EXCEPT !.pc = "popped", !.msg = Head(queue)]]
    /\ UNCHANGED <<api, message, attempts, sched, secret, now, acks, fails,
                   sentAt, clobbered>>

\* Mutant of FindById: a worker that skips a message whose row is not "pending".
PendingOnlyMutant(w) ==
    /\ wk[w].pc = "popped"
    /\ LET row == message[wk[w].msg] IN
       wk' = IF row.status = "pending"
             THEN [wk EXCEPT ![w] = [@ EXCEPT !.pc = "loaded",
                       !.count = row.attemptCount, !.retryAt = row.nextRetryAt]]
             ELSE [wk EXCEPT ![w] = Idle]
    /\ UNCHANGED <<api, message, attempts, queue, sched, secret, now, acks,
                   fails, sentAt, clobbered>>

\* messageRepo.FindById: the copy the rest of deliver works from. The status
\* is not looked at. No row: the id is dropped.
FindById(w) ==
    /\ wk[w].pc = "popped"
    /\ LET row == message[wk[w].msg] IN
       wk' = IF Exists(wk[w].msg)
             THEN [wk EXCEPT ![w] = [@ EXCEPT !.pc = "loaded",
                       !.count = row.attemptCount, !.retryAt = row.nextRetryAt]]
             ELSE [wk EXCEPT ![w] = Idle]
    /\ UNCHANGED <<api, message, attempts, queue, sched, secret, now, acks,
                   fails, sentAt, clobbered>>

\* http.NewRequestWithContext fails: the message is failed without a request.
RefuseRequest(w) ==
    /\ wk[w].pc = "loaded"
    /\ wk[w].msg \in BadURL
    /\ UpdateStatus(wk[w].msg, "failed")
    /\ wk' = [wk EXCEPT ![w] = Idle]
    /\ UNCHANGED <<api, attempts, queue, sched, secret, now, acks, fails,
                   sentAt, clobbered>>

\* Mutant of Sign: the secret is the one the worker started with.
CachedSecretMutant(w) ==
    /\ wk[w].pc = "loaded"
    /\ wk[w].msg \notin BadURL
    /\ wk' = [wk EXCEPT ![w] = [@ EXCEPT !.pc = "signed", !.secret = 0]]
    /\ UNCHANGED <<api, message, attempts, queue, sched, secret, now, acks,
                   fails, sentAt, clobbered>>

\* The signature headers. If the organization is gone the error is logged and
\* the request goes out without them.
Sign(w) ==
    /\ wk[w].pc = "loaded"
    /\ wk[w].msg \notin BadURL
    /\ wk' = [wk EXCEPT ![w] = [@ EXCEPT !.pc = "signed",
                                         !.secret = GetSigningSecret(wk[w].msg)]]
    /\ UNCHANGED <<api, message, attempts, queue, sched, secret, now, acks,
                   fails, sentAt, clobbered>>

\* Mutant of Do: any answer counts as a success.
AnyAnswerMutant(w, result) ==
    /\ wk[w].pc = "signed"
    /\ wk' = [wk EXCEPT ![w] = [@ EXCEPT !.pc = "responded", !.result = "success"]]
    /\ LET m == wk[w].msg IN
       /\ acks' = IF result = "success" THEN [acks EXCEPT ![m] = CountUp(@)] ELSE acks
       /\ fails' = IF result = "failure" THEN [fails EXCEPT ![m] = CountUp(@)] ELSE fails
       /\ sentAt' = [sentAt EXCEPT ![m] = now]
    /\ UNCHANGED <<api, message, attempts, queue, sched, secret, now, clobbered>>

\* httpClient.Do: a 2xx answer, or anything else (another status, an error,
\* the ten-second timeout).
Do(w, result) ==
    /\ wk[w].pc = "signed"
    /\ wk' = [wk EXCEPT ![w] = [@ EXCEPT !.pc = "responded", !.result = result]]
    /\ LET m == wk[w].msg IN
       /\ acks' = IF result = "success" THEN [acks EXCEPT ![m] = CountUp(@)] ELSE acks
       /\ fails' = IF result = "failure" THEN [fails EXCEPT ![m] = CountUp(@)] ELSE fails
       /\ sentAt' = [sentAt EXCEPT ![m] = now]
    /\ UNCHANGED <<api, message, attempts, queue, sched, secret, now, clobbered>>

\* Mutant of CreateAttempt: attempt_number is the count before this attempt.
OldNumberMutant(w) ==
    /\ wk[w].pc = "responded"
    /\ InsertAttempt(wk[w].msg, [number |-> wk[w].count, result |-> wk[w].result])
    /\ wk' = [wk EXCEPT ![w].pc = "logged"]
    /\ UNCHANGED <<api, message, queue, sched, secret, now, acks, fails, sentAt,
                   clobbered>>

\* The attempt is logged under the number that follows the copy's count.
CreateAttempt(w) ==
    /\ wk[w].pc = "responded"
    /\ InsertAttempt(wk[w].msg, [number |-> wk[w].count + 1,
                                 result |-> wk[w].result])
    /\ wk' = [wk EXCEPT ![w].pc = "logged"]
    /\ UNCHANGED <<api, message, queue, sched, secret, now, acks, fails, sentAt,
                   clobbered>>

\* Mutants of RecordOutcome: a status the enum does not have; one retry too many;
\* one too few; a retry that is due at once.
WriteOutcome(w, success, limit, retryAt) ==
    LET m == wk[w].msg
        n == wk[w].count
    IN  IF wk[w].result = "success" THEN UpdateStatus(m, success)
        ELSE IF n < limit THEN Update(m, "retry", n + 1, retryAt)
        ELSE Update(m, "failed", n, wk[w].retryAt)
NewStatusMutant(w) ==
    WriteOutcome(w, "delivered", MaxAttempts, now + Backoff(wk[w].count))
ExtraRetryMutant(w) ==
    WriteOutcome(w, "success", MaxAttempts + 1, now + Backoff(wk[w].count))
EarlyDeadLetterMutant(w) ==
    WriteOutcome(w, "success", MaxAttempts - 1, now + Backoff(wk[w].count))
NoBackoffMutant(w) ==
    WriteOutcome(w, "success", MaxAttempts, now)

\* The last statement of deliver: the write w makes to the row of its message.
RecordOutcome(w) ==
    LET m == wk[w].msg
        n == wk[w].count
    IN  \/ /\ wk[w].result = "success"
           /\ UpdateStatus(m, "success")
        \/ /\ wk[w].result = "failure"
           /\ n < MaxAttempts
           /\ Update(m, "retry", n + 1, now + Backoff(n))
        \/ /\ wk[w].result = "failure"
           /\ n >= MaxAttempts
           /\ Update(m, "failed", n, wk[w].retryAt)

Settle(w) ==
    /\ wk[w].pc = "logged"
    /\ RecordOutcome(w)
    /\ wk' = [wk EXCEPT ![w] = Idle]
    /\ UNCHANGED <<api, attempts, queue, sched, secret, now, acks, fails,
                   sentAt, clobbered>>

-----------------------------------------------------------------------------
(* A scheduler: processRetries.                                            *)

\* messageRepo.FindRetryReady. An empty answer changes nothing.
FetchRetries(s) ==
    /\ sched[s].pc = "idle"
    /\ Due # {}
    /\ \E n \in 1..BatchLimit : \E b \in [1..n -> Due] :
         /\ IsRetryReady(b)
         /\ sched' = [sched EXCEPT ![s] =
                [pc |-> "push",
                 batch |-> [i \in 1..n |-> [msg |-> b[i],
                                            count |-> message[b[i]].attemptCount,
                                            retryAt |-> message[b[i]].nextRetryAt]]]]
    /\ UNCHANGED <<api, message, attempts, queue, wk, secret, now, acks, fails,
                   sentAt, clobbered>>

\* Mutant of Requeue: the push is forgotten.
NoRequeueMutant(s) ==
    /\ sched[s].pc = "push"
    /\ sched' = [sched EXCEPT ![s].pc = "mark"]
    /\ UNCHANGED <<api, message, attempts, queue, wk, secret, now, acks, fails,
                   sentAt, clobbered>>

\* queue.Push of the first message of the batch.
Requeue(s) ==
    /\ sched[s].pc = "push"
    /\ Push(Head(sched[s].batch).msg)
    /\ sched' = [sched EXCEPT ![s].pc = "mark"]
    /\ UNCHANGED <<api, message, attempts, wk, secret, now, acks, fails, sentAt,
                   clobbered>>

\* The rest of the loop of processRetries once its first message is done.
Advance(s) ==
    LET rest == Tail(sched[s].batch) IN
    sched' = [sched EXCEPT ![s] = IF rest = <<>> THEN Sleeping
                                  ELSE [pc |-> "push", batch |-> rest]]

\* The row is no longer the one that FindRetryReady returned.
Stale(e) == message[e.msg] # [status |-> "retry", attemptCount |-> e.count,
                              nextRetryAt |-> e.retryAt]

\* messageRepo.Update with status "pending" and the columns read before.
MarkPending(s) ==
    /\ sched[s].pc = "mark"
    /\ LET e == Head(sched[s].batch) IN
       /\ Update(e.msg, "pending", e.count, e.retryAt)
       /\ clobbered' = IF Exists(e.msg) /\ Stale(e) THEN clobbered \cup {e.msg}
                       ELSE clobbered
    /\ Advance(s)
    /\ UNCHANGED <<api, attempts, queue, wk, secret, now, acks, fails, sentAt>>

-----------------------------------------------------------------------------
(* The API's organization handlers, and time.                              *)

RotateSigningSecret(o) ==
    /\ secret[o] # NULL
    /\ secret[o] < MaxSecret
    /\ secret' = [secret EXCEPT ![o] = @ + 1]
    /\ UNCHANGED <<api, message, attempts, queue, wk, sched, now, acks, fails,
                   sentAt, clobbered>>

\* DELETE FROM organizations: messages and delivery_attempts go with it.
DeleteOrg(o) ==
    /\ secret[o] # NULL
    /\ secret' = [secret EXCEPT ![o] = NULL]
    /\ message' = [m \in Messages |-> IF OrgOf[m] = o THEN Absent ELSE message[m]]
    /\ attempts' = [m \in Messages |-> IF OrgOf[m] = o THEN <<>> ELSE attempts[m]]
    /\ UNCHANGED <<api, queue, wk, sched, now, acks, fails, sentAt, clobbered>>

\* Time only matters while some message waits for its back-off, so it only
\* passes then: this keeps the model finite and hides no order of events.
Tick ==
    /\ \E m \in Messages : /\ message[m].status = "retry"
                           /\ message[m].nextRetryAt > now
    /\ now' = now + 1
    /\ UNCHANGED <<api, message, attempts, queue, wk, sched, secret, acks, fails,
                   sentAt, clobbered>>

-----------------------------------------------------------------------------

Init ==
    /\ api = [m \in Messages |-> "new"]
    /\ message = [m \in Messages |-> Absent]
    /\ attempts = [m \in Messages |-> <<>>]
    /\ queue = <<>>
    /\ wk = [w \in Workers |-> Idle]
    /\ sched = [s \in Schedulers |-> Sleeping]
    /\ secret = [o \in Orgs |-> 0]
    /\ now = 0
    /\ acks = [m \in Messages |-> 0]
    /\ fails = [m \in Messages |-> 0]
    /\ sentAt = [m \in Messages |-> 0]
    /\ clobbered = {}

WorkerStep(w) ==
    \/ Pop(w)
    \/ FindById(w)
    \/ RefuseRequest(w)
    \/ Sign(w)
    \/ \E result \in {"success", "failure"} : Do(w, result)
    \/ CreateAttempt(w)
    \/ Settle(w)

SchedulerStep(s) ==
    \/ FetchRetries(s)
    \/ Requeue(s)
    \/ MarkPending(s)

Next ==
    \/ \E m \in Messages : CreateMessage(m) \/ PushMessage(m)
    \/ \E w \in Workers : WorkerStep(w)
    \/ \E s \in Schedulers : SchedulerStep(s)
    \/ \E o \in Orgs : RotateSigningSecret(o)
    \/ \E o \in Deletable : DeleteOrg(o)
    \/ Tick

Spec == Init /\ [][Next]_vars

\* Handlers, workers and schedulers keep running and time passes; a client need
\* not submit anything and an admin need not rotate or delete.
Fairness ==
    /\ \A m \in Messages : WF_vars(PushMessage(m))
    /\ \A w \in Workers : WF_vars(WorkerStep(w))
    /\ \A s \in Schedulers : WF_vars(SchedulerStep(s))
    /\ WF_vars(Tick)

FairSpec == Spec /\ Fairness

-----------------------------------------------------------------------------
(* Properties.                                                             *)

\* Every variable has its type.
TypeOK ==
    /\ api \in [Messages -> {"new", "saved", "done", "rejected"}]
    /\ message \in [Messages -> Row]
    /\ attempts \in [Messages -> Seq(Attempt)]
    /\ queue \in Seq(Messages)
    /\ wk \in [Workers -> WorkerState]
    /\ sched \in [Schedulers -> SchedState]
    /\ secret \in [Orgs -> Nat \cup {NULL}]
    /\ now \in Nat
    /\ acks \in [Messages -> Nat]
    /\ fails \in [Messages -> Nat]
    /\ sentAt \in [Messages -> Nat]
    /\ clobbered \subseteq Messages

\* Where the one token of a message can be: with the handler about to push it,
\* in the queue, or with a worker.
InQueue(m) == \E i \in DOMAIN queue : queue[i] = m
Holds(w, m) == wk[w].pc # "idle" /\ wk[w].msg = m
HasToken(m) == api[m] = "saved" \/ InQueue(m) \/ \E w \in Workers : Holds(w, m)

\* At most one worker is delivering a message, and while one does the message
\* is not queued a second time, although worker.Start never looks at the status
\* and Requeue pushes before the row says "pending".
ExclusiveDelivery ==
    \A m \in Messages :
        /\ \A i, j \in DOMAIN queue : queue[i] = m /\ queue[j] = m => i = j
        /\ \A v, w \in Workers : Holds(v, m) /\ Holds(w, m) => v = w
        /\ \A w \in Workers : Holds(w, m) => ~InQueue(m)
        /\ api[m] = "saved" => ~InQueue(m) /\ \A w \in Workers : ~Holds(w, m)

\* A message that says "pending" is on its way to a worker. The one exception is
\* a message whose row processRetries overwrote with columns it had read before a
\* worker changed them (clobbered).
NotStranded ==
    \A m \in Messages :
        message[m].status = "pending" => HasToken(m) \/ m \in clobbered

\* delivery_attempts tells the history: attempt_number is 1, 2, 3... in the order
\* of insertion, only the last attempt can be a success, and every completed
\* request is there except one whose row is about to be inserted.
AttemptLog ==
    \A m \in Messages \ BinaryReply :
        LET log == attempts[m] IN
        Exists(m) =>
            /\ \A i \in DOMAIN log : log[i].number = i
            /\ \A i \in DOMAIN log : log[i].result = "success" => i = Len(log)
            /\ Len(log) = acks[m] + fails[m]
               \/ \E w \in Workers : /\ Holds(w, m)
                                     /\ wk[w].pc = "responded"
                                     /\ Len(log) + 1 = acks[m] + fails[m]

\* What DeleteOrg removed stays removed: no worker or scheduler that was in the
\* middle of its work brings a message or an attempt back.
NoOrphans ==
    \A m \in Messages :
        secret[OrgOf[m]] = NULL => ~Exists(m) /\ attempts[m] = <<>>

\* attempt_count never exceeds MaxAttempts, in the row or in any copy of it.
AttemptBound ==
    /\ \A m \in Messages : message[m].attemptCount <= MaxAttempts
    /\ \A w \in Workers : wk[w].count <= MaxAttempts
    /\ \A s \in Schedulers : \A i \in DOMAIN sched[s].batch :
           sched[s].batch[i].count <= MaxAttempts

\* A message says "success" only if its endpoint answered a request with 2xx.
SuccessIsReal ==
    \A m \in Messages : message[m].status = "success" => acks[m] > 0

\* A message is given up only after MaxAttempts + 1 requests failed, unless no
\* request can be built for it.
NoPrematureDeadLetter ==
    \A m \in Messages \ BadURL :
        message[m].status = "failed" => fails[m] >= MaxAttempts + 1

\* A final status changes only when the organization is deleted, or by the
\* second half of a scheduler's re-queue of that very message.
FinalUnlessRequeued ==
    [][\A m \in Messages :
          /\ message[m].status \in {"success", "failed"}
          /\ message'[m].status # message[m].status
          => \/ message'[m].status = "absent"
             \/ \E s \in Schedulers : /\ sched[s].pc = "mark"
                                      /\ Head(sched[s].batch).msg = m]_vars

\* Rotation reaches every worker: once a secret is replaced, only a request that
\* was already signed can still carry it (README: "immediately invalidating the
\* old one"; deliver reads the secret anew for every request).
RotationReaches ==
    \A w \in Workers, o \in Orgs, v \in 1..MaxSecret :
        []((wk[w].pc # "signed" /\ secret[o] = v)
           => [](wk[w].pc = "signed" /\ OrgOf[wk[w].msg] = o
                 => wk[w].secret = NULL \/ wk[w].secret >= v))

\* The requests that leave the workers are the ones the contract allows.
Contract == INSTANCE DeliveryContract
MeetsContract == Contract!CSpec

\* A persisted message is tried at least once, or failed as unsendable, or
\* deleted (delivery.QueueMessage pushes what it saved, workers pop it).
Tried(m) == acks[m] + fails[m] > 0 \/ message[m].status \in {"failed", "absent"}
FirstAttempt == \A m \in Messages : api[m] = "saved" ~> Tried(m)

\* The scheduler reaches every message that waits for a retry.
RetryServed == \A m \in Messages : message[m].status = "retry" ~> message[m].status # "retry"

\* A persisted message ends as "success" or "failed" for good (or is deleted), unless a
\* stale scheduler write hit it: that race is the only way to lose one.
Settled(m) == message[m].status \in {"success", "failed", "absent"}
SettlesUnlessClobbered ==
    \A m \in Messages : api[m] = "saved" ~> [](Settled(m) \/ m \in clobbered)

\* README: "creating a continuous retry loop until success or exhaustion of all 5
\* attempts": every persisted message ends as "success" or "failed" for good.
Settles == \A m \in Messages : api[m] = "saved" ~> []Settled(m)

\* README: "until success or exhaustion of all 5 attempts".
AtMostMaxAttempts == \A m \in Messages : Len(attempts[m]) <= MaxAttempts

\* README: "Every webhook delivery includes three headers for payload
\* verification".
EverySendSigned ==
    [][\A w \in Workers : wk[w].pc = "signed" /\ wk'[w].pc = "responded"
                          => wk[w].secret # NULL]_vars
=============================================================================
