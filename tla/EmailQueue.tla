----------------------------- MODULE EmailQueue -----------------------------
(***************************************************************************)
(* Password-reset e-mail: forgotPassword puts a message on an SQS queue    *)
(* (email/password-reset-dispatcher.service.ts), Lambda hands batches of   *)
(* it to the worker (lambda-workers.ts), which sends one e-mail after the  *)
(* other through SES.  A worker that throws, times out or dies gives its   *)
(* whole batch back; a message received too often goes to the dead-letter  *)
(* queue.  The worker's timeout (30 s) is shorter than the time a received *)
(* message stays hidden (60 s), so that no batch is handed out twice at    *)
(* once.                                                                   *)
(***************************************************************************)
EXTENDS Naturals, FiniteSets

CONSTANTS
    Messages,    \* one per forgotPassword request that got to its dispatch
    Bad,         \* those whose address SES refuses
    Workers,     \* the worker's containers
    BatchSize,
    MaxReceive,  \* RedrivePolicy.maxReceiveCount
    MaxSends     \* the attempts the SQS client makes at each SendMessage

ASSUME EmailQueueAssumption ==
    /\ Bad \subseteq Messages
    /\ BatchSize \in Nat \ {0} /\ MaxReceive \in Nat \ {0}
    /\ MaxSends \in [Messages -> Nat \ {0}]

(* A copy of a message is named by the attempt that enqueued it.           *)
Copies == UNION {{m} \X (1 .. MaxSends[m]) : m \in Messages}

VARIABLES
    request,   \* forgotPassword's dispatch: what it awaits or answered
    attempt,   \* the attempts at its SendMessage so far
    queue,     \* the state of each copy
    received,  \* ApproximateReceiveCount of each copy
    worker,    \* what each container is doing
    ready,     \* the containers whose application context is cached
    sent       \* e-mails SES accepted, per message

vars == <<request, attempt, queue, received, worker, ready, sent>>

api == <<request, attempt>>
sqs == <<queue, received>>

Idle == [pc |-> "idle", batch |-> {}, todo |-> {}]

Waiting == {k \in Copies : queue[k] = "visible"}

-----------------------------------------------------------------------------
(* dispatch(): the client repeats a SendMessage it has no answer to.       *)

Dispatch(m) ==
    /\ request[m] = "idle"
    /\ request' = [request EXCEPT ![m] = "sending"]
    /\ UNCHANGED <<attempt, sqs, worker, ready, sent>>

(* The attempt fails or succeeds, and its answer arrives or is lost.       *)
SendMessage(m) ==
    /\ request[m] = "sending"
    /\ attempt' = [attempt EXCEPT ![m] = @ + 1]
    /\ \E enqueued, answered \in BOOLEAN :
          /\ queue' = IF enqueued THEN [queue EXCEPT ![<<m, attempt'[m]>>] = "visible"]
                                  ELSE queue
          /\ request' = [request EXCEPT ![m] =
                CASE enqueued /\ answered -> "accepted"
                  [] ~ (enqueued /\ answered) /\ attempt'[m] = MaxSends[m] -> "failed"
                  [] OTHER -> "sending"]
    /\ UNCHANGED <<received, worker, ready, sent>>

-----------------------------------------------------------------------------
(* The worker.                                                             *)

(* Mutant: no redrive policy.                                              *)
ReceiveForever(w) ==
    /\ worker[w].pc = "idle"
    /\ \E B \in SUBSET Waiting :
          /\ B # {} /\ Cardinality(B) <= BatchSize
          /\ queue' = [k \in Copies |-> IF k \in B THEN "held" ELSE queue[k]]
          /\ received' = [k \in Copies |-> IF k \in B THEN received[k] + 1
                                                      ELSE received[k]]
          /\ worker' = [worker EXCEPT ![w] =
                [pc |-> IF w \in ready THEN "send" ELSE "start",
                 batch |-> B, todo |-> B]]
    /\ UNCHANGED <<api, ready, sent>>

(* Lambda receives a batch and invokes a container with it.                *)
Receive(w) ==
    /\ worker[w].pc = "idle"
    /\ \E B \in SUBSET {k \in Waiting : received[k] < MaxReceive} :
          /\ B # {} /\ Cardinality(B) <= BatchSize
          /\ queue' = [k \in Copies |-> IF k \in B THEN "held" ELSE queue[k]]
          /\ received' = [k \in Copies |-> IF k \in B THEN received[k] + 1
                                                      ELSE received[k]]
          /\ worker' = [worker EXCEPT ![w] =
                [pc |-> IF w \in ready THEN "send" ELSE "start",
                 batch |-> B, todo |-> B]]
    /\ UNCHANGED <<api, ready, sent>>

(* The receive after the last moves the message to the dead-letter queue.  *)
Redrive(k) ==
    /\ queue[k] = "visible" /\ received[k] >= MaxReceive
    /\ queue' = [queue EXCEPT ![k] = "dead"]
    /\ UNCHANGED <<api, received, worker, ready, sent>>

(* The invocation is over and w's whole batch is in state s.               *)
Over(w, s) ==
    /\ queue' = [k \in Copies |-> IF k \in worker[w].batch THEN s ELSE queue[k]]
    /\ worker' = [worker EXCEPT ![w] = Idle]

(* getEmailService(): the context is created once per container, or again  *)
(* after it failed.                                                        *)
Start(w) ==
    /\ worker[w].pc = "start"
    /\ \/ /\ ready' = ready \cup {w}
          /\ worker' = [worker EXCEPT ![w].pc = "send"]
          /\ UNCHANGED queue
       \/ Over(w, "visible") /\ UNCHANGED ready
    /\ UNCHANGED <<api, received, sent>>

(* Mutant: an error is logged, and the loop goes on.                       *)
SendFailSwallowed(w, k) ==
    /\ worker[w].pc = "send" /\ k \in worker[w].todo
    /\ worker' = [worker EXCEPT ![w].todo = @ \ {k}]
    /\ UNCHANGED <<api, sqs, ready, sent>>

(* SES takes the e-mail, or may take it and be thought to have failed.     *)
Mail(k) == sent' = [sent EXCEPT ![k[1]] = @ + 1]

SendOk(w, k) ==
    /\ worker[w].pc = "send" /\ k \in worker[w].todo
    /\ k[1] \notin Bad
    /\ Mail(k)
    /\ worker' = [worker EXCEPT ![w].todo = @ \ {k}]
    /\ UNCHANGED <<api, sqs, ready>>

(* The error propagates: what was sent before goes back to the queue too.  *)
SendFail(w, k) ==
    /\ worker[w].pc = "send" /\ k \in worker[w].todo
    /\ \/ UNCHANGED sent
       \/ k[1] \notin Bad /\ Mail(k)
    /\ Over(w, "visible")
    /\ UNCHANGED <<api, received, ready>>

(* The batch is deleted once the handler returned.                         *)
Complete(w) ==
    /\ worker[w].pc = "send" /\ worker[w].todo = {}
    /\ Over(w, "deleted")
    /\ UNCHANGED <<api, received, ready, sent>>

(* Mutant: SQS shows the batch again while the container works on it.      *)
CrashLater(w) ==
    /\ worker[w].pc # "idle"
    /\ queue' = [k \in Copies |-> IF k \in worker[w].batch THEN "visible"
                                                           ELSE queue[k]]
    /\ UNCHANGED <<api, received, worker, ready, sent>>

(* The container times out or dies.                                        *)
Crash(w) ==
    /\ worker[w].pc # "idle"
    /\ Over(w, "visible")
    /\ ready' = ready \ {w}
    /\ UNCHANGED <<api, received, sent>>

Work(w) == \/ Start(w) \/ Complete(w) \/ Crash(w)
           \/ \E k \in Copies : SendOk(w, k) \/ SendFail(w, k)

-----------------------------------------------------------------------------
Init ==
    /\ request = [m \in Messages |-> "idle"]
    /\ attempt = [m \in Messages |-> 0]
    /\ queue = [k \in Copies |-> "absent"]
    /\ received = [k \in Copies |-> 0]
    /\ worker = [w \in Workers |-> Idle]
    /\ ready = {}
    /\ sent = [m \in Messages |-> 0]

Next == \/ \E m \in Messages : Dispatch(m) \/ SendMessage(m)
        \/ \E k \in Copies : Redrive(k)
        \/ \E w \in Workers : Receive(w) \/ Work(w)

(* SQS hands out what is visible, sooner or later every copy of it, and an *)
(* invocation ends, within its timeout at the latest.                      *)
Fairness ==
    /\ \A k \in Copies : /\ WF_vars(Redrive(k))
                         /\ SF_vars(\E w \in Workers :
                                       Receive(w) /\ k \in worker'[w].batch)
    /\ \A w \in Workers : WF_vars(Work(w))

Spec == Init /\ [][Next]_vars /\ Fairness

-----------------------------------------------------------------------------
(* Every variable holds the kind of value it has in the code or in SQS.    *)
TypeOK ==
    /\ request \in [Messages -> {"idle", "sending", "accepted", "failed"}]
    /\ attempt \in [Messages -> Nat]
    /\ \A m \in Messages : attempt[m] <= MaxSends[m]
    /\ queue \in [Copies -> {"absent", "visible", "held", "deleted", "dead"}]
    /\ received \in [Copies -> 0 .. MaxReceive]
    /\ worker \in [Workers -> [pc : {"idle", "start", "send"},
                               batch : SUBSET Copies, todo : SUBSET Copies]]
    /\ ready \in SUBSET Workers
    /\ sent \in [Messages -> Nat]

(* A message only leaves the queue mailed or dead: no error, no timeout    *)
(* and no crash of the worker loses a password reset silently.             *)
NothingLostSilently ==
    \A k \in Copies : queue[k] = "deleted" => sent[k[1]] > 0

(* However workers fail after SES took an e-mail, a user gets it at most   *)
(* once per receive of each copy.                                          *)
MailsAreBounded ==
    \A m \in Messages : sent[m] <= MaxSends[m] * MaxReceive

(* A copy is in the hands of one container at most, and of one exactly     *)
(* while SQS hides it.                                                     *)
HeldByOne ==
    \A k \in Copies :
        Cardinality({w \in Workers : k \in worker[w].batch})
            = IF queue[k] = "held" THEN 1 ELSE 0

(* Nothing is lost, mailed without end, or in two hands at once, whatever   *)
(* throws, times out or dies.                                               *)
QueueIsSafe == NothingLostSilently /\ MailsAreBounded /\ HeldByOne

(* The queue, the worker and its failures implement the promise of         *)
(* Delivery, its liveness included.                                        *)
Promise == INSTANCE Delivery WITH
    owed   <- {m \in Messages : \E k \in Copies :
                  k[1] = m /\ queue[k] \in {"visible", "held"}},
    mailed <- {m \in Messages : sent[m] > 0},
    buried <- {m \in Messages : \E k \in Copies : k[1] = m /\ queue[k] = "dead"}

Delivered == Promise!Spec
=============================================================================
