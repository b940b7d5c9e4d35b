-------------------------- MODULE EmailQueueProofs --------------------------
(***************************************************************************)
(* The safety of EmailQueue, and that its steps are steps of Delivery, for *)
(* any number of messages, containers, receives and attempts.              *)
(*                                                                         *)
(* What SQS hides and what the containers hold is one partition, and a     *)
(* copy a container has ticked off was mailed: that is what makes deleting *)
(* a whole batch safe.  E-mails are counted against the receives they      *)
(* cost: each receive of a copy pays for one e-mail at most, and the pairs *)
(* of a copy and one of its receives are a finite set.                     *)
(***************************************************************************)
EXTENDS EmailQueue, FiniteSetTheorems, TLAPS

(* A copy that no attempt has enqueued has not been received.              *)
Unsent(k) == k[2] > attempt[k[1]] => queue[k] = "absent"

Fresh(k) == queue[k] = "absent" => received[k] = 0

(* Who is sending has an attempt left.                                     *)
AttemptsLeft(m) == /\ request[m] = "idle" => attempt[m] = 0
                   /\ request[m] = "sending" => attempt[m] < MaxSends[m]

(* What a container holds is hidden, and was received to be held.          *)
Hand(w) ==
    /\ worker[w].todo \subseteq worker[w].batch
    /\ worker[w].pc = "idle" => worker[w].batch = {}
    /\ worker[w].pc = "start" => worker[w].todo = worker[w].batch
    /\ \A k \in worker[w].batch :
          /\ queue[k] = "held" /\ received[k] > 0
          /\ k \notin worker[w].todo => sent[k[1]] > 0

OneHand == \A w, v \in Workers :
              w # v => worker[w].batch \cap worker[v].batch = {}

HiddenIsHeld == \A k \in Copies :
                   queue[k] = "held" => \E w \in Workers : k \in worker[w].batch

(* The receives of m's copies that have had their attempt at mailing.      *)
Receipts(m) == (1 .. MaxSends[m]) \X (1 .. MaxReceive)

ToMail(k) == \E w \in Workers : k \in worker[w].todo

Spent(m) == {t \in Receipts(m) :
                /\ t[2] <= received[<<m, t[1]>>]
                /\ t[2] = received[<<m, t[1]>>] => ~ ToMail(<<m, t[1]>>)}

PaidFor(m) == sent[m] <= Cardinality(Spent(m))

Inv == /\ TypeOK
       /\ \A m \in Messages : AttemptsLeft(m) /\ PaidFor(m)
       /\ \A k \in Copies : Unsent(k) /\ Fresh(k)
       /\ \A w \in Workers : Hand(w)
       /\ OneHand /\ HiddenIsHeld /\ NothingLostSilently

-----------------------------------------------------------------------------
LEMMA CopyIsPair ==
    /\ \A k \in Copies : /\ k[1] \in Messages /\ k[2] \in 1 .. MaxSends[k[1]]
                         /\ k = <<k[1], k[2]>>
    /\ \A m \in Messages : \A i \in 1 .. MaxSends[m] : <<m, i>> \in Copies
BY DEF Copies

LEMMA SendsArePositive == \A m \in Messages : MaxSends[m] \in Nat /\ 0 < MaxSends[m]
BY EmailQueueAssumption

LEMMA ReceiptsAreFinite ==
    ASSUME NEW m \in Messages
    PROVE  /\ IsFiniteSet(Receipts(m))
           /\ Cardinality(Receipts(m)) = MaxSends[m] * MaxReceive
<1>1. MaxSends[m] \in Nat \ {0} /\ MaxReceive \in Nat \ {0}
  BY EmailQueueAssumption
<1>2. ASSUME NEW n \in Nat \ {0}
      PROVE  IsFiniteSet(1 .. n) /\ Cardinality(1 .. n) = n
  <2>1. 1 \in Int /\ n \in Int /\ ~(1 > n) /\ n - 1 + 1 = n
    OBVIOUS
  <2> QED BY <2>1, FS_Interval
<1> DEFINE S == 1 .. MaxSends[m]
           R == 1 .. MaxReceive
<1>3. /\ IsFiniteSet(S) /\ Cardinality(S) = MaxSends[m]
      /\ IsFiniteSet(R) /\ Cardinality(R) = MaxReceive
  BY <1>1, <1>2
<1>4. Receipts(m) = S \X R
  BY DEF Receipts
<1> HIDE DEF S, R
<1>5. IsFiniteSet(S \X R) /\ Cardinality(S \X R) = Cardinality(S) * Cardinality(R)
  BY <1>3, FS_Product
<1> QED BY <1>3, <1>4, <1>5

LEMMA SpentIsFinite ==
    ASSUME NEW m \in Messages
    PROVE  /\ IsFiniteSet(Spent(m)) /\ Cardinality(Spent(m)) \in Nat
           /\ Cardinality(Spent(m)) <= MaxSends[m] * MaxReceive
           /\ IsFiniteSet(Spent(m)') /\ Cardinality(Spent(m)') \in Nat
<1>1. Spent(m) \in SUBSET Receipts(m) /\ Spent(m)' \in SUBSET Receipts(m)
  BY DEF Spent, Receipts
<1> QED BY <1>1, ReceiptsAreFinite, FS_Subset, FS_CardinalityType

(* Receipts are never taken back, so what was paid for stays so, and a     *)
(* receipt that is spent pays for one e-mail more.                         *)
LEMMA StillPaidFor ==
    ASSUME Inv, NEW m \in Messages, Spent(m) \subseteq Spent(m)', sent'[m] = sent[m]
    PROVE  PaidFor(m)'
<1>1. Cardinality(Spent(m)) <= Cardinality(Spent(m)')
  BY SpentIsFinite, FS_Subset
<1> QED BY <1>1, SpentIsFinite DEF Inv, TypeOK, PaidFor

LEMMA OneMorePaidFor ==
    ASSUME Inv, NEW m \in Messages, Spent(m) \subseteq Spent(m)',
           NEW t \in Spent(m)', t \notin Spent(m), sent'[m] = sent[m] + 1
    PROVE  PaidFor(m)'
<1>1. Cardinality(Spent(m) \cup {t}) = Cardinality(Spent(m)) + 1
  BY SpentIsFinite, FS_AddElement
<1>2. Cardinality(Spent(m) \cup {t}) <= Cardinality(Spent(m)')
  BY SpentIsFinite, FS_Subset
<1> QED BY <1>1, <1>2, SpentIsFinite DEF Inv, TypeOK, PaidFor

LEMMA SpentOnly ==
    ASSUME NEW m \in Messages,
           \A k \in Copies : /\ received'[k] = received[k]
                             /\ ToMail(k)' => ToMail(k)
    PROVE  Spent(m) \subseteq Spent(m)'
BY CopyIsPair DEF Spent, Receipts

-----------------------------------------------------------------------------
(* The request's side and the queue's own.                                 *)

LEMMA InitInv == Init => Inv
<1> SUFFICES ASSUME Init PROVE Inv
  OBVIOUS
<1> USE EmailQueueAssumption DEF Init, Idle
<1>1. TypeOK
  BY CopyIsPair DEF TypeOK
<1>2. \A m \in Messages : AttemptsLeft(m) /\ PaidFor(m)
  BY SpentIsFinite DEF AttemptsLeft, PaidFor
<1>3. \A k \in Copies : Unsent(k) /\ Fresh(k)
  BY DEF Unsent, Fresh
<1>4. \A w \in Workers : Hand(w)
  BY DEF Hand
<1>5. OneHand /\ HiddenIsHeld /\ NothingLostSilently
  BY DEF OneHand, HiddenIsHeld, NothingLostSilently
<1> QED BY <1>1, <1>2, <1>3, <1>4, <1>5 DEF Inv

(* A step that leaves the containers and the e-mails alone, and no copy    *)
(* comes into or out of hiding.                                            *)
LEMMA QueueStep ==
    ASSUME Inv, UNCHANGED <<received, worker, ready, sent>>, TypeOK',
           \A m \in Messages : AttemptsLeft(m)',
           \A k \in Copies : /\ Unsent(k)' /\ Fresh(k)'
                             /\ queue[k] = "held" <=> queue'[k] = "held"
                             /\ queue'[k] = "deleted" => queue[k] = "deleted"
    PROVE  Inv'
<1>1. \A m \in Messages : PaidFor(m)'
  BY SpentOnly, StillPaidFor DEF ToMail
<1>2. \A w \in Workers : Hand(w)'
  BY DEF Inv, Hand, TypeOK
<1>3. OneHand' /\ HiddenIsHeld' /\ NothingLostSilently'
  BY DEF Inv, OneHand, HiddenIsHeld, NothingLostSilently
<1> QED BY <1>1, <1>2, <1>3 DEF Inv

LEMMA DispatchKeeps ==
    ASSUME Inv, NEW m \in Messages, Dispatch(m)  PROVE Inv'
<1>1. TypeOK'
  BY DEF Inv, TypeOK, Dispatch, sqs
<1>2. \A n \in Messages : AttemptsLeft(n)'
  <2> SUFFICES ASSUME NEW n \in Messages PROVE AttemptsLeft(n)'
    OBVIOUS
  <2>1. AttemptsLeft(n) /\ attempt'[n] = attempt[n]
    BY DEF Inv, Dispatch
  <2>2. request'[n] = (IF n = m THEN "sending" ELSE request[n])
    BY DEF Inv, TypeOK, Dispatch
  <2> QED BY <2>1, <2>2, SendsArePositive DEF AttemptsLeft, Dispatch
<1>3. \A k \in Copies : Unsent(k)' /\ Fresh(k)'
  BY DEF Inv, Unsent, Fresh, Dispatch, sqs
<1> QED BY <1>1, <1>2, <1>3, QueueStep DEF Dispatch, sqs

LEMMA SendMessageKeeps ==
    ASSUME Inv, NEW m \in Messages, SendMessage(m)  PROVE Inv'
<1> DEFINE k == <<m, attempt'[m]>>
<1>1. /\ attempt'[m] = attempt[m] + 1 /\ attempt'[m] \in 1 .. MaxSends[m]
      /\ \A n \in Messages \ {m} : attempt'[n] = attempt[n] /\ request'[n] = request[n]
      /\ attempt' \in [Messages -> Nat]
      /\ UNCHANGED <<received, worker, ready, sent>>
  <2>1. /\ attempt' = [attempt EXCEPT ![m] = @ + 1]
        /\ UNCHANGED <<received, worker, ready, sent>>
        /\ \E a \in {"accepted", "failed", "sending"} : request' = [request EXCEPT ![m] = a]
    BY DEF SendMessage
  <2>2. request \in [Messages -> {"idle", "sending", "accepted", "failed"}]
        /\ attempt \in [Messages -> Nat] /\ attempt[m] < MaxSends[m]
    BY DEF Inv, TypeOK, AttemptsLeft, SendMessage
  <2> QED BY <2>1, <2>2, SendsArePositive
<1>2. k \in Copies /\ queue[k] = "absent"
  BY <1>1, CopyIsPair DEF Inv, Unsent, TypeOK
<1>3. queue' = queue \/ queue' = [queue EXCEPT ![k] = "visible"]
  BY DEF SendMessage
<1>4. /\ request'[m] \in {"accepted", "failed", "sending"}
      /\ request'[m] = "sending" => attempt'[m] # MaxSends[m]
      /\ request' = [request EXCEPT ![m] = request'[m]]
  <2>1. \E a \in {"accepted", "failed", "sending"} :
           /\ request' = [request EXCEPT ![m] = a]
           /\ a = "sending" => attempt'[m] # MaxSends[m]
    <3>1. ASSUME NEW enqueued, NEW answered
          PROVE  LET a == CASE enqueued /\ answered -> "accepted"
                            [] ~ (enqueued /\ answered) /\ attempt'[m] = MaxSends[m] -> "failed"
                            [] OTHER -> "sending"
                 IN  /\ a \in {"accepted", "failed", "sending"}
                     /\ a = "sending" => attempt'[m] # MaxSends[m]
      OBVIOUS
    <3> QED BY <3>1 DEF SendMessage
  <2> QED BY <2>1 DEF Inv, TypeOK
<1>5. TypeOK'
  BY <1>1, <1>2, <1>3, <1>4 DEF Inv, TypeOK
<1>6. \A n \in Messages : AttemptsLeft(n)'
  BY <1>1, <1>4, SendsArePositive DEF Inv, AttemptsLeft
<1>7. \A l \in Copies : Unsent(l)' /\ Fresh(l)'
  BY <1>1, <1>2, <1>3, CopyIsPair DEF Inv, Unsent, Fresh, TypeOK
<1> QED BY <1>1, <1>2, <1>3, <1>5, <1>6, <1>7, QueueStep DEF Inv, TypeOK

LEMMA RedriveKeeps ==
    ASSUME Inv, NEW k \in Copies, Redrive(k)  PROVE Inv'
<1>1. TypeOK'
  BY DEF Inv, TypeOK, Redrive, api
<1>2. \A n \in Messages : AttemptsLeft(n)'
  BY DEF Inv, AttemptsLeft, Redrive, api
<1>3. \A l \in Copies : Unsent(l)' /\ Fresh(l)'
  BY CopyIsPair DEF Inv, TypeOK, Unsent, Fresh, Redrive, api
<1> QED BY <1>1, <1>2, <1>3, QueueStep DEF Inv, TypeOK, Redrive

-----------------------------------------------------------------------------
(* The containers.                                                         *)

(* A batch is taken: its copies were in no hand.                           *)
LEMMA ReceiveKeeps ==
    ASSUME Inv, NEW w \in Workers, Receive(w)  PROVE Inv'
<1>1. PICK B \in SUBSET {k \in Waiting : received[k] < MaxReceive} :
          /\ queue' = [k \in Copies |-> IF k \in B THEN "held" ELSE queue[k]]
          /\ received' = [k \in Copies |-> IF k \in B THEN received[k] + 1
                                                      ELSE received[k]]
          /\ worker' = [worker EXCEPT ![w] =
                [pc |-> IF w \in ready THEN "send" ELSE "start",
                 batch |-> B, todo |-> B]]
  BY DEF Receive
<1>2. /\ UNCHANGED <<request, attempt, ready, sent>> /\ worker[w].pc = "idle"
      /\ B \subseteq Copies
      /\ \A k \in B : queue[k] = "visible" /\ received[k] < MaxReceive
  BY DEF Receive, api, Waiting
<1>3. /\ worker'[w].pc \in {"start", "send"}
      /\ worker'[w].batch = B /\ worker'[w].todo = B
      /\ \A v \in Workers \ {w} : worker'[v] = worker[v]
  BY <1>1 DEF Inv, TypeOK
<1>4. \A v \in Workers : worker[v].batch \cap B = {} /\ worker[v].todo \cap B = {}
  BY <1>2 DEF Inv, Hand
<1>5. \A k \in Copies : received[k] \in 0 .. MaxReceive
  BY DEF Inv, TypeOK
<1>6. TypeOK'
  <2>1. received' \in [Copies -> 0 .. MaxReceive]
    BY <1>1, <1>2, <1>5, EmailQueueAssumption
  <2>2. worker' \in [Workers -> [pc : {"idle", "start", "send"},
                                 batch : SUBSET Copies, todo : SUBSET Copies]]
    BY <1>1, <1>2 DEF Inv, TypeOK
  <2> QED BY <1>1, <1>2, <2>1, <2>2 DEF Inv, TypeOK
<1>7. \A m \in Messages : AttemptsLeft(m)' /\ PaidFor(m)'
  <2> SUFFICES ASSUME NEW m \in Messages PROVE AttemptsLeft(m)' /\ PaidFor(m)'
    OBVIOUS
  <2>1. ASSUME NEW t \in Spent(m) PROVE t \in Spent(m)'
    <3> DEFINE k == <<m, t[1]>>
    <3>1. /\ k \in Copies /\ t \in Receipts(m) /\ t[2] \in Nat
          /\ t[2] <= received[k] /\ (t[2] = received[k] => ~ ToMail(k))
      BY CopyIsPair DEF Spent, Receipts
    <3>2. CASE k \in B
      BY <1>1, <1>5, <3>1, <3>2 DEF Spent
    <3>3. CASE k \notin B
      BY <1>1, <1>3, <3>1, <3>3 DEF Spent, ToMail
    <3> QED BY <3>2, <3>3
  <2> QED BY <1>2, <2>1, StillPaidFor DEF Inv, AttemptsLeft
<1>8. \A k \in Copies : Unsent(k)' /\ Fresh(k)'
  BY <1>1, <1>2, <1>5 DEF Inv, Unsent, Fresh
<1>9. \A v \in Workers : Hand(v)'
  <2> SUFFICES ASSUME NEW v \in Workers PROVE Hand(v)'
    OBVIOUS
  <2>1. CASE v = w
    BY <1>1, <1>2, <1>3, <1>5, <2>1 DEF Hand
  <2>2. CASE v # w
    <3>1. worker'[v] = worker[v] /\ Hand(v) /\ worker[v].batch \subseteq Copies
      BY <1>3, <2>2 DEF Inv, TypeOK
    <3> QED BY <1>1, <1>2, <1>4, <3>1 DEF Hand
  <2> QED BY <2>1, <2>2
<1>10. OneHand'
  BY <1>3, <1>4 DEF Inv, OneHand
<1>11. HiddenIsHeld'
  <2> SUFFICES ASSUME NEW k \in Copies, queue'[k] = "held"
               PROVE  \E v \in Workers : k \in worker'[v].batch
    BY DEF HiddenIsHeld
  <2>1. CASE k \notin B
    <3>1. PICK v \in Workers : k \in worker[v].batch
      BY <1>1, <2>1 DEF Inv, HiddenIsHeld
    <3> QED BY <1>2, <1>3, <3>1 DEF Inv, Hand
  <2> QED BY <1>3, <2>1
<1>12. NothingLostSilently'
  BY <1>1, <1>2 DEF Inv, NothingLostSilently
<1> QED BY <1>6, <1>7, <1>8, <1>9, <1>10, <1>11, <1>12 DEF Inv

(* An invocation that is over lets its whole batch go: back to the queue,  *)
(* or away if all of it was mailed.  On its way out it may have mailed one *)
(* more.                                                                   *)
LEMMA OverKeeps ==
    ASSUME Inv, NEW w \in Workers, NEW s \in {"visible", "deleted"}, Over(w, s),
           UNCHANGED <<request, attempt, received>>, ready' \in SUBSET Workers,
           worker[w].pc # "idle",
           s = "deleted" => worker[w].todo = {},
           UNCHANGED sent \/ \E k \in worker[w].todo : Mail(k)
    PROVE  Inv'
<1> DEFINE B == worker[w].batch
<1>1. /\ queue' = [k \in Copies |-> IF k \in B THEN s ELSE queue[k]]
      /\ worker' = [worker EXCEPT ![w] = Idle]
  BY DEF Over
<1>2. /\ worker'[w] = Idle /\ B \subseteq Copies
      /\ \A v \in Workers \ {w} : worker'[v] = worker[v]
  BY <1>1 DEF Inv, TypeOK
<1>3. \A k \in B : queue[k] = "held" /\ received[k] > 0
  BY DEF Inv, Hand
<1>4. sent' \in [Messages -> Nat] /\ \A m \in Messages : sent'[m] >= sent[m]
  <2>1. sent \in [Messages -> Nat] /\ worker[w].todo \subseteq B
    BY DEF Inv, TypeOK, Hand
  <2>2. ASSUME NEW k \in worker[w].todo, Mail(k)
        PROVE  sent' \in [Messages -> Nat] /\ \A m \in Messages : sent'[m] >= sent[m]
    <3>1. sent' = [sent EXCEPT ![k[1]] = sent[k[1]] + 1] /\ k[1] \in Messages
      BY <1>2, <2>1, <2>2, CopyIsPair DEF Mail
    <3> QED BY <2>1, <3>1
  <2> QED BY <2>1, <2>2
<1>5. TypeOK'
  BY <1>1, <1>4 DEF Inv, TypeOK, Idle
<1>6. \A m \in Messages : AttemptsLeft(m)'
  BY DEF Inv, AttemptsLeft
<1>7. \A k \in Copies : ToMail(k)' => ToMail(k)
  BY <1>2 DEF ToMail, Idle
<1>8. \A m \in Messages : PaidFor(m)'
  <2> SUFFICES ASSUME NEW m \in Messages PROVE PaidFor(m)'
    OBVIOUS
  <2>1. Spent(m) \subseteq Spent(m)'
    BY <1>7, SpentOnly DEF Inv, TypeOK
  <2>2. CASE sent'[m] = sent[m]
    BY <2>1, <2>2, StillPaidFor
  <2>3. CASE sent'[m] # sent[m]
    <3>1. PICK k \in worker[w].todo : Mail(k)
      BY <2>3
    <3>2. k \in Copies /\ k \in B
      BY <1>2 DEF Inv, Hand
    <3>3. k[1] = m /\ sent'[m] = sent[m] + 1 /\ k[2] \in 1 .. MaxSends[m] /\ k = <<m, k[2]>>
      BY <2>3, <3>1, <3>2, CopyIsPair DEF Inv, TypeOK, Mail
    <3> DEFINE t == <<k[2], received[k]>>
    <3>4. t \in Receipts(m) /\ t[1] = k[2] /\ t[2] = received[k]
      BY <1>3, <3>2, <3>3 DEF Inv, TypeOK, Receipts
    <3>5. ToMail(k) /\ ~ ToMail(k)'
      BY <1>2, <3>2 DEF ToMail, Inv, OneHand, Hand, Idle
    <3>6. t \notin Spent(m)
      BY <3>3, <3>4, <3>5 DEF Spent
    <3>7. t \in Spent(m)'
      BY <3>3, <3>4, <3>5 DEF Spent, Receipts
    <3> QED BY <2>1, <3>3, <3>6, <3>7, OneMorePaidFor
  <2> QED BY <2>2, <2>3
<1>9. \A k \in Copies : Unsent(k)' /\ Fresh(k)'
  BY <1>1, <1>3 DEF Inv, Unsent, Fresh
<1>10. \A v \in Workers : Hand(v)'
  <2> SUFFICES ASSUME NEW v \in Workers PROVE Hand(v)'
    OBVIOUS
  <2>1. CASE v = w
    BY <1>2, <2>1 DEF Hand, Idle
  <2>2. CASE v # w
    <3>1. /\ worker'[v] = worker[v] /\ Hand(v) /\ worker[v].batch \cap B = {}
          /\ worker[v].batch \subseteq Copies
      BY <1>2, <2>2 DEF Inv, OneHand, TypeOK
    <3>2. \A k \in worker[v].batch : queue'[k] = queue[k] /\ sent'[k[1]] >= sent[k[1]]
      BY <1>1, <1>4, <3>1, CopyIsPair
    <3>3. \A k \in worker[v].batch : sent[k[1]] \in Nat /\ sent'[k[1]] \in Nat
      BY <1>4, <3>1, CopyIsPair DEF Inv, TypeOK
    <3> QED BY <3>1, <3>2, <3>3 DEF Hand
  <2> QED BY <2>1, <2>2
<1>11. OneHand' /\ HiddenIsHeld'
  <2>1. OneHand'
    BY <1>2 DEF Inv, OneHand, Idle
  <2>2. ASSUME NEW k \in Copies, queue'[k] = "held"
        PROVE  \E v \in Workers : k \in worker'[v].batch
    BY <1>1, <1>2, <2>2 DEF Inv, HiddenIsHeld
  <2> QED BY <2>1, <2>2 DEF HiddenIsHeld
<1>12. NothingLostSilently'
  <2> SUFFICES ASSUME NEW k \in Copies, queue'[k] = "deleted" PROVE sent'[k[1]] > 0
    BY DEF NothingLostSilently
  <2>1. sent[k[1]] > 0
    BY <1>1 DEF Inv, Hand, NothingLostSilently
  <2> QED BY <2>1, <1>4, CopyIsPair DEF Inv, TypeOK
<1> QED BY <1>5, <1>6, <1>8, <1>9, <1>10, <1>11, <1>12 DEF Inv

(* A container goes on with the batch it has.                              *)
LEMMA StartedKeeps ==
    ASSUME Inv, NEW w \in Workers, worker[w].pc = "start",
           worker' = [worker EXCEPT ![w].pc = "send"], ready' = ready \cup {w},
           UNCHANGED <<request, attempt, queue, received, sent>>
    PROVE  Inv'
<1>1. \A v \in Workers : /\ worker'[v].batch = worker[v].batch
                         /\ worker'[v].todo = worker[v].todo
                         /\ worker'[v].pc = IF v = w THEN "send" ELSE worker[v].pc
  BY DEF Inv, TypeOK
<1>2. TypeOK'
  BY DEF Inv, TypeOK
<1>3. \A m \in Messages : AttemptsLeft(m)' /\ PaidFor(m)'
  <2>1. \A m \in Messages : Spent(m) \subseteq Spent(m)'
    BY <1>1, SpentOnly DEF ToMail
  <2> QED BY <2>1, StillPaidFor DEF Inv, AttemptsLeft
<1>4. \A v \in Workers : Hand(v)'
  BY <1>1 DEF Inv, Hand
<1> QED BY <1>1, <1>2, <1>3, <1>4
        DEF Inv, Unsent, Fresh, OneHand, HiddenIsHeld, NothingLostSilently

LEMMA SendOkKeeps ==
    ASSUME Inv, NEW w \in Workers, NEW k \in Copies, SendOk(w, k)  PROVE Inv'
<1>1. /\ worker[w].pc = "send" /\ k \in worker[w].todo /\ k[1] \in Messages
      /\ sent' = [sent EXCEPT ![k[1]] = sent[k[1]] + 1]
      /\ worker' = [worker EXCEPT ![w].todo = @ \ {k}]
      /\ UNCHANGED <<request, attempt, queue, received, ready>>
  BY CopyIsPair DEF SendOk, Mail, api, sqs
<1>2. \A v \in Workers : /\ worker'[v].batch = worker[v].batch
                         /\ worker'[v].pc = worker[v].pc
                         /\ worker'[v].todo = IF v = w THEN worker[v].todo \ {k}
                                              ELSE worker[v].todo
  BY <1>1 DEF Inv, TypeOK
<1>3. \A m \in Messages : /\ sent[m] \in Nat
                          /\ sent'[m] = IF m = k[1] THEN sent[m] + 1 ELSE sent[m]
  BY <1>1 DEF Inv, TypeOK
<1>4. TypeOK'
  <2>1. sent' \in [Messages -> Nat]
    BY <1>1, <1>3 DEF Inv, TypeOK
  <2>2. worker' \in [Workers -> [pc : {"idle", "start", "send"},
                                 batch : SUBSET Copies, todo : SUBSET Copies]]
    BY <1>1 DEF Inv, TypeOK
  <2> QED BY <1>1, <2>1, <2>2 DEF Inv, TypeOK
<1>5. \A m \in Messages : AttemptsLeft(m)' /\ PaidFor(m)'
  <2> SUFFICES ASSUME NEW m \in Messages PROVE PaidFor(m)'
    BY <1>1 DEF Inv, AttemptsLeft
  <2>1. Spent(m) \subseteq Spent(m)'
    BY <1>1, <1>2, SpentOnly DEF ToMail
  <2>2. CASE m # k[1]
    BY <1>3, <2>1, <2>2, StillPaidFor
  <2>3. CASE m = k[1]
    <3> DEFINE t == <<k[2], received[k]>>
    <3>1. k[2] \in 1 .. MaxSends[m] /\ k = <<m, k[2]>> /\ received[k] > 0
      BY <1>1, <2>3, CopyIsPair DEF Inv, Hand
    <3>2. t \in Receipts(m) /\ t[1] = k[2] /\ t[2] = received[k]
      BY <3>1 DEF Inv, TypeOK, Receipts
    <3>3. ToMail(k) /\ ~ ToMail(k)'
      <4>1. \A v \in Workers : k \in worker[v].todo => v = w
        BY <1>1 DEF Inv, OneHand, Hand
      <4>2. \A v \in Workers : k \notin worker'[v].todo
        BY <1>2, <4>1
      <4> QED BY <1>1, <4>2 DEF ToMail
    <3>4. t \notin Spent(m)
      BY <3>1, <3>2, <3>3 DEF Spent
    <3>5. t \in Spent(m)'
      BY <1>1, <3>1, <3>2, <3>3 DEF Spent, Receipts, TypeOK, Inv
    <3> QED BY <1>3, <2>1, <2>3, <3>4, <3>5, OneMorePaidFor
  <2> QED BY <2>2, <2>3
<1>6. \A v \in Workers : Hand(v)'
  <2> SUFFICES ASSUME NEW v \in Workers PROVE Hand(v)'
    OBVIOUS
  <2>1. Hand(v) /\ worker[v].batch \subseteq Copies
    BY DEF Inv, TypeOK
  <2>2. \A l \in worker[v].batch : /\ l[1] \in Messages
                                   /\ l \notin worker'[v].todo => sent'[l[1]] > 0
    <3> SUFFICES ASSUME NEW l \in worker[v].batch
                 PROVE  /\ l[1] \in Messages
                        /\ l \notin worker'[v].todo => sent'[l[1]] > 0
      OBVIOUS
    <3>1. l[1] \in Messages
      BY <2>1, CopyIsPair
    <3>2. CASE l = k
      BY <1>3, <3>1, <3>2
    <3>3. CASE l # k
      <4>1. l \notin worker'[v].todo => l \notin worker[v].todo
        BY <1>2, <3>3
      <4>2. l \notin worker[v].todo => sent[l[1]] > 0
        BY <2>1 DEF Hand
      <4> QED BY <1>3, <3>1, <4>1, <4>2
    <3> QED BY <3>1, <3>2, <3>3
  <2> QED BY <1>1, <1>2, <2>1, <2>2 DEF Hand
<1>7. NothingLostSilently'
  BY <1>1, <1>3, CopyIsPair DEF Inv, NothingLostSilently
<1> QED BY <1>1, <1>2, <1>4, <1>5, <1>6, <1>7
        DEF Inv, Unsent, Fresh, OneHand, HiddenIsHeld

LEMMA WorkKeeps ==
    ASSUME Inv, NEW w \in Workers, Work(w)  PROVE Inv'
<1>1. ready \in SUBSET Workers
  BY DEF Inv, TypeOK
<1>2. CASE Start(w)
  <2>1. CASE Over(w, "visible") /\ UNCHANGED ready
    BY <1>1, <1>2, <2>1, OverKeeps DEF Start, api
  <2> QED BY <1>2, <2>1, StartedKeeps DEF Start, api
<1>3. CASE Complete(w)
  BY <1>1, <1>3, OverKeeps DEF Complete, api
<1>4. CASE Crash(w)
  BY <1>1, <1>4, OverKeeps DEF Crash, api
<1>5. ASSUME NEW k \in Copies, SendFail(w, k) PROVE Inv'
  BY <1>1, <1>5, OverKeeps DEF SendFail, api
<1> QED BY <1>2, <1>3, <1>4, <1>5, SendOkKeeps DEF Work

LEMMA NextInv == Inv /\ [Next]_vars => Inv'
<1>1. ASSUME Inv, Next PROVE Inv'
  BY <1>1, DispatchKeeps, SendMessageKeeps, RedriveKeeps, ReceiveKeeps, WorkKeeps
     DEF Next
<1>2. ASSUME Inv, UNCHANGED vars PROVE Inv'
  <2>1. UNCHANGED <<request, attempt, queue, received, worker, ready, sent>>
    BY <1>2 DEF vars
  <2>2. TypeOK' /\ (\A m \in Messages : AttemptsLeft(m)')
        /\ (\A k \in Copies : Unsent(k)' /\ Fresh(k)')
    BY <1>2, <2>1 DEF Inv, TypeOK, AttemptsLeft, Unsent, Fresh
  <2> QED BY <1>2, <2>1, <2>2, QueueStep
<1> QED BY <1>1, <1>2

(* The inductive invariant holds in every reachable state, whatever of     *)
(* dispatches, failures and deaths came before.                            *)
THEOREM Invariance == Spec => []Inv
BY InitInv, NextInv, PTL DEF Spec

-----------------------------------------------------------------------------
(* Every counter, copy and container stays well typed, so no copy is       *)
(* received once too often.                                                *)
THEOREM TypeCorrect == Spec => []TypeOK
<1>1. Inv => TypeOK
  BY DEF Inv
<1> QED BY <1>1, Invariance, PTL

(* No reset is lost silently, mailed without end or in two hands at once,  *)
(* however containers fail and however often the queue repeats itself.     *)
THEOREM QueueStaysSafe == Spec => []QueueIsSafe
<1>1. ASSUME Inv PROVE MailsAreBounded
  <2> SUFFICES ASSUME NEW m \in Messages PROVE sent[m] <= MaxSends[m] * MaxReceive
    BY DEF MailsAreBounded
  <2>1. sent[m] \in Nat /\ sent[m] <= Cardinality(Spent(m))
    BY <1>1 DEF Inv, TypeOK, PaidFor
  <2>2. /\ Cardinality(Spent(m)) \in Nat
        /\ Cardinality(Spent(m)) <= Cardinality(Receipts(m))
        /\ Cardinality(Receipts(m)) \in Nat
    BY SpentIsFinite, ReceiptsAreFinite, FS_CardinalityType
  <2>3. sent[m] <= Cardinality(Receipts(m))
    BY <2>1, <2>2
  <2> QED BY <2>3, ReceiptsAreFinite
<1>2. ASSUME Inv PROVE HeldByOne
  <2> SUFFICES ASSUME NEW k \in Copies
               PROVE  Cardinality({w \in Workers : k \in worker[w].batch})
                          = IF queue[k] = "held" THEN 1 ELSE 0
    BY DEF HeldByOne
  <2> DEFINE S == {w \in Workers : k \in worker[w].batch}
  <2>1. CASE queue[k] = "held"
    <3>1. PICK w \in Workers : k \in worker[w].batch
      BY <1>2, <2>1 DEF Inv, HiddenIsHeld
    <3>2. S = {w}
      BY <1>2, <3>1 DEF Inv, OneHand
    <3> QED BY <2>1, <3>2, FS_Singleton
  <2>2. CASE queue[k] # "held"
    <3>1. S = {}
      BY <1>2, <2>2 DEF Inv, Hand
    <3> QED BY <2>2, <3>1, FS_EmptySet
  <2> QED BY <2>1, <2>2
<1>3. Inv => QueueIsSafe
  BY <1>1, <1>2 DEF QueueIsSafe, Inv
<1> QED BY <1>3, Invariance, PTL

-----------------------------------------------------------------------------
(* The refinement of Delivery: what it calls owed, mailed and buried.      *)

Owed(m)   == \E k \in Copies : k[1] = m /\ queue[k] \in {"visible", "held"}
Buried(m) == \E k \in Copies : k[1] = m /\ queue[k] = "dead"

OwedSet   == {m \in Messages : Owed(m)}
MailedSet == {m \in Messages : sent[m] > 0}
BuriedSet == {m \in Messages : Buried(m)}

Stutters == UNCHANGED <<OwedSet, MailedSet, BuriedSet>>

Takes(m)   == OwedSet' = OwedSet \cup {m} /\ UNCHANGED <<MailedSet, BuriedSet>>
Mails(m)   == /\ m \in OwedSet /\ MailedSet' = MailedSet \cup {m}
              /\ UNCHANGED <<OwedSet, BuriedSet>>
Finishes   == /\ OwedSet' \subseteq OwedSet
              /\ OwedSet \ OwedSet' \subseteq MailedSet
              /\ UNCHANGED <<MailedSet, BuriedSet>>
Buries(m)  == /\ m \in OwedSet /\ BuriedSet' = BuriedSet \cup {m}
              /\ OwedSet' = OwedSet \/ OwedSet' = OwedSet \ {m}
              /\ UNCHANGED MailedSet

LEMMA AbstractStep ==
    ASSUME \/ Stutters \/ Finishes
           \/ \E m \in Messages : Takes(m) \/ Mails(m) \/ Buries(m)
    PROVE  [Promise!Next]_(Promise!vars)
<1>1. CASE Stutters
  BY <1>1 DEF Stutters, Promise!vars, OwedSet, MailedSet, BuriedSet, Owed, Buried
<1>2. CASE Finishes
  <2>0. PICK S \in SUBSET Messages : S = OwedSet \ OwedSet'
    BY DEF OwedSet
  <2>1. S \subseteq OwedSet \cap MailedSet
        /\ OwedSet' = OwedSet \ S /\ UNCHANGED <<MailedSet, BuriedSet>>
    BY <1>2, <2>0 DEF Finishes, OwedSet
  <2>2. Promise!Finish(S)
    BY <2>1 DEF Promise!Finish, OwedSet, MailedSet, BuriedSet, Owed, Buried
  <2> QED BY <2>2 DEF Promise!Next
<1>3. ASSUME NEW m \in Messages, Takes(m) PROVE Promise!Take(m)
  BY <1>3 DEF Takes, Promise!Take, OwedSet, MailedSet, BuriedSet, Owed, Buried
<1>4. ASSUME NEW m \in Messages, Mails(m) PROVE Promise!Mail(m)
  BY <1>4 DEF Mails, Promise!Mail, OwedSet, MailedSet, BuriedSet, Owed, Buried
<1>5. ASSUME NEW m \in Messages, Buries(m) PROVE Promise!Bury(m)
  BY <1>5 DEF Buries, Promise!Bury, OwedSet, MailedSet, BuriedSet, Owed, Buried
<1> QED BY <1>1, <1>2, <1>3, <1>4, <1>5 DEF Promise!Next

(* Copies that stay in the queue, shown or hidden, are owed as before.     *)
LEMMA SameQueueSets ==
    ASSUME \A k \in Copies :
              /\ queue'[k] \in {"visible", "held"} <=> queue[k] \in {"visible", "held"}
              /\ queue'[k] = "dead" <=> queue[k] = "dead"
    PROVE  OwedSet' = OwedSet /\ BuriedSet' = BuriedSet
BY DEF OwedSet, BuriedSet, Owed, Buried

LEMMA MailStep ==
    ASSUME Inv, NEW w \in Workers, NEW k \in worker[w].todo, Mail(k)
    PROVE  /\ k[1] \in OwedSet
           /\ MailedSet' = MailedSet \cup {k[1]}
<1>1. k \in Copies /\ k[1] \in Messages /\ queue[k] = "held"
  BY CopyIsPair DEF Inv, TypeOK, Hand
<1>2. \A m \in Messages : /\ sent[m] \in Nat
                          /\ sent'[m] = IF m = k[1] THEN sent[m] + 1 ELSE sent[m]
  BY <1>1 DEF Inv, TypeOK, Mail
<1>3. sent'[k[1]] > 0
  BY <1>1, <1>2
<1>4. \A m \in Messages : m # k[1] => sent'[m] = sent[m]
  BY <1>2
<1> QED BY <1>1, <1>3, <1>4 DEF OwedSet, Owed, MailedSet

(* A batch that goes back is owed as it was, and perhaps one more mailed.  *)
LEMMA BackStep ==
    ASSUME Inv, NEW w \in Workers, Over(w, "visible"),
           UNCHANGED sent \/ \E k \in worker[w].todo : Mail(k)
    PROVE  [Promise!Next]_(Promise!vars)
<1>1. \A k \in Copies : queue'[k] = IF k \in worker[w].batch THEN "visible" ELSE queue[k]
  BY DEF Over
<1>2. \A k \in worker[w].batch : queue[k] = "held"
  BY DEF Inv, Hand
<1>3. OwedSet' = OwedSet /\ BuriedSet' = BuriedSet
  BY <1>1, <1>2, SameQueueSets
<1>4. CASE UNCHANGED sent
  BY <1>3, <1>4, AbstractStep DEF Stutters, MailedSet
<1>5. CASE \E k \in worker[w].todo : Mail(k)
  <2>1. PICK k \in worker[w].todo : Mail(k)
    BY <1>5
  <2>2. Mails(k[1]) /\ k[1] \in Messages
    BY <1>3, <2>1, MailStep DEF Mails, OwedSet
  <2> QED BY <2>2, AbstractStep
<1> QED BY <1>4, <1>5

LEMMA SendMessageStep ==
    ASSUME Inv, NEW m \in Messages, SendMessage(m)
    PROVE  [Promise!Next]_(Promise!vars)
<1> DEFINE k == <<m, attempt'[m]>>
<1>1. /\ attempt'[m] = attempt[m] + 1 /\ attempt'[m] \in 1 .. MaxSends[m]
      /\ UNCHANGED sent
  BY SendsArePositive DEF Inv, TypeOK, AttemptsLeft, SendMessage
<1>2. k \in Copies /\ k[1] = m /\ queue[k] = "absent"
  BY <1>1, CopyIsPair DEF Inv, Unsent, TypeOK
<1>3. queue' = queue \/ queue' = [queue EXCEPT ![k] = "visible"]
  BY DEF SendMessage
<1> HIDE DEF k
<1>4. CASE queue' = queue
  BY <1>1, <1>4, AbstractStep
     DEF Stutters, OwedSet, MailedSet, BuriedSet, Owed, Buried
<1>5. CASE queue' = [queue EXCEPT ![k] = "visible"]
  <2>1. \A l \in Copies : queue'[l] = IF l = k THEN "visible" ELSE queue[l]
    BY <1>5 DEF Inv, TypeOK
  <2>2. BuriedSet' = BuriedSet
    BY <1>2, <2>1 DEF BuriedSet, Buried
  <2>3. \A n \in Messages : Owed(n)' <=> n = m \/ Owed(n)
    BY <1>2, <2>1 DEF Owed
  <2>4. OwedSet' = OwedSet \cup {m}
    BY <2>3 DEF OwedSet
  <2> QED BY <1>1, <2>2, <2>4, AbstractStep DEF Takes, MailedSet
<1> QED BY <1>3, <1>4, <1>5

LEMMA RedriveStep ==
    ASSUME Inv, NEW k \in Copies, Redrive(k)
    PROVE  [Promise!Next]_(Promise!vars)
<1>1. /\ queue[k] = "visible" /\ UNCHANGED sent /\ k[1] \in Messages
      /\ \A l \in Copies : queue'[l] = IF l = k THEN "dead" ELSE queue[l]
  BY CopyIsPair DEF Redrive, Inv, TypeOK
<1> DEFINE m == k[1]
<1>2. \A n \in Messages : Buried(n)' <=> n = m \/ Buried(n)
  BY <1>1 DEF Buried
<1>3. \A n \in Messages : /\ Owed(n)' => Owed(n)
                          /\ Owed(n) /\ n # m => Owed(n)'
  BY <1>1 DEF Owed
<1>4. Owed(m)
  BY <1>1 DEF Owed
<1>5. Buries(m)
  <2>1. BuriedSet' = BuriedSet \cup {m}
    BY <1>1, <1>2 DEF BuriedSet
  <2>2. OwedSet' = OwedSet \/ OwedSet' = OwedSet \ {m}
    BY <1>1, <1>3 DEF OwedSet
  <2> QED BY <1>1, <1>4, <2>1, <2>2 DEF Buries, OwedSet, MailedSet
<1> QED BY <1>1, <1>5, AbstractStep

(* A batch that is deleted was mailed, every copy of it.                   *)
LEMMA CompleteStep ==
    ASSUME Inv, NEW w \in Workers, Complete(w)
    PROVE  [Promise!Next]_(Promise!vars)
<1> DEFINE B == worker[w].batch
<1>1. /\ \A k \in Copies : queue'[k] = IF k \in B THEN "deleted" ELSE queue[k]
      /\ UNCHANGED sent
  BY DEF Complete, Over
<1>2. \A k \in B : queue[k] = "held" /\ sent[k[1]] > 0
  BY DEF Inv, Hand, Complete
<1>3. BuriedSet' = BuriedSet
  BY <1>1, <1>2 DEF BuriedSet, Buried
<1>4. \A m \in Messages : /\ Owed(m)' => Owed(m)
                          /\ Owed(m) /\ ~ Owed(m)' => sent[m] > 0
  <2> SUFFICES ASSUME NEW m \in Messages
               PROVE  /\ Owed(m)' => Owed(m)
                      /\ Owed(m) /\ ~ Owed(m)' => sent[m] > 0
    OBVIOUS
  <2>1. Owed(m)' => Owed(m)
    BY <1>1, <1>2 DEF Owed
  <2>2. ASSUME NEW k \in Copies, k[1] = m, queue[k] \in {"visible", "held"}, ~ Owed(m)'
        PROVE  sent[m] > 0
    <3>1. k \in B
      BY <1>1, <2>2 DEF Owed
    <3> QED BY <1>2, <2>2, <3>1
  <2> QED BY <2>1, <2>2 DEF Owed
<1>5. Finishes
  BY <1>1, <1>3, <1>4 DEF Finishes, OwedSet, MailedSet
<1> QED BY <1>5, AbstractStep

LEMMA StepsRefine ==
    ASSUME Inv, [Next]_vars
    PROVE  [Promise!Next]_(Promise!vars)
<1>1. ASSUME NEW m \in Messages, Dispatch(m) PROVE [Promise!Next]_(Promise!vars)
  <2>1. UNCHANGED <<queue, sent>>
    BY <1>1 DEF Dispatch, sqs
  <2> QED BY <2>1, SameQueueSets, AbstractStep DEF Stutters, MailedSet
<1>2. ASSUME NEW w \in Workers, Receive(w) PROVE [Promise!Next]_(Promise!vars)
  <2>1. UNCHANGED sent /\ \A k \in Copies :
            \/ queue'[k] = queue[k]
            \/ queue[k] = "visible" /\ queue'[k] = "held"
    BY <1>2 DEF Receive, Waiting
  <2>2. \A k \in Copies :
            /\ queue'[k] \in {"visible", "held"} <=> queue[k] \in {"visible", "held"}
            /\ queue'[k] = "dead" <=> queue[k] = "dead"
    BY <2>1
  <2> QED BY <2>1, <2>2, SameQueueSets, AbstractStep DEF Stutters, MailedSet
<1>3. ASSUME NEW w \in Workers, Work(w) PROVE [Promise!Next]_(Promise!vars)
  <2>1. CASE Start(w)
    <3>1. CASE Over(w, "visible")
      BY <2>1, <3>1, BackStep DEF Start
    <3>2. CASE UNCHANGED queue
      BY <2>1, <3>2, SameQueueSets, AbstractStep DEF Start, Stutters, MailedSet
    <3> QED BY <2>1, <3>1, <3>2 DEF Start
  <2>2. CASE Crash(w)
    BY <2>2, BackStep DEF Crash
  <2>3. ASSUME NEW k \in Copies, SendFail(w, k) PROVE [Promise!Next]_(Promise!vars)
    BY <2>3, BackStep DEF SendFail
  <2>4. ASSUME NEW k \in Copies, SendOk(w, k) PROVE [Promise!Next]_(Promise!vars)
    <3>1. UNCHANGED queue /\ k \in worker[w].todo /\ Mail(k)
      BY <2>4 DEF SendOk, sqs
    <3>2. Mails(k[1]) /\ k[1] \in Messages
      BY <3>1, SameQueueSets, MailStep, CopyIsPair DEF Mails
    <3> QED BY <3>2, AbstractStep
  <2> QED BY <1>3, <2>1, <2>2, <2>3, <2>4, CompleteStep DEF Work
<1>4. CASE UNCHANGED vars
  <2>1. UNCHANGED <<queue, sent>>
    BY <1>4 DEF vars
  <2> QED BY <2>1, SameQueueSets, AbstractStep DEF Stutters, MailedSet
<1> QED BY <1>1, <1>2, <1>3, <1>4, SendMessageStep, RedriveStep DEF Next

(* The queue keeps the promise of Delivery: it starts owing nothing, and   *)
(* each step takes, mails, finishes or buries, or changes nothing Delivery *)
(* can see; what is owed only goes mailed or buried.                       *)
THEOREM QueueRefinesDelivery ==
    Spec => Promise!Init /\ [][Promise!Next]_(Promise!vars)
<1>1. Init => Promise!Init
  <2> SUFFICES ASSUME Init PROVE Promise!Init
    OBVIOUS
  <2>1. /\ \A k \in Copies : queue[k] = "absent"
        /\ \A m \in Messages : ~(sent[m] > 0)
    BY DEF Init
  <2> QED BY <2>1 DEF Promise!Init
<1>2. Inv /\ [Next]_vars => [Promise!Next]_(Promise!vars)
  BY StepsRefine
<1> QED BY <1>1, <1>2, Invariance, PTL DEF Spec
=============================================================================
