------------------------ MODULE WebhookReceiverProofs ------------------------
(* Proofs about WebhookReceiver for every set of integrations, webhooks and *)
(* deliveries and every value of the other constants.                       *)
EXTENDS WebhookReceiver, FiniteSetTheorems, TLAPS

(* The steps at which a delivery works on its copy of the row.              *)
HasCopy == {"loaded", "accepted", "rejected"}

(* The row a delivery is for is one of the integration it addressed.        *)
Addressed(d) ==
    /\ webhook_of[d] \in Webhooks /\ request[d] \in Request
    /\ webhooks[webhook_of[d]] # NULL
    /\ webhooks[webhook_of[d]].integration_id = request[d].integration_id

(* The copy may be out of date, but it was never ahead of the receipts, and *)
(* the secret it is judged by is still the row's.                           *)
CopyOK(d) ==
    LET count == receipts[webhook_of[d]] IN
    /\ orm[d] \in WebhookRow
    /\ orm[d].secret = webhooks[webhook_of[d]].secret
    /\ orm[d].total_received =< count.accepted + count.rejected
    /\ orm[d].total_processed =< count.accepted
    /\ orm[d].total_failed =< count.rejected

CountedAsProcessed(d) ==
    LET row == webhooks[webhook_of[d]] IN
    /\ Addressed(d)
    /\ Verified(row.secret, request[d].signature)
    /\ row.total_received > 0 /\ row.total_processed > 0

CountedAsFailed(d) ==
    LET row == webhooks[webhook_of[d]] IN
    /\ Addressed(d)
    /\ ~Verified(row.secret, request[d].signature)
    /\ row.total_received > 0 /\ row.total_failed > 0

(* What a delivery knows at each step of its way, and after it.             *)
DeliveryOK(d) ==
    /\ pc[d] = "fallback" => request[d] \in Request
    /\ pc[d] \in HasCopy => Addressed(d) /\ CopyOK(d)
    /\ pc[d] = "accepted" => Verified(orm[d].secret, request[d].signature)
    /\ pc[d] = "rejected" => ~Verified(orm[d].secret, request[d].signature)
    /\ pc[d] = "committed" => CountedAsProcessed(d)
    /\ pc[d] = "refused" => CountedAsFailed(d)
    /\ answer[d] = "200" => CountedAsProcessed(d)
    /\ answer[d] = "401" => CountedAsFailed(d)
    /\ answer[d] # NULL => pc[d] = "done"

DeliveriesOK == \A d \in Deliveries : DeliveryOK(d)

(* No delivery is counted by a webhook that is not registered.              *)
ReceiptsHaveRows ==
    \A w \in Webhooks : webhooks[w] = NULL =>
        /\ receipts[w].accepted = 0 /\ receipts[w].rejected = 0
        /\ receipts[w].last = NULL

Inv == TypeOK /\ DeliveriesOK /\ ReceiptsHaveRows /\ CountersAreBounded

-----------------------------------------------------------------------------
(* A registration is a row.                                                 *)
LEMMA NewWebhookType ==
    ASSUME NEW i \in Integrations, NEW event \in Events, NEW secret \in Secrets \cup {NULL}
    PROVE  /\ NewWebhook(i, event, secret) \in WebhookRow
           /\ NewWebhook(i, event, secret) # NULL
<1>1. NewWebhook(i, event, secret) \in WebhookRow
  BY DEF NewWebhook, WebhookRow
<1> QED BY <1>1, NullIsNoRow

(* What the two UPDATEs leave: a row, of the same integration and with the  *)
(* same secret, whose counters are the copy's plus one or its own.          *)
LEMMA AcceptedRow ==
    ASSUME NEW row \in WebhookRow, NEW copy \in WebhookRow
    PROVE  /\ Accepted(row, copy) \in WebhookRow /\ Accepted(row, copy) # NULL
           /\ Accepted(row, copy).integration_id = row.integration_id
           /\ Accepted(row, copy).secret = row.secret
           /\ Accepted(row, copy).total_received = copy.total_received + 1
           /\ Accepted(row, copy).total_processed = copy.total_processed + 1
           /\ Accepted(row, copy).total_failed = row.total_failed
           /\ Accepted(row, copy).last_error = Written(row.last_error, copy.last_error, NULL)
<1>1. copy.total_received + 1 \in Nat /\ copy.total_processed + 1 \in Nat
  BY DEF WebhookRow
<1>2. Accepted(row, copy) \in WebhookRow
  BY <1>1 DEF Accepted, Written, WebhookRow
<1> QED BY <1>2, NullIsNoRow DEF Accepted, WebhookRow

LEMMA RejectedRow ==
    ASSUME NEW row \in WebhookRow, NEW copy \in WebhookRow
    PROVE  /\ Rejected(row, copy) \in WebhookRow /\ Rejected(row, copy) # NULL
           /\ Rejected(row, copy).integration_id = row.integration_id
           /\ Rejected(row, copy).secret = row.secret
           /\ Rejected(row, copy).total_received = copy.total_received + 1
           /\ Rejected(row, copy).total_failed = copy.total_failed + 1
           /\ Rejected(row, copy).total_processed = row.total_processed
           /\ Rejected(row, copy).last_error
                = Written(row.last_error, copy.last_error, "bad_signature")
<1>1. copy.total_received + 1 \in Nat /\ copy.total_failed + 1 \in Nat
  BY DEF WebhookRow
<1>2. Rejected(row, copy) \in WebhookRow
  BY <1>1 DEF Rejected, Written, WebhookRow
<1> QED BY <1>2, NullIsNoRow DEF Rejected, WebhookRow

LEMMA CountIsNat ==
    ASSUME TypeOK, NEW w \in Webhooks
    PROVE  receipts[w].accepted \in Nat /\ receipts[w].rejected \in Nat
  BY DEF TypeOK

(* What a commit of either verdict writes.                                  *)
LEMMA AcceptWrites ==
    ASSUME Inv, NEW d \in Deliveries, Accept(d)
    PROVE  LET w == webhook_of[d] IN
           /\ w \in Webhooks /\ webhooks[w] \in WebhookRow /\ orm[d] \in WebhookRow
           /\ webhooks' = [webhooks EXCEPT ![w] = Accepted(webhooks[w], orm[d])]
           /\ receipts' \in [Webhooks -> [accepted : Nat, rejected : Nat,
                                          last : {"accepted", "rejected", NULL}]]
           /\ receipts'[w].accepted = receipts[w].accepted + 1
           /\ receipts'[w].rejected = receipts[w].rejected
           /\ receipts'[w].last = "accepted"
           /\ \A v \in Webhooks \ {w} : receipts'[v] = receipts[v]
<1>1. /\ webhook_of[d] \in Webhooks /\ webhooks[webhook_of[d]] \in WebhookRow
      /\ orm[d] \in WebhookRow
  BY DEF Accept, Inv, DeliveriesOK, DeliveryOK, HasCopy, Addressed, CopyOK, TypeOK
<1> DEFINE w == webhook_of[d]
           Counts == [accepted : Nat, rejected : Nat, last : {"accepted", "rejected", NULL}]
           new == [[receipts[w] EXCEPT !.accepted = receipts[w].accepted + 1] EXCEPT !.last = "accepted"]
<1>2. receipts[w] \in Counts /\ receipts[w].accepted + 1 \in Nat
  BY <1>1 DEF Inv, TypeOK
<1>3. /\ new \in Counts
      /\ new.accepted = receipts[w].accepted + 1
      /\ new.rejected = receipts[w].rejected /\ new.last = "accepted"
  BY <1>2
<1>4. receipts' = [receipts EXCEPT ![w] = new]
  BY <1>1 DEF Accept, Inv, TypeOK
<1> HIDE DEF new
<1>5. receipts \in [Webhooks -> Counts]
  BY DEF Inv, TypeOK
<1>6. /\ receipts' \in [Webhooks -> Counts] /\ receipts'[w] = new
      /\ \A v \in Webhooks \ {w} : receipts'[v] = receipts[v]
  BY <1>1, <1>3, <1>4, <1>5
<1>7. webhooks' = [webhooks EXCEPT ![w] = Accepted(webhooks[w], orm[d])]
  BY DEF Accept
<1> QED BY <1>1, <1>3, <1>6, <1>7

LEMMA RejectWrites ==
    ASSUME Inv, NEW d \in Deliveries, Reject(d)
    PROVE  LET w == webhook_of[d] IN
           /\ w \in Webhooks /\ webhooks[w] \in WebhookRow /\ orm[d] \in WebhookRow
           /\ webhooks' = [webhooks EXCEPT ![w] = Rejected(webhooks[w], orm[d])]
           /\ receipts' \in [Webhooks -> [accepted : Nat, rejected : Nat,
                                          last : {"accepted", "rejected", NULL}]]
           /\ receipts'[w].accepted = receipts[w].accepted
           /\ receipts'[w].rejected = receipts[w].rejected + 1
           /\ receipts'[w].last = "rejected"
           /\ \A v \in Webhooks \ {w} : receipts'[v] = receipts[v]
<1>1. /\ webhook_of[d] \in Webhooks /\ webhooks[webhook_of[d]] \in WebhookRow
      /\ orm[d] \in WebhookRow
  BY DEF Reject, Inv, DeliveriesOK, DeliveryOK, HasCopy, Addressed, CopyOK, TypeOK
<1> DEFINE w == webhook_of[d]
           Counts == [accepted : Nat, rejected : Nat, last : {"accepted", "rejected", NULL}]
           new == [[receipts[w] EXCEPT !.rejected = receipts[w].rejected + 1] EXCEPT !.last = "rejected"]
<1>2. receipts[w] \in Counts /\ receipts[w].rejected + 1 \in Nat
  BY <1>1 DEF Inv, TypeOK
<1>3. /\ new \in Counts
      /\ new.rejected = receipts[w].rejected + 1
      /\ new.accepted = receipts[w].accepted /\ new.last = "rejected"
  BY <1>2
<1>4. receipts' = [receipts EXCEPT ![w] = new]
  BY <1>1 DEF Reject, Inv, TypeOK
<1> HIDE DEF new
<1>5. receipts \in [Webhooks -> Counts]
  BY DEF Inv, TypeOK
<1>6. /\ receipts' \in [Webhooks -> Counts] /\ receipts'[w] = new
      /\ \A v \in Webhooks \ {w} : receipts'[v] = receipts[v]
  BY <1>1, <1>3, <1>4, <1>5
<1>7. webhooks' = [webhooks EXCEPT ![w] = Rejected(webhooks[w], orm[d])]
  BY DEF Reject
<1> QED BY <1>1, <1>3, <1>6, <1>7
-----------------------------------------------------------------------------
(* The steps that write to the database.                                    *)
LEMMA Writers ==
    ASSUME Next
    PROVE  \/ UNCHANGED <<webhooks, receipts>>
           \/ \E w \in Webhooks, i \in Integrations, event \in Events, secret \in Secrets :
                 RegisterWebhook(w, i, event, secret)
           \/ \E d \in Deliveries : Accept(d) \/ Reject(d)
  BY DEF Next, SelectExact, Proceed, SelectAny, Verify, VerifyRaises, Refuse, Answer,
         DatabaseError, Crash, Idle, vars

(* A row, once there, keeps its integration and its secret, and a counter   *)
(* that has left 0 never returns to it.                                     *)
RowsKept ==
    \A w \in Webhooks :
        /\ webhooks[w] # NULL =>
              /\ webhooks'[w] # NULL
              /\ webhooks'[w].integration_id = webhooks[w].integration_id
              /\ webhooks'[w].secret = webhooks[w].secret
              /\ webhooks[w].total_received > 0 => webhooks'[w].total_received > 0
              /\ webhooks[w].total_processed > 0 => webhooks'[w].total_processed > 0
              /\ webhooks[w].total_failed > 0 => webhooks'[w].total_failed > 0
        /\ receipts'[w].accepted >= receipts[w].accepted
        /\ receipts'[w].rejected >= receipts[w].rejected

LEMMA RowsKeptStep == Inv /\ Next => RowsKept
<1> SUFFICES ASSUME Inv, Next, NEW w \in Webhooks PROVE RowsKept!(w)
  BY DEF RowsKept
<1>0. receipts[w].accepted \in Nat /\ receipts[w].rejected \in Nat
  BY DEF Inv, TypeOK
<1>1. CASE UNCHANGED <<webhooks, receipts>>
  BY <1>0, <1>1
<1>2. ASSUME NEW v \in Webhooks, NEW i \in Integrations, NEW event \in Events,
             NEW secret \in Secrets, RegisterWebhook(v, i, event, secret)
      PROVE  RowsKept!(w)
  BY <1>0, <1>2 DEF RegisterWebhook, Inv, TypeOK
<1>3. ASSUME NEW d \in Deliveries, Accept(d) PROVE RowsKept!(w)
  <2> DEFINE v == webhook_of[d]
             new == Accepted(webhooks[v], orm[d])
  <2>1. /\ v \in Webhooks /\ webhooks[v] \in WebhookRow /\ orm[d] \in WebhookRow
        /\ webhooks' = [webhooks EXCEPT ![v] = new]
        /\ receipts'[v].accepted = receipts[v].accepted + 1
        /\ receipts'[v].rejected = receipts[v].rejected
        /\ \A u \in Webhooks \ {v} : receipts'[u] = receipts[u]
    BY <1>3, AcceptWrites
  <2>2. CASE w = v
    <3>1. /\ new # NULL /\ new.integration_id = webhooks[v].integration_id
          /\ new.secret = webhooks[v].secret
          /\ new.total_received > 0 /\ new.total_processed > 0
          /\ new.total_failed = webhooks[v].total_failed
      <4>1. orm[d].total_received + 1 > 0 /\ orm[d].total_processed + 1 > 0
        BY <2>1 DEF WebhookRow
      <4> QED BY <2>1, <4>1, AcceptedRow
    <3>2. webhooks'[w] = new
      BY <2>1, <2>2 DEF Inv, TypeOK
    <3> HIDE DEF new
    <3> QED BY <1>0, <2>1, <2>2, <3>1, <3>2
  <2>3. CASE w # v
    BY <1>0, <2>1, <2>3 DEF Inv, TypeOK
  <2> QED BY <2>2, <2>3
<1>4. ASSUME NEW d \in Deliveries, Reject(d) PROVE RowsKept!(w)
  <2> DEFINE v == webhook_of[d]
             new == Rejected(webhooks[v], orm[d])
  <2>1. /\ v \in Webhooks /\ webhooks[v] \in WebhookRow /\ orm[d] \in WebhookRow
        /\ webhooks' = [webhooks EXCEPT ![v] = new]
        /\ receipts'[v].accepted = receipts[v].accepted
        /\ receipts'[v].rejected = receipts[v].rejected + 1
        /\ \A u \in Webhooks \ {v} : receipts'[u] = receipts[u]
    BY <1>4, RejectWrites
  <2>2. CASE w = v
    <3>1. /\ new # NULL /\ new.integration_id = webhooks[v].integration_id
          /\ new.secret = webhooks[v].secret
          /\ new.total_received > 0 /\ new.total_failed > 0
          /\ new.total_processed = webhooks[v].total_processed
      <4>1. orm[d].total_received + 1 > 0 /\ orm[d].total_failed + 1 > 0
        BY <2>1 DEF WebhookRow
      <4> QED BY <2>1, <4>1, RejectedRow
    <3>2. webhooks'[w] = new
      BY <2>1, <2>2 DEF Inv, TypeOK
    <3> HIDE DEF new
    <3> QED BY <1>0, <2>1, <2>2, <3>1, <3>2
  <2>3. CASE w # v
    BY <1>0, <2>1, <2>3 DEF Inv, TypeOK
  <2> QED BY <2>2, <2>3
<1> QED BY <1>1, <1>2, <1>3, <1>4, Writers

LEMMA TypeStep == Inv /\ Next => TypeOK'
<1> SUFFICES ASSUME Inv, Next PROVE TypeOK'
  OBVIOUS
<1>1. ASSUME NEW w \in Webhooks, NEW i \in Integrations, NEW event \in Events,
             NEW secret \in Secrets, RegisterWebhook(w, i, event, secret)
      PROVE  TypeOK'
  BY <1>1, NewWebhookType DEF RegisterWebhook, Inv, TypeOK
<1>2. ASSUME NEW d \in Deliveries, NEW w \in Webhooks, Load(d, w),
             UNCHANGED <<webhooks, receipts, now>>,
             request' \in [Deliveries -> Request \cup {NULL}]
      PROVE  TypeOK'
  BY <1>2 DEF Load, Inv, TypeOK, Steps
<1>3. ASSUME NEW d \in Deliveries, NEW code \in Answers, Respond(d, code),
             UNCHANGED <<webhook_of, request, now>>,
             webhooks' \in [Webhooks -> WebhookRow \cup {NULL}],
             receipts' \in [Webhooks -> [accepted : Nat, rejected : Nat,
                                         last : {"accepted", "rejected", NULL}]]
      PROVE  TypeOK'
  BY <1>3 DEF Respond, Inv, TypeOK, Steps
<1>4. ASSUME NEW d \in Deliveries, NEW req \in Request, SelectExact(d, req) PROVE TypeOK'
  <2>1. request' \in [Deliveries -> Request \cup {NULL}]
    BY <1>4 DEF SelectExact, Inv, TypeOK
  <2>2. CASE \E w \in Exact(req) : Load(d, w)
    BY <1>2, <1>4, <2>1, <2>2 DEF SelectExact, Exact, Of
  <2>3. CASE pc' = [pc EXCEPT ![d] = "fallback"] /\ UNCHANGED <<webhook_of, orm, answer>>
    BY <1>4, <2>1, <2>3 DEF SelectExact, Inv, TypeOK, Steps
  <2> QED BY <1>4, <2>2, <2>3 DEF SelectExact
<1>5. ASSUME NEW d \in Deliveries, SelectAny(d) PROVE TypeOK'
  BY <1>2, <1>3, <1>5 DEF SelectAny, Of, Inv, TypeOK, Answers
<1>6. ASSUME NEW d \in Deliveries, Verify(d) PROVE TypeOK'
  <2>1. orm[d] \in WebhookRow /\ now + 1 \in Nat
    BY <1>6 DEF Verify, Inv, DeliveriesOK, DeliveryOK, HasCopy, CopyOK, TypeOK
  <2>2. [orm[d] EXCEPT !.last_received_at = now + 1] \in WebhookRow
    BY <2>1 DEF WebhookRow
  <2> QED BY <1>6, <2>1, <2>2 DEF Verify, Inv, TypeOK, Steps
<1>7. ASSUME NEW d \in Deliveries, Accept(d) PROVE TypeOK'
  <2>1. Accepted(webhooks[webhook_of[d]], orm[d]) \in WebhookRow
    BY <1>7, AcceptWrites, AcceptedRow
  <2>2. webhooks' \in [Webhooks -> WebhookRow \cup {NULL}]
    BY <1>7, <2>1, AcceptWrites DEF Inv, TypeOK
  <2> QED BY <1>7, <2>2, AcceptWrites DEF Accept, Inv, TypeOK, Steps
<1>8. ASSUME NEW d \in Deliveries, Reject(d) PROVE TypeOK'
  <2>1. Rejected(webhooks[webhook_of[d]], orm[d]) \in WebhookRow
    BY <1>8, RejectWrites, RejectedRow
  <2>2. webhooks' \in [Webhooks -> WebhookRow \cup {NULL}]
    BY <1>8, <2>1, RejectWrites DEF Inv, TypeOK
  <2> QED BY <1>8, <2>2, RejectWrites DEF Reject, Inv, TypeOK, Steps
<1>9. ASSUME NEW d \in Deliveries, VerifyRaises(d) \/ Refuse(d) \/ Answer(d) \/ DatabaseError(d)
      PROVE  TypeOK'
  BY <1>3, <1>9 DEF VerifyRaises, Refuse, Answer, DatabaseError, Answers, Inv, TypeOK
<1>10. CASE Crash
  BY <1>10 DEF Crash, Inv, TypeOK, Steps
<1>11. CASE Idle
  BY <1>11 DEF Idle, vars, Inv, TypeOK
<1> QED
  BY <1>1, <1>4, <1>5, <1>6, <1>7, <1>8, <1>9, <1>10, <1>11 DEF Next, Proceed
-----------------------------------------------------------------------------
(* One more than a counter that is not ahead.                               *)
LEMMA OneMore ==
    ASSUME NEW counter \in Nat, NEW count \in Nat, counter =< count
    PROVE  Bounded(counter + 1, count + 1)
BY DEF Bounded

LEMMA CountersStep == Inv /\ Next => CountersAreBounded' /\ ReceiptsHaveRows'
<1> SUFFICES ASSUME Inv, Next, NEW w \in Webhooks
             PROVE  CountersAreBounded!(w)' /\ ReceiptsHaveRows!(w)'
  BY DEF CountersAreBounded, ReceiptsHaveRows
<1> DEFINE Goal == CountersAreBounded!(w)' /\ ReceiptsHaveRows!(w)'
<1>0. /\ receipts[w].accepted \in Nat /\ receipts[w].rejected \in Nat
      /\ CountersAreBounded!(w) /\ ReceiptsHaveRows!(w)
  BY DEF Inv, TypeOK, CountersAreBounded, ReceiptsHaveRows
<1>1. ASSUME webhooks'[w] = webhooks[w], receipts'[w] = receipts[w] PROVE Goal
  BY <1>0, <1>1 DEF Bounded
<1>2. ASSUME NEW v \in Webhooks, NEW i \in Integrations, NEW event \in Events,
             NEW secret \in Secrets, RegisterWebhook(v, i, event, secret)
      PROVE  Goal
  <2>1. CASE w = v
    <3>1. webhooks[w] = NULL /\ receipts' = receipts /\ webhooks'[w] = NewWebhook(i, event, secret)
      BY <1>2, <2>1 DEF RegisterWebhook, Inv, TypeOK
    <3> QED BY <1>0, <3>1, NewWebhookType DEF NewWebhook, Bounded
  <2>2. CASE w # v
    BY <1>1, <1>2, <2>2 DEF RegisterWebhook, Inv, TypeOK
  <2> QED BY <2>1, <2>2
<1>3. ASSUME NEW d \in Deliveries, Accept(d) PROVE Goal
  <2> DEFINE v == webhook_of[d]
             new == Accepted(webhooks[v], orm[d])
  <2>1. /\ v \in Webhooks /\ webhooks[v] \in WebhookRow /\ orm[d] \in WebhookRow
        /\ webhooks' = [webhooks EXCEPT ![v] = new]
        /\ receipts'[v].accepted = receipts[v].accepted + 1
        /\ receipts'[v].rejected = receipts[v].rejected
        /\ \A u \in Webhooks \ {v} : receipts'[u] = receipts[u]
    BY <1>3, AcceptWrites
  <2>2. CopyOK(d)
    BY <1>3 DEF Accept, Inv, DeliveriesOK, DeliveryOK, HasCopy
  <2>3. CASE w = v
    <3>1. /\ new # NULL
          /\ new.total_received = orm[d].total_received + 1
          /\ new.total_processed = orm[d].total_processed + 1
          /\ new.total_failed = webhooks[v].total_failed
      BY <2>1, AcceptedRow
    <3>2. /\ orm[d].total_received \in Nat /\ orm[d].total_processed \in Nat
          /\ orm[d].total_received =< receipts[v].accepted + receipts[v].rejected
          /\ orm[d].total_processed =< receipts[v].accepted
      BY <2>1, <2>2 DEF CopyOK, WebhookRow
    <3>3. webhooks'[w] = new /\ webhooks[v] # NULL
      BY <2>1, <2>3, NullIsNoRow DEF Inv, TypeOK
    <3> HIDE DEF new
    <3>4. receipts'[w].accepted + receipts'[w].rejected = receipts[w].accepted + receipts[w].rejected + 1
      BY <1>0, <2>1, <2>3
    <3>5. Bounded(new.total_received, receipts'[w].accepted + receipts'[w].rejected)
      BY <1>0, <2>3, <3>1, <3>2, <3>4, OneMore
    <3>6. Bounded(new.total_processed, receipts'[w].accepted)
      BY <1>0, <2>1, <2>3, <3>1, <3>2, OneMore
    <3>7. Bounded(new.total_failed, receipts'[w].rejected)
      BY <1>0, <2>1, <2>3, <3>1, <3>3
    <3> QED BY <3>1, <3>3, <3>5, <3>6, <3>7
  <2>4. CASE w # v
    BY <1>1, <2>1, <2>4 DEF Inv, TypeOK
  <2> QED BY <2>3, <2>4
<1>4. ASSUME NEW d \in Deliveries, Reject(d) PROVE Goal
  <2> DEFINE v == webhook_of[d]
             new == Rejected(webhooks[v], orm[d])
  <2>1. /\ v \in Webhooks /\ webhooks[v] \in WebhookRow /\ orm[d] \in WebhookRow
        /\ webhooks' = [webhooks EXCEPT ![v] = new]
        /\ receipts'[v].accepted = receipts[v].accepted
        /\ receipts'[v].rejected = receipts[v].rejected + 1
        /\ \A u \in Webhooks \ {v} : receipts'[u] = receipts[u]
    BY <1>4, RejectWrites
  <2>2. CopyOK(d)
    BY <1>4 DEF Reject, Inv, DeliveriesOK, DeliveryOK, HasCopy
  <2>3. CASE w = v
    <3>1. /\ new # NULL
          /\ new.total_received = orm[d].total_received + 1
          /\ new.total_failed = orm[d].total_failed + 1
          /\ new.total_processed = webhooks[v].total_processed
      BY <2>1, RejectedRow
    <3>2. /\ orm[d].total_received \in Nat /\ orm[d].total_failed \in Nat
          /\ orm[d].total_received =< receipts[v].accepted + receipts[v].rejected
          /\ orm[d].total_failed =< receipts[v].rejected
      BY <2>1, <2>2 DEF CopyOK, WebhookRow
    <3>3. webhooks'[w] = new /\ webhooks[v] # NULL
      BY <2>1, <2>3, NullIsNoRow DEF Inv, TypeOK
    <3> HIDE DEF new
    <3>4. receipts'[w].accepted + receipts'[w].rejected = receipts[w].accepted + receipts[w].rejected + 1
      BY <1>0, <2>1, <2>3
    <3>5. Bounded(new.total_received, receipts'[w].accepted + receipts'[w].rejected)
      BY <1>0, <2>3, <3>1, <3>2, <3>4, OneMore
    <3>6. Bounded(new.total_failed, receipts'[w].rejected)
      BY <1>0, <2>1, <2>3, <3>1, <3>2, OneMore
    <3>7. Bounded(new.total_processed, receipts'[w].accepted)
      BY <1>0, <2>1, <2>3, <3>1, <3>3
    <3> QED BY <3>1, <3>3, <3>5, <3>6, <3>7
  <2>4. CASE w # v
    BY <1>1, <2>1, <2>4 DEF Inv, TypeOK
  <2> QED BY <2>3, <2>4
<1> QED BY <1>1, <1>2, <1>3, <1>4, Writers

-----------------------------------------------------------------------------
(* What a delivery knows survives the steps of the others.                  *)
LEMMA OthersAreStill ==
    ASSUME Inv, Next, NEW d \in Deliveries,
           pc'[d] = pc[d], webhook_of'[d] = webhook_of[d], orm'[d] = orm[d],
           answer'[d] = answer[d], request'[d] = request[d]
    PROVE  DeliveryOK(d)'
<1>0. DeliveryOK(d) /\ RowsKept
  BY RowsKeptStep DEF Inv, DeliveriesOK
<1>1. Addressed(d) => Addressed(d)'
  BY <1>0 DEF Addressed, RowsKept
<1>2. CountedAsProcessed(d) => CountedAsProcessed(d)'
  BY <1>0, <1>1 DEF CountedAsProcessed, Addressed, RowsKept
<1>3. CountedAsFailed(d) => CountedAsFailed(d)'
  BY <1>0, <1>1 DEF CountedAsFailed, Addressed, RowsKept
<1>4. Addressed(d) /\ CopyOK(d) => CopyOK(d)'
  <2> SUFFICES ASSUME Addressed(d), CopyOK(d) PROVE CopyOK(d)'
    OBVIOUS
  <2> DEFINE w == webhook_of[d]
  <2>1. w \in Webhooks /\ webhooks'[w].secret = webhooks[w].secret
    BY <1>0 DEF Addressed, RowsKept
  <2>2. /\ receipts'[w].accepted >= receipts[w].accepted
        /\ receipts'[w].rejected >= receipts[w].rejected
        /\ receipts[w].accepted \in Nat /\ receipts[w].rejected \in Nat
        /\ receipts'[w].accepted \in Nat /\ receipts'[w].rejected \in Nat
    BY <1>0, <2>1, TypeStep DEF RowsKept, Inv, TypeOK
  <2>3. /\ orm[d].total_received \in Nat /\ orm[d].total_processed \in Nat
        /\ orm[d].total_failed \in Nat
    BY DEF CopyOK, WebhookRow
  <2> QED BY <2>1, <2>2, <2>3 DEF CopyOK
<1> QED BY <1>0, <1>1, <1>2, <1>3, <1>4 DEF DeliveryOK

(* A copy just loaded is the row, whose counters are no further than the    *)
(* receipts.                                                                *)
LEMMA LoadedCopy ==
    ASSUME Inv, Next, NEW d \in Deliveries, NEW req \in Request, NEW w \in Of(req.integration_id),
           Load(d, w), request'[d] = req, answer[d] = NULL, UNCHANGED <<webhooks, receipts>>
    PROVE  DeliveryOK(d)'
<1>1. w \in Webhooks /\ webhooks[w] # NULL /\ webhooks[w].integration_id = req.integration_id
  BY DEF Of
<1>2. pc'[d] = "loaded" /\ webhook_of'[d] = w /\ orm'[d] = webhooks[w] /\ answer'[d] = NULL
  BY DEF Load, Inv, TypeOK
<1>3. Addressed(d)'
  BY <1>1, <1>2 DEF Addressed
<1>4. CopyOK(d)'
  BY <1>1, <1>2 DEF CopyOK, Inv, CountersAreBounded, Bounded, TypeOK
<1>5. answer'[d] # "200" /\ answer'[d] # "401"
  BY <1>2, AnswerAssumption DEF Answers
<1> QED BY <1>2, <1>3, <1>4, <1>5 DEF DeliveryOK, HasCopy

(* A request that is answered with an error claims nothing about a receipt. *)
LEMMA ErrorAnswer ==
    ASSUME Inv, NEW d \in Deliveries, NEW code \in {"404", "500", "db_error"}, Respond(d, code)
    PROVE  DeliveryOK(d)'
  BY DEF Respond, Inv, TypeOK, DeliveryOK, HasCopy

LEMMA DeliveriesStep == Inv /\ Next => DeliveriesOK'
<1> SUFFICES ASSUME Inv, Next, NEW e \in Deliveries PROVE DeliveryOK(e)'
  BY DEF DeliveriesOK
<1>a. DeliveryOK(e) /\ TypeOK
  BY DEF Inv, DeliveriesOK
<1>b. ASSUME UNCHANGED <<pc, webhook_of, orm, answer, request>> PROVE DeliveryOK(e)'
  BY <1>b, OthersAreStill
<1>c. ASSUME NEW d \in Deliveries, NEW code, Respond(d, code), UNCHANGED <<webhook_of, request>>,
             e # d
      PROVE  DeliveryOK(e)'
  BY <1>a, <1>c, OthersAreStill DEF Respond, TypeOK
<1>d. ASSUME NEW d \in Deliveries, NEW w, Load(d, w), e # d, request'[e] = request[e]
      PROVE  DeliveryOK(e)'
  BY <1>a, <1>d, OthersAreStill DEF Load, TypeOK
<1>1. ASSUME NEW d \in Deliveries, NEW req \in Request, SelectExact(d, req)
      PROVE  DeliveryOK(e)'
  <2>1. pc[d] = "new" /\ request' = [request EXCEPT ![d] = req] /\ UNCHANGED <<webhooks, receipts>>
    BY <1>1 DEF SelectExact
  <2>2. ASSUME NEW w \in Exact(req), Load(d, w) PROVE DeliveryOK(e)'
    <3>1. w \in Of(req.integration_id)
      BY DEF Exact
    <3>2. CASE e = d
      BY <1>a, <2>1, <2>2, <3>1, <3>2, LoadedCopy DEF DeliveryOK, TypeOK
    <3>3. CASE e # d
      BY <1>a, <1>d, <2>1, <2>2, <3>3 DEF TypeOK
    <3> QED BY <3>2, <3>3
  <2>3. CASE pc' = [pc EXCEPT ![d] = "fallback"] /\ UNCHANGED <<webhook_of, orm, answer>>
    <3>1. CASE e = d
      <4>1. answer[e] = NULL
        BY <1>a, <2>1, <3>1 DEF DeliveryOK
      <4>2. pc'[e] = "fallback" /\ request'[e] = req /\ answer'[e] = NULL
        BY <1>a, <2>1, <2>3, <3>1, <4>1 DEF TypeOK
      <4> QED BY <4>2, AnswerAssumption DEF DeliveryOK, HasCopy, Answers
    <3>2. CASE e # d
      BY <1>a, <2>1, <2>3, <3>2, OthersAreStill DEF TypeOK
    <3> QED BY <3>1, <3>2
  <2> QED BY <1>1, <2>2, <2>3 DEF SelectExact
<1>2. ASSUME NEW d \in Deliveries, SelectAny(d) PROVE DeliveryOK(e)'
  <2>1. pc[d] = "fallback" /\ UNCHANGED <<webhooks, request, receipts>>
    BY <1>2 DEF SelectAny
  <2>2. request[d] \in Request /\ answer[d] = NULL
    BY <2>1 DEF Inv, DeliveriesOK, DeliveryOK
  <2>3. ASSUME NEW w \in Of(request[d].integration_id), Load(d, w) PROVE DeliveryOK(e)'
    <3>1. CASE e = d
      BY <2>1, <2>2, <2>3, <3>1, LoadedCopy
    <3>2. CASE e # d
      BY <1>d, <2>1, <2>3, <3>2
    <3> QED BY <3>1, <3>2
  <2>4. CASE Respond(d, "404") /\ UNCHANGED webhook_of
    BY <1>c, <2>1, <2>4, ErrorAnswer
  <2> QED BY <1>2, <2>3, <2>4 DEF SelectAny
<1>3. ASSUME NEW d \in Deliveries, Verify(d) PROVE DeliveryOK(e)'
  <2>1. CASE e = d
    <3>1. /\ Addressed(e) /\ CopyOK(e) /\ answer[e] = NULL
          /\ pc'[e] = IF Verified(orm[e].secret, request[e].signature)
                      THEN "accepted" ELSE "rejected"
          /\ orm'[e] = [orm[e] EXCEPT !.last_received_at = now + 1]
      BY <1>3, <1>a, <2>1 DEF Verify, DeliveryOK, HasCopy, TypeOK
    <3>2. /\ orm'[e] \in WebhookRow /\ orm'[e].secret = orm[e].secret
          /\ orm'[e].total_received = orm[e].total_received
          /\ orm'[e].total_processed = orm[e].total_processed
          /\ orm'[e].total_failed = orm[e].total_failed
      <4>1. orm[e] \in WebhookRow /\ now + 1 \in Nat
        BY <1>a, <3>1 DEF CopyOK, TypeOK
      <4> QED BY <3>1, <4>1 DEF WebhookRow
    <3>3. UNCHANGED <<webhooks, webhook_of, answer, request, receipts>>
      BY <1>3 DEF Verify
    <3>4. Addressed(e)' /\ CopyOK(e)'
      BY <3>1, <3>2, <3>3 DEF Addressed, CopyOK
    <3> QED BY <3>1, <3>2, <3>3, <3>4, AnswerAssumption DEF DeliveryOK, HasCopy, Answers
  <2>2. CASE e # d
    BY <1>3, <1>a, <2>2, OthersAreStill DEF Verify, TypeOK
  <2> QED BY <2>1, <2>2
<1>4. ASSUME NEW d \in Deliveries, Accept(d) PROVE DeliveryOK(e)'
  <2>1. CASE e = d
    <3> DEFINE w == webhook_of[e]
               new == Accepted(webhooks[w], orm[e])
    <3>1. /\ Addressed(e) /\ CopyOK(e) /\ answer[e] = NULL
          /\ Verified(orm[e].secret, request[e].signature)
          /\ pc'[e] = "committed"
          /\ UNCHANGED <<webhook_of, answer, request>>
      BY <1>4, <1>a, <2>1 DEF Accept, DeliveryOK, HasCopy, TypeOK
    <3>2. /\ webhooks[w] \in WebhookRow /\ orm[e] \in WebhookRow /\ w \in Webhooks
          /\ webhooks' = [webhooks EXCEPT ![w] = new]
      BY <1>4, <2>1, AcceptWrites
    <3>3. /\ new # NULL /\ new.integration_id = webhooks[w].integration_id
          /\ new.secret = webhooks[w].secret
          /\ new.total_received > 0 /\ new.total_processed > 0
      <4>1. orm[e].total_received + 1 > 0 /\ orm[e].total_processed + 1 > 0
        BY <3>2 DEF WebhookRow
      <4> QED BY <3>2, <4>1, AcceptedRow
    <3>4. webhooks'[w] = new
      BY <1>a, <3>2 DEF TypeOK
    <3> HIDE DEF new
    <3>5. CountedAsProcessed(e)'
      BY <3>1, <3>2, <3>3, <3>4 DEF CountedAsProcessed, Addressed, CopyOK
    <3> QED BY <3>1, <3>5, AnswerAssumption DEF DeliveryOK, HasCopy, Answers
  <2>2. CASE e # d
    BY <1>4, <1>a, <2>2, OthersAreStill DEF Accept, TypeOK
  <2> QED BY <2>1, <2>2
<1>5. ASSUME NEW d \in Deliveries, Reject(d) PROVE DeliveryOK(e)'
  <2>1. CASE e = d
    <3> DEFINE w == webhook_of[e]
               new == Rejected(webhooks[w], orm[e])
    <3>1. /\ Addressed(e) /\ CopyOK(e) /\ answer[e] = NULL
          /\ ~Verified(orm[e].secret, request[e].signature)
          /\ pc'[e] = "refused"
          /\ UNCHANGED <<webhook_of, answer, request>>
      BY <1>5, <1>a, <2>1 DEF Reject, DeliveryOK, HasCopy, TypeOK
    <3>2. /\ webhooks[w] \in WebhookRow /\ orm[e] \in WebhookRow /\ w \in Webhooks
          /\ webhooks' = [webhooks EXCEPT ![w] = new]
      BY <1>5, <2>1, RejectWrites
    <3>3. /\ new # NULL /\ new.integration_id = webhooks[w].integration_id
          /\ new.secret = webhooks[w].secret
          /\ new.total_received > 0 /\ new.total_failed > 0
      <4>1. orm[e].total_received + 1 > 0 /\ orm[e].total_failed + 1 > 0
        BY <3>2 DEF WebhookRow
      <4> QED BY <3>2, <4>1, RejectedRow
    <3>4. webhooks'[w] = new
      BY <1>a, <3>2 DEF TypeOK
    <3> HIDE DEF new
    <3>5. CountedAsFailed(e)'
      BY <3>1, <3>2, <3>3, <3>4 DEF CountedAsFailed, Addressed, CopyOK
    <3> QED BY <3>1, <3>5, AnswerAssumption DEF DeliveryOK, HasCopy, Answers
  <2>2. CASE e # d
    BY <1>5, <1>a, <2>2, OthersAreStill DEF Reject, TypeOK
  <2> QED BY <2>1, <2>2
<1>6. ASSUME NEW d \in Deliveries, Answer(d) PROVE DeliveryOK(e)'
  <2>1. CASE e = d
    <3>1. CountedAsProcessed(e) /\ pc'[e] = "done" /\ answer'[e] = "200"
      BY <1>6, <1>a, <2>1 DEF Answer, Respond, DeliveryOK, TypeOK
    <3>2. CountedAsProcessed(e)'
      BY <1>6, <3>1 DEF Answer, CountedAsProcessed, Addressed
    <3> QED BY <3>1, <3>2 DEF DeliveryOK, HasCopy
  <2>2. CASE e # d
    BY <1>6, <1>c, <2>2 DEF Answer
  <2> QED BY <2>1, <2>2
<1>r. ASSUME NEW d \in Deliveries, Refuse(d) PROVE DeliveryOK(e)'
  <2>1. CASE e = d
    <3>1. CountedAsFailed(e) /\ pc'[e] = "done" /\ answer'[e] = "401"
      BY <1>r, <1>a, <2>1 DEF Refuse, Respond, DeliveryOK, TypeOK
    <3>2. CountedAsFailed(e)'
      BY <1>r, <3>1 DEF Refuse, CountedAsFailed, Addressed
    <3> QED BY <3>1, <3>2 DEF DeliveryOK, HasCopy
  <2>2. CASE e # d
    BY <1>r, <1>c, <2>2 DEF Refuse
  <2> QED BY <2>1, <2>2
<1>7. ASSUME NEW d \in Deliveries, VerifyRaises(d) \/ DatabaseError(d) PROVE DeliveryOK(e)'
  BY <1>7, <1>c, ErrorAnswer DEF VerifyRaises, DatabaseError
<1>8. CASE Crash
  <2>1. CASE e \in InFlight
    <3>1. answer[e] = NULL /\ answer'[e] = NULL /\ pc'[e] = "lost"
      BY <1>8, <1>a, <2>1 DEF Crash, InFlight, DeliveryOK
    <3> QED BY <3>1, AnswerAssumption DEF DeliveryOK, HasCopy, Answers
  <2>2. CASE e \notin InFlight
    BY <1>8, <2>2, OthersAreStill DEF Crash
  <2> QED BY <2>1, <2>2
<1>9. ASSUME NEW w \in Webhooks, NEW i \in Integrations, NEW event \in Events,
             NEW secret \in Secrets, RegisterWebhook(w, i, event, secret)
      PROVE  DeliveryOK(e)'
  BY <1>9, <1>b DEF RegisterWebhook
<1>10. CASE Idle
  BY <1>10, <1>b DEF Idle, vars
<1> QED
  BY <1>1, <1>2, <1>3, <1>4, <1>5, <1>6, <1>r, <1>7, <1>8, <1>9, <1>10 DEF Next, Proceed
-----------------------------------------------------------------------------
LEMMA InitOK == Init => Inv
<1> SUFFICES ASSUME Init PROVE Inv
  OBVIOUS
<1>1. LegacyWebhooks \subseteq WebhookRow
  BY NewWebhookType DEF LegacyWebhooks
<1>2. \A row \in LegacyWebhooks :
          row.total_received = 0 /\ row.total_processed = 0 /\ row.total_failed = 0
  BY DEF LegacyWebhooks, NewWebhook
<1>3. TypeOK
  BY <1>1 DEF Init, NoOne, TypeOK, Steps
<1>4. DeliveriesOK
  BY AnswerAssumption DEF Init, NoOne, DeliveriesOK, DeliveryOK, HasCopy, Answers
<1>5. CountersAreBounded /\ ReceiptsHaveRows
  BY <1>2 DEF Init, CountersAreBounded, ReceiptsHaveRows, Bounded
<1> QED BY <1>3, <1>4, <1>5 DEF Inv

LEMMA Stutter == Inv /\ UNCHANGED vars => Inv'
  BY DEF vars, Inv, TypeOK, DeliveriesOK, DeliveryOK, Addressed, CopyOK, CountedAsProcessed,
         CountedAsFailed, CountersAreBounded, ReceiptsHaveRows, Verified, HasCopy, Bounded

LEMMA InvStep == Inv /\ [Next]_vars => Inv'
  BY TypeStep, CountersStep, DeliveriesStep, Stutter DEF Inv

(* The inductive invariant that the theorems below rest on.                 *)
THEOREM Invariance == Spec => []Inv
  BY InitOK, InvStep, PTL DEF Spec

(* Every variable keeps to its type: no receipt writes a counter or an      *)
(* error into a webhook's row that the table does not allow for.            *)
THEOREM TypeCorrect == Spec => []TypeOK
<1>1. Inv => TypeOK
  BY DEF Inv
<1> QED BY <1>1, Invariance, PTL

(* Lost updates only ever lose: however many deliveries overlap, a counter  *)
(* of a webhook never runs ahead of the receipts that were committed, and   *)
(* never shows 0 once there is one.                                         *)
THEOREM CountersNeverRunAhead == Spec => []CountersAreBounded
<1>1. Inv => CountersAreBounded
  BY DEF Inv
<1> QED BY <1>1, Invariance, PTL

(* A sender told 200 or 401 can rely on it: its receipt was judged by the   *)
(* secret its webhook still has, and was counted under that verdict.        *)
THEOREM AnswersAreKept == Spec => []AnswersAreReceipts
<1>1. Inv => AnswersAreReceipts
  <2> SUFFICES ASSUME Inv, NEW d \in Deliveries PROVE AnswersAreReceipts!(d)
    BY DEF AnswersAreReceipts
  <2>1. DeliveryOK(d)
    BY DEF Inv, DeliveriesOK
  <2>2. CASE answer[d] = "200"
    BY <2>1, <2>2 DEF DeliveryOK, CountedAsProcessed, Addressed, Verified
  <2>3. CASE answer[d] = "401"
    BY <2>1, <2>3 DEF DeliveryOK, CountedAsFailed, Addressed, Verified
  <2> QED BY <2>2, <2>3
<1> QED BY <1>1, Invariance, PTL

-----------------------------------------------------------------------------
(* Deliveries that do not overlap.                                          *)

OneInFlight == \A d, e \in InFlight : d = e

(* With nobody else in flight a copy is as good as the row.                 *)
CopiesAreCurrent ==
    \A d \in Deliveries : pc[d] \in HasCopy =>
        LET row == webhooks[webhook_of[d]] IN
        /\ orm[d].total_received = row.total_received
        /\ orm[d].total_processed = row.total_processed
        /\ orm[d].total_failed = row.total_failed
        /\ orm[d].last_error = row.last_error

SequentialInv ==
    OneInFlight /\ CopiesAreCurrent /\ ReceiptsAreCounted /\ LastErrorIsLastVerdict

LEMMA NobodyElse ==
    ASSUME MaxInFlight = 1, OneInFlight, Cardinality(InFlight) < MaxInFlight
    PROVE  InFlight = {}
<1> SUFFICES ASSUME NEW d \in InFlight PROVE FALSE
  OBVIOUS
<1>1. InFlight = {d}
  BY DEF OneInFlight
<1> QED BY <1>1, FS_Singleton

LEMMA OneInFlightStep ==
    ASSUME MaxInFlight = 1, TypeOK, OneInFlight, Next
    PROVE  OneInFlight'
<1>1. ASSUME NEW d \in Deliveries, NEW req, SelectExact(d, req) PROVE OneInFlight'
  <2>1. InFlight = {}
    BY <1>1, NobodyElse DEF SelectExact
  <2>2. \A e \in Deliveries \ {d} : pc'[e] = pc[e]
    BY <1>1 DEF SelectExact, Load, TypeOK
  <2> QED BY <2>1, <2>2 DEF InFlight, OneInFlight
<1>2. ASSUME \A e \in Deliveries : pc'[e] # pc[e] => pc[e] \notin {"new", "done", "lost"}
      PROVE  OneInFlight'
  BY <1>2 DEF InFlight, OneInFlight
<1>3. ASSUME NEW d \in Deliveries, Proceed(d) \/ DatabaseError(d) PROVE OneInFlight'
  <2>1. pc[d] \notin {"new", "done", "lost"} /\ \A e \in Deliveries \ {d} : pc'[e] = pc[e]
    BY <1>3 DEF Proceed, SelectAny, Load, Verify, VerifyRaises, Accept, Reject, Refuse, Answer,
                DatabaseError, Respond, InFlight, TypeOK
  <2> QED BY <1>2, <2>1
<1>4. CASE Crash
  BY <1>2, <1>4 DEF Crash, InFlight
<1>5. CASE pc' = pc
  BY <1>2, <1>5
<1> QED BY <1>1, <1>3, <1>4, <1>5 DEF Next, RegisterWebhook, Idle, vars

LEMMA CopiesStep ==
    ASSUME Inv, OneInFlight, CopiesAreCurrent, Next
    PROVE  CopiesAreCurrent'
<1> DEFINE Current(e) == CopiesAreCurrent!(e)
<1> SUFFICES ASSUME NEW e \in Deliveries, pc'[e] \in HasCopy PROVE Current(e)'
  BY DEF CopiesAreCurrent
<1>a. Current(e) /\ DeliveryOK(e) /\ TypeOK
  BY DEF CopiesAreCurrent, Inv, DeliveriesOK
<1>b. ASSUME pc'[e] = pc[e], webhook_of'[e] = webhook_of[e], orm'[e] = orm[e],
             webhooks'[webhook_of[e]] = webhooks[webhook_of[e]]
      PROVE  Current(e)'
  BY <1>a, <1>b
<1>c. ASSUME NEW d \in Deliveries, NEW w, Load(d, w), UNCHANGED webhooks PROVE Current(e)'
  <2>1. CASE e = d
    BY <1>a, <1>c, <2>1 DEF Load, TypeOK
  <2>2. CASE e # d
    BY <1>a, <1>b, <1>c, <2>2 DEF Load, TypeOK
  <2> QED BY <2>1, <2>2
<1>d. ASSUME NEW d \in Deliveries, NEW code, Respond(d, code), UNCHANGED <<webhooks, webhook_of>>
      PROVE  Current(e)'
  <2>1. e # d
    BY <1>a, <1>d DEF Respond, HasCopy, TypeOK
  <2> QED BY <1>a, <1>b, <1>d, <2>1 DEF Respond, TypeOK
<1>1. ASSUME NEW d \in Deliveries, NEW req, SelectExact(d, req) PROVE Current(e)'
  <2>1. CASE \E w \in Exact(req) : Load(d, w)
    BY <1>1, <1>c, <2>1 DEF SelectExact
  <2>2. CASE pc' = [pc EXCEPT ![d] = "fallback"] /\ UNCHANGED <<webhook_of, orm, answer>>
    <3>1. e # d
      BY <1>a, <2>2 DEF HasCopy, TypeOK
    <3> QED BY <1>1, <1>a, <1>b, <2>2, <3>1 DEF SelectExact, TypeOK
  <2> QED BY <1>1, <2>1, <2>2 DEF SelectExact
<1>2. ASSUME NEW d \in Deliveries, SelectAny(d) PROVE Current(e)'
  BY <1>2, <1>c, <1>d DEF SelectAny
<1>3. ASSUME NEW d \in Deliveries, Verify(d) PROVE Current(e)'
  <2>1. CASE e = d
    <3>1. orm[e] \in WebhookRow /\ Current(e) /\ pc[e] \in HasCopy
      BY <1>3, <1>a, <2>1 DEF Verify, DeliveryOK, CopyOK, HasCopy
    <3>2. orm'[e] = [orm[e] EXCEPT !.last_received_at = now + 1]
      BY <1>3, <1>a, <2>1 DEF Verify, TypeOK
    <3>3. /\ orm'[e].total_received = orm[e].total_received
          /\ orm'[e].total_processed = orm[e].total_processed
          /\ orm'[e].total_failed = orm[e].total_failed
          /\ orm'[e].last_error = orm[e].last_error
      BY <3>1, <3>2 DEF WebhookRow
    <3> QED BY <1>3, <1>a, <3>1, <3>3 DEF Verify
  <2>2. CASE e # d
    BY <1>3, <1>a, <1>b, <2>2 DEF Verify, TypeOK
  <2> QED BY <2>1, <2>2
<1>4. ASSUME NEW d \in Deliveries, Accept(d) \/ Reject(d) PROVE FALSE
  <2>1. d \in InFlight /\ pc'[d] \notin HasCopy /\ \A x \in Deliveries \ {d} : pc'[x] = pc[x]
    BY <1>4, <1>a DEF Accept, Reject, InFlight, HasCopy, TypeOK
  <2>2. e \in InFlight
    BY <2>1 DEF InFlight, HasCopy
  <2> QED BY <2>1, <2>2 DEF OneInFlight
<1>5. ASSUME NEW d \in Deliveries, VerifyRaises(d) \/ Refuse(d) \/ Answer(d) \/ DatabaseError(d)
      PROVE  Current(e)'
  BY <1>5, <1>d DEF VerifyRaises, Refuse, Answer, DatabaseError
<1>6. ASSUME NEW w \in Webhooks, NEW i \in Integrations, NEW event \in Events,
             NEW secret \in Secrets, RegisterWebhook(w, i, event, secret)
      PROVE  Current(e)'
  <2>1. webhook_of[e] \in Webhooks /\ webhook_of[e] # w
    BY <1>6, <1>a DEF RegisterWebhook, DeliveryOK, Addressed
  <2> QED BY <1>6, <1>a, <1>b, <2>1 DEF RegisterWebhook, TypeOK
<1>7. CASE Crash
  <2>1. e \notin InFlight
    BY <1>7 DEF Crash, HasCopy
  <2> QED BY <1>7, <1>b, <2>1 DEF Crash
<1>8. CASE Idle
  BY <1>8, <1>b DEF Idle, vars
<1> QED
  BY <1>1, <1>2, <1>3, <1>4, <1>5, <1>6, <1>7, <1>8 DEF Next, Proceed

LEMMA CountedStep ==
    ASSUME Inv, CopiesAreCurrent, ReceiptsAreCounted, LastErrorIsLastVerdict, Next
    PROVE  ReceiptsAreCounted' /\ LastErrorIsLastVerdict'
<1> DEFINE Good(w) == ReceiptsAreCounted!(w) /\ LastErrorIsLastVerdict!(w)
<1> SUFFICES ASSUME NEW w \in Webhooks PROVE Good(w)'
  BY DEF ReceiptsAreCounted, LastErrorIsLastVerdict
<1>a. Good(w) /\ TypeOK
  BY DEF ReceiptsAreCounted, LastErrorIsLastVerdict, Inv
<1>0. receipts[w].accepted \in Nat /\ receipts[w].rejected \in Nat
  BY <1>a DEF TypeOK
<1>1. ASSUME webhooks'[w] = webhooks[w], receipts'[w] = receipts[w] PROVE Good(w)'
  BY <1>a, <1>1
<1>2. ASSUME NEW v \in Webhooks, NEW i \in Integrations, NEW event \in Events,
             NEW secret \in Secrets, RegisterWebhook(v, i, event, secret)
      PROVE  Good(w)'
  <2>1. CASE w = v
    <3>1. webhooks[w] = NULL /\ receipts' = receipts /\ webhooks'[w] = NewWebhook(i, event, secret)
      BY <1>2, <1>a, <2>1 DEF RegisterWebhook, TypeOK
    <3> QED BY <1>0, <3>1, NewWebhookType, VerdictAssumption
            DEF NewWebhook, Inv, ReceiptsHaveRows
  <2>2. CASE w # v
    BY <1>1, <1>2, <1>a, <2>2 DEF RegisterWebhook, TypeOK
  <2> QED BY <2>1, <2>2
<1>3. ASSUME NEW d \in Deliveries, Accept(d) PROVE Good(w)'
  <2> DEFINE v == webhook_of[d]
             new == Accepted(webhooks[v], orm[d])
  <2>1. /\ v \in Webhooks /\ webhooks[v] \in WebhookRow /\ orm[d] \in WebhookRow
        /\ webhooks' = [webhooks EXCEPT ![v] = new]
        /\ receipts'[v].accepted = receipts[v].accepted + 1
        /\ receipts'[v].rejected = receipts[v].rejected
        /\ receipts'[v].last = "accepted"
        /\ \A u \in Webhooks \ {v} : receipts'[u] = receipts[u]
    BY <1>3, AcceptWrites
  <2>2. CASE w = v
    <3>1. /\ orm[d].total_received = webhooks[v].total_received
          /\ orm[d].total_processed = webhooks[v].total_processed
          /\ orm[d].last_error = webhooks[v].last_error
      BY <1>3 DEF Accept, CopiesAreCurrent, HasCopy
    <3>2. /\ new.total_received = webhooks[v].total_received + 1
          /\ new.total_processed = webhooks[v].total_processed + 1
          /\ new.total_failed = webhooks[v].total_failed
          /\ new.last_error = NULL
      <4>1. /\ new.total_received = orm[d].total_received + 1
            /\ new.total_processed = orm[d].total_processed + 1
            /\ new.total_failed = webhooks[v].total_failed
            /\ new.last_error = Written(webhooks[v].last_error, orm[d].last_error, NULL)
        BY <2>1, AcceptedRow
      <4> HIDE DEF new
      <4> QED BY <3>1, <4>1 DEF Written
    <3>3. /\ webhooks[v].total_received \in Nat /\ webhooks[v].total_processed \in Nat
          /\ webhooks[v].total_failed \in Nat /\ webhooks[v] # NULL
      BY <2>1, NullIsNoRow DEF WebhookRow
    <3>4. webhooks'[w] = new
      BY <1>a, <2>1, <2>2 DEF TypeOK
    <3> HIDE DEF new
    <3>5. ReceiptsAreCounted!(w)'
      BY <1>0, <1>a, <2>1, <2>2, <3>2, <3>3, <3>4
    <3>6. LastErrorIsLastVerdict!(w)'
      BY <2>1, <2>2, <3>2, <3>4
    <3> QED BY <3>5, <3>6
  <2>3. CASE w # v
    BY <1>1, <1>a, <2>1, <2>3 DEF TypeOK
  <2> QED BY <2>2, <2>3
<1>4. ASSUME NEW d \in Deliveries, Reject(d) PROVE Good(w)'
  <2> DEFINE v == webhook_of[d]
             new == Rejected(webhooks[v], orm[d])
  <2>1. /\ v \in Webhooks /\ webhooks[v] \in WebhookRow /\ orm[d] \in WebhookRow
        /\ webhooks' = [webhooks EXCEPT ![v] = new]
        /\ receipts'[v].accepted = receipts[v].accepted
        /\ receipts'[v].rejected = receipts[v].rejected + 1
        /\ receipts'[v].last = "rejected"
        /\ \A u \in Webhooks \ {v} : receipts'[u] = receipts[u]
    BY <1>4, RejectWrites
  <2>2. CASE w = v
    <3>1. /\ orm[d].total_received = webhooks[v].total_received
          /\ orm[d].total_failed = webhooks[v].total_failed
          /\ orm[d].last_error = webhooks[v].last_error
      BY <1>4 DEF Reject, CopiesAreCurrent, HasCopy
    <3>2. /\ new.total_received = webhooks[v].total_received + 1
          /\ new.total_failed = webhooks[v].total_failed + 1
          /\ new.total_processed = webhooks[v].total_processed
          /\ new.last_error = "bad_signature"
      <4>1. /\ new.total_received = orm[d].total_received + 1
            /\ new.total_failed = orm[d].total_failed + 1
            /\ new.total_processed = webhooks[v].total_processed
            /\ new.last_error = Written(webhooks[v].last_error, orm[d].last_error, "bad_signature")
        BY <2>1, RejectedRow
      <4> HIDE DEF new
      <4> QED BY <3>1, <4>1 DEF Written
    <3>3. /\ webhooks[v].total_received \in Nat /\ webhooks[v].total_processed \in Nat
          /\ webhooks[v].total_failed \in Nat /\ webhooks[v] # NULL
      BY <2>1, NullIsNoRow DEF WebhookRow
    <3>4. webhooks'[w] = new
      BY <1>a, <2>1, <2>2 DEF TypeOK
    <3> HIDE DEF new
    <3> QED BY <1>0, <1>a, <2>1, <2>2, <3>2, <3>3, <3>4, MessageAssumption
  <2>3. CASE w # v
    BY <1>1, <1>a, <2>1, <2>3 DEF TypeOK
  <2> QED BY <2>2, <2>3
<1> QED BY <1>1, <1>2, <1>3, <1>4, Writers

LEMMA SequentialInit == Init => SequentialInv
<1> SUFFICES ASSUME Init PROVE SequentialInv
  OBVIOUS
<1>1. \A row \in LegacyWebhooks :
          /\ row.total_received = 0 /\ row.total_processed = 0 /\ row.total_failed = 0
          /\ row.last_error = NULL
  BY DEF LegacyWebhooks, NewWebhook
<1> QED
  BY <1>1, VerdictAssumption
  DEF Init, SequentialInv, OneInFlight, InFlight, CopiesAreCurrent, HasCopy, ReceiptsAreCounted,
      LastErrorIsLastVerdict

LEMMA SequentialStutter == SequentialInv /\ UNCHANGED vars => SequentialInv'
  BY DEF vars, SequentialInv, OneInFlight, InFlight, CopiesAreCurrent, HasCopy,
         ReceiptsAreCounted, LastErrorIsLastVerdict

LEMMA SequentialStep ==
    ASSUME MaxInFlight = 1
    PROVE  Inv /\ SequentialInv /\ [Next]_vars => SequentialInv'
  BY OneInFlightStep, CopiesStep, CountedStep, SequentialStutter DEF SequentialInv, Inv

(* When deliveries do not overlap, the copy that a delivery has loaded is   *)
(* still its webhook's row when it commits, and the row tells all receipts. *)
THEOREM SequentialInvariance == MaxInFlight = 1 => (Spec => []SequentialInv)
<1> SUFFICES ASSUME MaxInFlight = 1 PROVE Spec => []SequentialInv
  OBVIOUS
<1> QED BY SequentialInit, SequentialStep, Invariance, PTL DEF Spec

(* When deliveries do not overlap nothing is lost: every receipt that was   *)
(* committed is in total_received, and as processed or as failed.           *)
THEOREM NoReceiptIsLost == MaxInFlight = 1 => (Spec => []ReceiptsAreCounted)
<1> SUFFICES ASSUME MaxInFlight = 1 PROVE Spec => []ReceiptsAreCounted
  OBVIOUS
<1>1. SequentialInv => ReceiptsAreCounted
  BY DEF SequentialInv
<1> QED BY <1>1, SequentialInvariance, PTL

(* When deliveries do not overlap last_error tells the last verdict, though *)
(* the UPDATE leaves it out when the copy shows no change.                  *)
THEOREM LastErrorIsCurrent == MaxInFlight = 1 => (Spec => []LastErrorIsLastVerdict)
<1> SUFFICES ASSUME MaxInFlight = 1 PROVE Spec => []LastErrorIsLastVerdict
  OBVIOUS
<1>1. SequentialInv => LastErrorIsLastVerdict
  BY DEF SequentialInv
<1> QED BY <1>1, SequentialInvariance, PTL
=============================================================================
