--------------------------- MODULE WebhookReceiver ---------------------------
(* Webhooks: registration, and the receiver that looks up the registration  *)
(* a delivery is for, verifies its signature and keeps the receipt counters,*)
(* as concurrent request handlers over one PostgreSQL database.  A delivery *)
(* works on the copy of the row it loaded before it awaited the body.       *)
(*                                                                          *)
(* An operator named Action_Change is Action with one plausible bug; no     *)
(* specification uses it.  PROJECT.json says which property each one breaks.*)
EXTENDS Integers, FiniteSets, Orm

CONSTANTS
    Integrations,  \* the integrations that exist
    Webhooks,      \* identities the database may hand out
    Deliveries,    \* one per call of receive_webhook
    Events,        \* values of event_type and of the X-Event-Type header
    Secrets,       \* values of a webhook's secret
    MaxInFlight,   \* bound on the deliveries in flight at a time
    Faults,        \* which of "crash", "db_error" may happen
    NULL           \* None in a column, no header, no such row

ASSUME NullAssumption ==
    NULL \notin Integrations \cup Webhooks \cup Deliveries \cup Secrets \cup Nat
ASSUME GarbledAssumption == "garbled" \notin Secrets /\ "garbled" # NULL
ASSUME MessageAssumption == "bad_signature" # NULL
ASSUME VerdictAssumption == NULL \notin {"accepted", "rejected"}

VARIABLES
    webhooks,                      \* the committed table
    pc, webhook_of, orm, answer,   \* each delivery; orm is its copy of the row
    request,                       \* what each delivery says
    receipts,                      \* history: committed receipts of each webhook
    now                            \* datetime.utcnow(), which ticks at each stamp

vars == <<webhooks, pc, webhook_of, orm, answer, request, receipts, now>>

WebhookRow ==
    [integration_id : Integrations, event_type : Events, secret : Secrets \cup {NULL},
     last_received_at : Nat \cup {NULL},
     total_received : Nat, total_processed : Nat, total_failed : Nat,
     last_error : {"bad_signature", NULL}]

ASSUME NullIsNoRow == NULL \notin WebhookRow

(* A signature is named by the secret that made it; one that is not ASCII   *)
(* makes hmac.compare_digest raise.                                         *)
Signatures == Secrets \cup {NULL, "garbled"}
Request == [integration_id : Integrations, event_type : Events, signature : Signatures]

Steps == {"new", "fallback", "loaded", "accepted", "rejected", "committed", "refused",
          "done", "lost"}
Answers == {"200", "401", "404", "500", "db_error"}

ASSUME AnswerAssumption == NULL \notin Answers

InFlight == {d \in Deliveries : pc[d] \notin {"new", "done", "lost"}}
NoOne(S) == [x \in S |-> NULL]

NewWebhook_NoDefaults(i, event, secret) ==
    [integration_id |-> i, event_type |-> event, secret |-> secret,
     last_received_at |-> NULL, total_received |-> NULL, total_processed |-> NULL,
     total_failed |-> NULL, last_error |-> NULL]
NewWebhook(i, event, secret) ==
    [integration_id |-> i, event_type |-> event, secret |-> secret,
     last_received_at |-> NULL, total_received |-> 0, total_processed |-> 0,
     total_failed |-> 0, last_error |-> NULL]

(* Webhooks registered before secrets were required may be there already.   *)
LegacyWebhooks == {NewWebhook(i, e, NULL) : i \in Integrations, e \in Events}

Init ==
    /\ webhooks \in [Webhooks -> LegacyWebhooks \cup {NULL}]
    /\ pc = [d \in Deliveries |-> "new"]
    /\ webhook_of = NoOne(Deliveries) /\ orm = NoOne(Deliveries)
    /\ answer = NoOne(Deliveries) /\ request = NoOne(Deliveries)
    /\ receipts = [w \in Webhooks |-> [accepted |-> 0, rejected |-> 0, last |-> NULL]]
    /\ now = 0

(* POST /webhooks/: a secret is required.                                   *)
RegisterWebhook(w, i, event, secret) ==
    /\ webhooks[w] = NULL
    /\ webhooks' = [webhooks EXCEPT ![w] = NewWebhook(i, event, secret)]
    /\ UNCHANGED <<pc, webhook_of, orm, answer, request, receipts, now>>

-----------------------------------------------------------------------------
(* POST /webhooks/{integration_id}                                          *)

Respond(d, code) ==
    /\ pc'     = [pc EXCEPT ![d] = "done"]
    /\ answer' = [answer EXCEPT ![d] = code]
    /\ orm'    = [orm EXCEPT ![d] = NULL]

Of(i) == {w \in Webhooks : webhooks[w] # NULL /\ webhooks[w].integration_id = i}
Exact(req) == {w \in Of(req.integration_id) : webhooks[w].event_type = req.event_type}

(* .first() of a query without ORDER BY: any of the rows that match.        *)
Load(d, w) ==
    /\ pc' = [pc EXCEPT ![d] = "loaded"]
    /\ webhook_of' = [webhook_of EXCEPT ![d] = w]
    /\ orm' = [orm EXCEPT ![d] = webhooks[w]]
    /\ UNCHANGED answer

SelectExact(d, req) ==
    /\ pc[d] = "new" /\ Cardinality(InFlight) < MaxInFlight
    /\ request' = [request EXCEPT ![d] = req]
    /\ \/ \E w \in Exact(req) : Load(d, w)
       \/ /\ Exact(req) = {}
          /\ pc' = [pc EXCEPT ![d] = "fallback"]
          /\ UNCHANGED <<webhook_of, orm, answer>>
    /\ UNCHANGED <<webhooks, receipts, now>>

(* A second query: any webhook of the integration will do.                  *)
SelectAny(d) ==
    /\ pc[d] = "fallback"
    /\ \/ \E w \in Of(request[d].integration_id) : Load(d, w)
       \/ /\ Of(request[d].integration_id) = {}
          /\ Respond(d, "404")
          /\ UNCHANGED webhook_of
    /\ UNCHANGED <<webhooks, request, receipts, now>>

(* verify_signature                                                         *)
Verified_IfSigned(secret, signature) == signature \in {NULL, secret}
Verified(secret, signature) == secret = NULL \/ signature = secret

(* The body is in: the counters of the copy are stamped and the signature   *)
(* is judged, all in memory.                                                *)
Verify(d) ==
    /\ pc[d] = "loaded"
    /\ orm[d].secret = NULL \/ request[d].signature # "garbled"
    /\ now' = now + 1
    /\ pc' = [pc EXCEPT ![d] =
           IF Verified(orm[d].secret, request[d].signature) THEN "accepted" ELSE "rejected"]
    /\ orm' = [orm EXCEPT ![d].last_received_at = now + 1]
    /\ UNCHANGED <<webhooks, webhook_of, answer, request, receipts>>

VerifyRaises(d) ==
    /\ pc[d] = "loaded"
    /\ orm[d].secret # NULL /\ request[d].signature = "garbled"
    /\ Respond(d, "500")
    /\ UNCHANGED <<webhooks, webhook_of, request, receipts, now>>

(* The UPDATE: the counters become those of the copy plus one, whatever the *)
(* row has become since the copy was loaded.                                *)
Accepted_KeepsError(row, copy) ==
    [row EXCEPT !.last_received_at = copy.last_received_at,
                !.total_received   = copy.total_received + 1,
                !.total_processed  = copy.total_processed + 1]
Accepted(row, copy) ==
    [row EXCEPT !.last_received_at = copy.last_received_at,
                !.total_received   = copy.total_received + 1,
                !.total_processed  = copy.total_processed + 1,
                !.last_error       = Written(@, copy.last_error, NULL)]

Rejected_NotFailed(row, copy) ==
    [row EXCEPT !.last_received_at = copy.last_received_at,
                !.total_received   = copy.total_received + 1,
                !.last_error       = Written(@, copy.last_error, "bad_signature")]
Rejected(row, copy) ==
    [row EXCEPT !.last_received_at = copy.last_received_at,
                !.total_received   = copy.total_received + 1,
                !.total_failed     = copy.total_failed + 1,
                !.last_error       = Written(@, copy.last_error, "bad_signature")]

(* The UPDATE and the COMMIT are one step: the row is locked between them.  *)
Accept(d) ==
    /\ pc[d] = "accepted"
    /\ webhooks' = [webhooks EXCEPT ![webhook_of[d]] = Accepted(@, orm[d])]
    /\ receipts' = [receipts EXCEPT ![webhook_of[d]].accepted = @ + 1,
                                    ![webhook_of[d]].last = "accepted"]
    /\ pc' = [pc EXCEPT ![d] = "committed"]
    /\ UNCHANGED <<webhook_of, orm, answer, request, now>>

Reject(d) ==
    /\ pc[d] = "rejected"
    /\ webhooks' = [webhooks EXCEPT ![webhook_of[d]] = Rejected(@, orm[d])]
    /\ receipts' = [receipts EXCEPT ![webhook_of[d]].rejected = @ + 1,
                                    ![webhook_of[d]].last = "rejected"]
    /\ pc' = [pc EXCEPT ![d] = "refused"]
    /\ UNCHANGED <<webhook_of, orm, answer, request, now>>

Refuse(d) ==
    /\ pc[d] = "refused"
    /\ Respond(d, "401")
    /\ UNCHANGED <<webhooks, webhook_of, request, receipts, now>>

(* db.refresh() and the answer.                                             *)
Answer(d) ==
    /\ pc[d] = "committed"
    /\ Respond(d, "200")
    /\ UNCHANGED <<webhooks, webhook_of, request, receipts, now>>

(* A statement fails, the acknowledgement of a COMMIT is lost, or the sender*)
(* goes away before its body is in: 500.                                    *)
DatabaseError(d) ==
    /\ "db_error" \in Faults
    /\ d \in InFlight
    /\ Respond(d, "db_error")
    /\ UNCHANGED <<webhooks, webhook_of, request, receipts, now>>

Crash ==
    /\ "crash" \in Faults
    /\ InFlight # {}
    /\ pc'  = [d \in Deliveries |-> IF d \in InFlight THEN "lost" ELSE pc[d]]
    /\ orm' = [d \in Deliveries |-> IF d \in InFlight THEN NULL ELSE orm[d]]
    /\ UNCHANGED <<webhooks, webhook_of, answer, request, receipts, now>>

(* Nothing in flight: senders may stay away.                                *)
Idle == InFlight = {} /\ UNCHANGED vars

Proceed(d) ==
    \/ SelectAny(d)
    \/ Verify(d)
    \/ VerifyRaises(d)
    \/ Accept(d)
    \/ Reject(d)
    \/ Refuse(d)
    \/ Answer(d)

Next ==
    \/ \E w \in Webhooks, i \in Integrations, event \in Events, secret \in Secrets :
          RegisterWebhook(w, i, event, secret)
    \/ \E d \in Deliveries, req \in Request : SelectExact(d, req)
    \/ \E d \in Deliveries : Proceed(d) \/ DatabaseError(d)
    \/ Crash
    \/ Idle

Spec == Init /\ [][Next]_vars

-----------------------------------------------------------------------------
(* Properties.                                                              *)

TypeOK ==
    /\ webhooks \in [Webhooks -> WebhookRow \cup {NULL}]
    /\ pc \in [Deliveries -> Steps]
    /\ webhook_of \in [Deliveries -> Webhooks \cup {NULL}]
    /\ orm \in [Deliveries -> WebhookRow \cup {NULL}]
    /\ answer \in [Deliveries -> Answers \cup {NULL}]
    /\ request \in [Deliveries -> Request \cup {NULL}]
    /\ receipts \in [Webhooks -> [accepted : Nat, rejected : Nat,
                                  last : {"accepted", "rejected", NULL}]]
    /\ now \in Nat

Bounded(counter, count) == counter =< count /\ (counter = 0 => count = 0)

(* Racing deliveries may lose increments of a counter, but no counter ever  *)
(* runs ahead of the receipts committed, nor shows 0 once there is one.     *)
CountersAreBounded ==
    \A w \in Webhooks : webhooks[w] # NULL =>
        /\ Bounded(webhooks[w].total_received, receipts[w].accepted + receipts[w].rejected)
        /\ Bounded(webhooks[w].total_processed, receipts[w].accepted)
        /\ Bounded(webhooks[w].total_failed, receipts[w].rejected)

(* What a sender is told was persisted, and stays so: 200 means a receipt   *)
(* counted as processed by a webhook of the integration it addressed whose  *)
(* secret made the signature (or that has none), 401 one counted as failed. *)
AnswersAreReceipts ==
    \A d \in Deliveries :
        LET row == webhooks[webhook_of[d]]
            ok  == row.secret \in {NULL, request[d].signature}
        IN  answer[d] \in {"200", "401"} =>
            /\ row.integration_id = request[d].integration_id
            /\ row.total_received > 0
            /\ answer[d] = "200" => ok /\ row.total_processed > 0
            /\ answer[d] = "401" => ~ok /\ row.total_failed > 0

(* Of deliveries that do not overlap (MaxInFlight = 1), every receipt is    *)
(* counted, and every one of them as either processed or failed.            *)
ReceiptsAreCounted ==
    \A w \in Webhooks : webhooks[w] # NULL =>
        /\ webhooks[w].total_received = receipts[w].accepted + receipts[w].rejected
        /\ webhooks[w].total_received = webhooks[w].total_processed + webhooks[w].total_failed

(* Of deliveries that do not overlap, last_error tells the verdict on the   *)
(* last receipt.                                                            *)
LastErrorIsLastVerdict ==
    \A w \in Webhooks : webhooks[w] # NULL =>
        (webhooks[w].last_error # NULL <=> receipts[w].last = "rejected")
=============================================================================
