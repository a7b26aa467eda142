------------------------------ MODULE Payments ------------------------------
(***************************************************************************)
(* apps/web/src/app/api/payments: checkout under an idempotency key, and   *)
(* the payment provider's webhook, over the Postgres tables of orders,     *)
(* payments and payment events.                                            *)
(*                                                                         *)
(* Every statement of a Prisma transaction is awaited, so transactions     *)
(* interleave statement by statement. Postgres (READ COMMITTED) hides what *)
(* is not committed, keeps the row lock of an update and the claim of a    *)
(* unique key until the transaction ends, and makes a second writer wait.  *)
(*                                                                         *)
(* Assumed of the provider: it names an event by one of the four types the *)
(* webhook knows. mapEventType would take any other name for a refund.     *)
(***************************************************************************)
EXTENDS JsonlLedger

CONSTANTS
  Requests,        \* request handlers that may run at once
  IdempotencyKeys, \* values of the x-idempotency-key header
  NoKey,           \* a request that is no checkout
  MaxEvents,       \* bound: events the provider emits
  MaxFaults        \* bound: crashes, time-outs and aborted transactions

ASSUME PaymentsAssumption ==
  /\ NoKey \notin IdempotencyKeys
  /\ MaxEvents \in Nat
  /\ MaxFaults \in Nat

VARIABLES
  orders,    \* committed Order rows; an order's id is its position
  payments,  \* the status of each order's one Payment row
  events,    \* committed PaymentEvent rows, in the order they were committed
  request,   \* each handler: where it is, and what its transaction has staged
  emitted,   \* the provider's events; an event's id is its position
  acked,     \* events the provider got a 200 for
  faults     \* crashes and aborts so far

vars == <<orders, payments, events, request, emitted, acked, faults>>

EventTypes == {"SUCCEEDED", "FAILED", "CANCELLED", "REFUNDED"}
OrderStatuses == {"PENDING", "PAID", "FAILED", "CANCELLED", "REFUNDED"}
PaymentStatuses == EventTypes \cup {"REQUIRES_ACTION"}

Order == [key : IdempotencyKeys, status : OrderStatuses]
PaymentEvent == [key : Nat, id : Nat, type : EventTypes]
ProviderEvent == [order : Nat, type : EventTypes]

\* The statements a checkout and a webhook call stop before.
CheckoutSteps == {"insertOrder", "insertPayment"}
WebhookSteps == {"insertEvent", "updatePayment", "updateOrder", "commit", "reply"}

Request ==
  [at : {"idle"} \cup CheckoutSteps \cup WebhookSteps,
   key : IdempotencyKeys \cup {NoKey}, event : Nat,
   payment : PaymentStatuses, order : OrderStatuses]

At(step, key, event, payment, order) ==
  [at |-> step, key |-> key, event |-> event, payment |-> payment, order |-> order]

Idle == At("idle", NoKey, 0, "REQUIRES_ACTION", "PENDING")

Init ==
  /\ orders = << >>
  /\ payments = << >>
  /\ events = << >>
  /\ request = [r \in Requests |-> Idle]
  /\ emitted = << >>
  /\ acked = {}
  /\ faults = 0

Goto(r, state) == request' = [request EXCEPT ![r] = state]

-----------------------------------------------------------------------------
(* Checkout: POST /api/payments/orders. *)

KeyTaken(k) == \E o \in DOMAIN orders : orders[o].key = k

\* findUnique; an order already there is the answer, and nothing changes.
FindOrder(r, k) ==
  /\ request[r] = Idle
  /\ ~KeyTaken(k)
  /\ Goto(r, At("insertOrder", k, 0, "REQUIRES_ACTION", "PENDING"))
  /\ UNCHANGED <<orders, payments, events, emitted, acked, faults>>

\* Mutation: without @unique on Order.idempotencyKey.
InsertOrder_NotUnique(r) ==
  /\ request[r].at = "insertOrder"
  /\ Goto(r, [request[r] EXCEPT !.at = "insertPayment"])
  /\ UNCHANGED <<orders, payments, events, emitted, acked, faults>>

\* tx.order.create waits for an uncommitted order under the same key, and
\* fails, with the whole request, on a committed one.
InsertOrder(r) ==
  /\ request[r].at = "insertOrder"
  /\ \A q \in Requests :
       request[q].at = "insertPayment" => request[q].key # request[r].key
  /\ Goto(r, IF KeyTaken(request[r].key)
             THEN Idle
             ELSE [request[r] EXCEPT !.at = "insertPayment"])
  /\ UNCHANGED <<orders, payments, events, emitted, acked, faults>>

\* tx.payment.create and the commit that shows both rows.
InsertPayment(r) ==
  /\ request[r].at = "insertPayment"
  /\ orders' = Append(orders, [key |-> request[r].key, status |-> "PENDING"])
  /\ payments' = Append(payments, "REQUIRES_ACTION")
  /\ Goto(r, Idle)
  /\ UNCHANGED <<events, emitted, acked, faults>>

-----------------------------------------------------------------------------
(* The provider, which is not part of the repository. A payment may fail   *)
(* and be tried again, it succeeds or is cancelled once, and only what     *)
(* succeeded is refunded. Deliveries repeat and overtake each other.       *)

TypesEmitted(o) ==
  {emitted[e].type : e \in {e \in DOMAIN emitted : emitted[e].order = o}}

ProviderAllows(o, type) ==
  IF type = "REFUNDED"
  THEN "SUCCEEDED" \in TypesEmitted(o) /\ type \notin TypesEmitted(o)
  ELSE TypesEmitted(o) \subseteq {"FAILED"}

Emit(o, type) ==
  /\ Len(emitted) < MaxEvents
  /\ ProviderAllows(o, type)
  /\ emitted' = Append(emitted, [order |-> o, type |-> type])
  /\ UNCHANGED <<orders, payments, events, request, acked, faults>>

-----------------------------------------------------------------------------
(* The webhook: POST /api/payments/webhook/mock. The payment an event      *)
(* names is in the database and stays there, so the lookup before the      *)
(* duplicate check always finds it.                                        *)

\* Mutation: the duplicate check looks for any event of the payment.
Recorded_AnyOfPayment(e) ==
  \E i \in DOMAIN events : events[i].key = emitted[e].order

\* paymentEvent.findUnique by provider and event id.
Recorded(e) == \E i \in DOMAIN events : events[i].id = e

\* Delivery of event e, up to the answer of the duplicate check.
Receive(r, e) ==
  /\ request[r] = Idle
  /\ IF Recorded(e)
     THEN acked' = acked \cup {e} /\ UNCHANGED request
     ELSE /\ Goto(r, At("insertEvent", NoKey, e, "REQUIRES_ACTION", "PENDING"))
          /\ UNCHANGED acked
  /\ UNCHANGED <<orders, payments, events, emitted, faults>>

OrderOf(r) == emitted[request[r].event].order
TypeOf(r) == emitted[request[r].event].type

\* Mutation: without @@unique([provider, providerEventId]).
InsertEvent_NotUnique(r) ==
  /\ request[r].at = "insertEvent"
  /\ Goto(r, [request[r] EXCEPT !.at = "updatePayment"])
  /\ UNCHANGED <<orders, payments, events, emitted, acked, faults>>

\* tx.paymentEvent.create: the unique index makes a second transaction for
\* the same event wait, and fails it once the first has committed.
InsertEvent(r) ==
  /\ request[r].at = "insertEvent"
  /\ \A q \in Requests :
       request[q].at \in {"updatePayment", "updateOrder", "commit"} =>
         request[q].event # request[r].event
  /\ Goto(r, IF Recorded(request[r].event)
             THEN Idle
             ELSE [request[r] EXCEPT !.at = "updatePayment"])
  /\ UNCHANGED <<orders, payments, events, emitted, acked, faults>>

\* tx.payment.update takes the row lock another transaction may hold.
UpdatePayment(r) ==
  /\ request[r].at = "updatePayment"
  /\ \A q \in Requests :
       request[q].at \in {"updateOrder", "commit"} => OrderOf(q) # OrderOf(r)
  /\ Goto(r, [request[r] EXCEPT !.at = "updateOrder", !.payment = TypeOf(r)])
  /\ UNCHANGED <<orders, payments, events, emitted, acked, faults>>

\* Mutation: a cancelled payment leaves the order open.
OrderStatusFor_CancelIgnored(type) ==
  CASE type = "SUCCEEDED" -> "PAID"
    [] type = "CANCELLED" -> "PENDING"
    [] OTHER -> type

\* Mutation: the order takes the payment's status.
OrderStatusFor_Same(type) == type

\* The order's status for each event type.
OrderStatusFor(type) == IF type = "SUCCEEDED" THEN "PAID" ELSE type

UpdateOrder(r) ==
  /\ request[r].at = "updateOrder"
  /\ \A q \in Requests : request[q].at = "commit" => OrderOf(q) # OrderOf(r)
  /\ Goto(r, [request[r] EXCEPT !.at = "commit", !.order = OrderStatusFor(TypeOf(r))])
  /\ UNCHANGED <<orders, payments, events, emitted, acked, faults>>

EventRow(r) == [key |-> OrderOf(r), id |-> request[r].event, type |-> TypeOf(r)]

\* The transaction becomes visible as a whole.
Commit(r) ==
  /\ request[r].at = "commit"
  /\ events' = Append(events, EventRow(r))
  /\ orders' = [orders EXCEPT ![OrderOf(r)].status = request[r].order]
  /\ payments' = [payments EXCEPT ![OrderOf(r)] = request[r].payment]
  /\ Goto(r, [request[r] EXCEPT !.at = "reply"])
  /\ UNCHANGED <<emitted, acked, faults>>

Reply(r) ==
  /\ request[r].at = "reply"
  /\ acked' = acked \cup {request[r].event}
  /\ Goto(r, Idle)
  /\ UNCHANGED <<orders, payments, events, emitted, faults>>

\* The process dies, the database drops the connection or Prisma's
\* transaction time-out passes: what was staged is rolled back, and a request
\* that had committed loses its reply.
Abort(r) ==
  /\ request[r] # Idle
  /\ faults < MaxFaults
  /\ faults' = faults + 1
  /\ Goto(r, Idle)
  /\ UNCHANGED <<orders, payments, events, emitted, acked>>

-----------------------------------------------------------------------------
Continue(r) ==
  \/ InsertOrder(r)
  \/ InsertPayment(r)
  \/ InsertEvent(r)
  \/ UpdatePayment(r)
  \/ UpdateOrder(r)
  \/ Commit(r)
  \/ Reply(r)

Next ==
  \/ \E r \in Requests, k \in IdempotencyKeys : FindOrder(r, k)
  \/ \E o \in DOMAIN orders, type \in EventTypes : Emit(o, type)
  \/ \E r \in Requests, e \in DOMAIN emitted : Receive(r, e)
  \/ \E r \in Requests : Continue(r)
  \/ \E r \in Requests : Abort(r)

Spec == Init /\ [][Next]_vars

\* A request that has begun keeps running, and the provider delivers an event
\* again and again until it is answered.
Redelivered(e) ==
  \E r \in Requests : e \in DOMAIN emitted \ acked /\ Receive(r, e)

FairSpec ==
  /\ Spec
  /\ \A r \in Requests : WF_vars(Continue(r))
  /\ \A e \in 1 .. MaxEvents : SF_vars(Redelivered(e))

-----------------------------------------------------------------------------
(* Properties. *)

TypeOK ==
  /\ orders \in Seq(Order)
  /\ payments \in Seq(PaymentStatuses)
  /\ events \in Seq(PaymentEvent)
  /\ emitted \in Seq(ProviderEvent)
  /\ request \in [Requests -> Request]
  /\ acked \subseteq DOMAIN emitted
  /\ faults \in 0 .. MaxFaults

\* "Prevents duplicate creation with an idempotency key" (orders/route.ts):
\* however checkouts under one key overlap and abort, one order carries it, so
\* every reply under the key names that order.
OneOrderPerKey ==
  \A o, p \in DOMAIN orders : orders[o].key = orders[p].key => o = p

\* An order and its payment say what the last event committed for them says,
\* however deliveries repeat, overlap, overtake each other and abort; without
\* an event both are as checkout left them.
OrderFollowsEvents ==
  \A o \in DOMAIN orders :
    IF Has(events, o)
    THEN LET last == Latest(events, o).type
         IN  /\ payments[o] = last
             /\ orders[o].status = IF last = "SUCCEEDED" THEN "PAID" ELSE last
    ELSE payments[o] = "REQUIRES_ACTION" /\ orders[o].status = "PENDING"

\* "Enforces idempotency by unique provider event id" (webhook/mock/route.ts):
\* an event is recorded, and so applied, at most once.
EventAppliedOnce ==
  \A i, j \in DOMAIN events : events[i].id = events[j].id => i = j

\* The provider stops delivering an event it got a 200 for, so by then the
\* event must be in the database, as it was emitted.
AckedIsRecorded ==
  \A e \in acked :
    \E i \in DOMAIN events :
      /\ events[i].id = e
      /\ events[i].key = emitted[e].order
      /\ events[i].type = emitted[e].type

\* Every event the provider emits is recorded in the end: neither the
\* duplicate check, nor lock waits, nor aborts lose one for good.
EventsArrive ==
  \A e \in 1 .. MaxEvents :
    e \in DOMAIN emitted ~> \E i \in DOMAIN events : events[i].id = e
=============================================================================
