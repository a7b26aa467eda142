--------------------------- MODULE PaymentsProofs ---------------------------
(***************************************************************************)
(* Safety of checkout and webhook for any number of overlapping requests,  *)
(* idempotency keys, events, repeated deliveries and aborts.               *)
(***************************************************************************)
EXTENDS Payments, LedgerTheorems

\* An event row claimed by a transaction that has not ended.
Claiming == {"updatePayment", "updateOrder", "commit"}

(***************************************************************************)
(* The inductive invariant. The tables belong together; what a request has *)
(* staged comes from its event; and two open transactions never claim the  *)
(* same unique key, which is not in the table yet either.                  *)
(***************************************************************************)
EventMatches(row) ==
  /\ row.id \in DOMAIN emitted
  /\ row.key = emitted[row.id].order
  /\ row.type = emitted[row.id].type

TablesMatch ==
  /\ Len(payments) = Len(orders)
  /\ \A e \in DOMAIN emitted : emitted[e].order \in DOMAIN orders
  /\ \A i \in DOMAIN events : EventMatches(events[i])

RequestFits(q) ==
  /\ q.at \in CheckoutSteps => q.key \in IdempotencyKeys
  /\ q.at = "insertPayment" => ~KeyTaken(q.key)
  /\ q.at \in WebhookSteps => q.event \in DOMAIN emitted
  /\ q.at \in Claiming => ~Recorded(q.event)
  /\ q.at \in {"updateOrder", "commit"} => q.payment = emitted[q.event].type
  /\ q.at = "commit" => q.order = OrderStatusFor(emitted[q.event].type)
  /\ q.at = "reply" => Recorded(q.event)

Apart(p, q) ==
  /\ p.at = "insertPayment" /\ q.at = "insertPayment" => p.key # q.key
  /\ p.at \in Claiming /\ q.at \in Claiming => p.event # q.event

RequestsFit == \A r \in Requests : RequestFits(request[r])

RequestsApart == \A r, q \in Requests : r # q => Apart(request[r], request[q])

IInv ==
  /\ TypeOK
  /\ TablesMatch
  /\ RequestsFit
  /\ RequestsApart
  /\ OneOrderPerKey
  /\ OrderFollowsEvents
  /\ EventAppliedOnce
  /\ \A e \in acked : Recorded(e)

LEMMA IdleIsFit == Idle \in Request /\ RequestFits(Idle) /\ \A q : Apart(Idle, q)
  BY DEF Idle, At, Request, RequestFits, Apart, Claiming, CheckoutSteps, WebhookSteps,
         PaymentStatuses, OrderStatuses, EventTypes

LEMMA RowTypes ==
  ASSUME IInv
  PROVE  /\ \A o \in DOMAIN orders : o \in Nat /\ orders[o] \in Order
         /\ \A e \in DOMAIN emitted : emitted[e] \in ProviderEvent
  BY ElementOfSeq, LenProperties DEF IInv, TypeOK

(***************************************************************************)
(* A step that moves one request and leaves the tables alone.              *)
(***************************************************************************)
LEMMA OnlyARequestMoves ==
  ASSUME IInv, NEW r \in Requests, NEW state \in Request,
         RequestFits(state),
         \A q \in Requests \ {r} : Apart(state, request[q]),
         Goto(r, state),
         UNCHANGED <<orders, payments, events, emitted>>,
         acked' \subseteq DOMAIN emitted, \A e \in acked' : Recorded(e),
         faults' \in 0 .. MaxFaults
  PROVE  IInv'
<1>1. request \in [Requests -> Request]
  BY DEF IInv, TypeOK, Request
<1>2. /\ request' \in [Requests -> Request]
      /\ request'[r] = state
      /\ \A q \in Requests \ {r} : request'[q] = request[q]
  BY <1>1 DEF Goto
<1>3. TypeOK'
  BY <1>2 DEF IInv, TypeOK, Request
<1>4. \A q : RequestFits(q) <=> RequestFits(q)'
  BY DEF RequestFits, KeyTaken, Recorded
<1>5. RequestsFit'
  BY <1>2, <1>4 DEF IInv, RequestsFit, RequestFits, KeyTaken, Recorded
<1>6. RequestsApart'
  BY <1>2 DEF IInv, RequestsApart, Apart
<1>. QED
  BY <1>3, <1>5, <1>6 DEF IInv, TablesMatch, EventMatches, OneOrderPerKey,
     OrderFollowsEvents, EventAppliedOnce, Recorded

(***************************************************************************)
(* Checkout's commit appends an order and its payment together.            *)
(***************************************************************************)
LEMMA CheckoutCommits ==
  ASSUME IInv, NEW r \in Requests, InsertPayment(r)
  PROVE  IInv'
<1> DEFINE order == [key |-> request[r].key, status |-> "PENDING"]
<1>1. request \in [Requests -> Request] /\ request[r] \in Request
  BY DEF IInv, TypeOK, Request
<1>2. /\ request[r].key \in IdempotencyKeys
      /\ ~KeyTaken(request[r].key)
  BY DEF InsertPayment, IInv, RequestsFit, RequestFits, CheckoutSteps
<1>3. order \in Order /\ "REQUIRES_ACTION" \in PaymentStatuses
  BY <1>2 DEF Order, OrderStatuses, PaymentStatuses
<1>4. /\ orders' \in Seq(Order) /\ payments' \in Seq(PaymentStatuses)
      /\ Len(orders) \in Nat /\ Len(payments) = Len(orders)
      /\ Len(orders') = Len(orders) + 1 /\ Len(payments') = Len(orders) + 1
      /\ \A o \in 1 .. Len(orders) : orders'[o] = orders[o] /\ payments'[o] = payments[o]
      /\ orders'[Len(orders) + 1] = order
      /\ payments'[Len(orders) + 1] = "REQUIRES_ACTION"
  BY <1>3, AppendProperties, LenProperties DEF InsertPayment, IInv, TypeOK, TablesMatch
<1>5. DOMAIN orders = 1 .. Len(orders) /\ DOMAIN orders' = 1 .. Len(orders) + 1
  BY <1>4 DEF IInv, TypeOK
<1>6. /\ request' \in [Requests -> Request]
      /\ request'[r] = Idle
      /\ \A q \in Requests \ {r} : request'[q] = request[q]
  BY <1>1, IdleIsFit DEF InsertPayment, Goto
<1>7. TypeOK'
  BY <1>4, <1>6 DEF IInv, TypeOK, InsertPayment, Request
<1>8. TablesMatch'
  BY <1>4, <1>5 DEF IInv, TablesMatch, EventMatches, InsertPayment
<1>9. \A k : KeyTaken(k)' <=> KeyTaken(k) \/ k = request[r].key
  BY <1>4, <1>5 DEF KeyTaken
<1>10. RequestsFit'
  <2>1. ASSUME NEW q \in Requests \ {r} PROVE RequestFits(request[q])'
    <3>1. request[q].at = "insertPayment" => request[q].key # request[r].key
      BY DEF IInv, RequestsApart, Apart, InsertPayment
    <3>. QED
      BY <1>6, <1>9, <3>1 DEF IInv, RequestsFit, RequestFits, Recorded, InsertPayment
  <2>2. RequestFits(request[r])'
    BY <1>6 DEF RequestFits, Idle, At, Claiming, CheckoutSteps, WebhookSteps
  <2>. QED
    BY <2>1, <2>2 DEF RequestsFit
<1>11. RequestsApart'
  BY <1>6 DEF IInv, RequestsApart, Apart, Idle, At, Claiming
<1>12. OneOrderPerKey'
  BY <1>2, <1>4, <1>5 DEF IInv, OneOrderPerKey, KeyTaken
<1>13. OrderFollowsEvents'
  <2>1. ~Has(events, Len(orders) + 1)
    <3>1. \A i \in DOMAIN events : events[i].key \in 1 .. Len(orders)
      BY <1>5 DEF IInv, TablesMatch, EventMatches
    <3>2. \A i \in 1 .. Len(events) : events[i].key # Len(orders) + 1
      BY <1>4, <3>1 DEF IInv, TypeOK
    <3>. QED
      BY <3>2, LatestIndexProperties DEF Has, IInv, TypeOK
  <2>. QED
    BY <1>4, <1>5, <2>1 DEF IInv, OrderFollowsEvents, InsertPayment
<1>. QED
  BY <1>7, <1>8, <1>10, <1>11, <1>12, <1>13
     DEF IInv, InsertPayment, EventAppliedOnce, Recorded

(***************************************************************************)
(* The provider's next event changes no earlier one.                       *)
(***************************************************************************)
LEMMA ProviderEmits ==
  ASSUME IInv, NEW o \in DOMAIN orders, NEW type \in EventTypes, Emit(o, type)
  PROVE  IInv'
<1> DEFINE event == [order |-> o, type |-> type]
<1>1. event \in ProviderEvent
  BY DEF IInv, TypeOK, ProviderEvent
<1>2. /\ emitted' \in Seq(ProviderEvent)
      /\ DOMAIN emitted = 1 .. Len(emitted) /\ Len(emitted) \in Nat
      /\ DOMAIN emitted' = 1 .. Len(emitted) + 1
      /\ \A e \in DOMAIN emitted : emitted'[e] = emitted[e]
      /\ emitted'[Len(emitted) + 1] = event
  BY <1>1, AppendProperties, LenProperties DEF Emit, IInv, TypeOK
<1>3. TypeOK'
  BY <1>2 DEF IInv, TypeOK, Emit
<1>4. TablesMatch'
  BY <1>2 DEF IInv, TablesMatch, EventMatches, Emit
<1>5. RequestsFit'
  <2>1. ASSUME NEW q \in Requests PROVE RequestFits(request[q])'
    <3>1. request[q].at \in {"updateOrder", "commit"} => request[q].event \in DOMAIN emitted
      BY DEF IInv, RequestsFit, RequestFits, WebhookSteps
    <3>. QED
      BY <1>2, <3>1 DEF IInv, RequestsFit, RequestFits, KeyTaken, Recorded, Emit
  <2>. QED
    BY <2>1 DEF RequestsFit
<1>. QED
  BY <1>3, <1>4, <1>5 DEF IInv, RequestsApart, Apart, OneOrderPerKey,
     OrderFollowsEvents, EventAppliedOnce, Recorded, Emit

(***************************************************************************)
(* The webhook's commit records an event no other row carries, and shows   *)
(* the order and the payment as that event leaves them.                    *)
(***************************************************************************)
LEMMA WebhookCommits ==
  ASSUME IInv, NEW r \in Requests, Commit(r)
  PROVE  IInv'
<1> DEFINE row == EventRow(r)
           e == request[r].event
           o == emitted[e].order
<1>1. request \in [Requests -> Request] /\ request[r] \in Request
  BY DEF IInv, TypeOK, Request
<1>2. /\ e \in DOMAIN emitted
      /\ ~Recorded(e)
      /\ request[r].payment = emitted[e].type
      /\ request[r].order = OrderStatusFor(emitted[e].type)
  BY DEF Commit, IInv, RequestsFit, RequestFits, WebhookSteps, Claiming
<1>3. o \in DOMAIN orders /\ emitted[e].type \in EventTypes /\ o \in Nat
  BY <1>2, RowTypes DEF IInv, TablesMatch, ProviderEvent
<1>4. row \in PaymentEvent /\ row.key = o /\ row.id = e /\ row.type = emitted[e].type
  BY <1>1, <1>3 DEF EventRow, OrderOf, TypeOf, PaymentEvent, Request
<1>5. /\ events' \in Seq(PaymentEvent)
      /\ Len(events) \in Nat /\ DOMAIN events = 1 .. Len(events)
      /\ DOMAIN events' = 1 .. Len(events) + 1
      /\ \A i \in DOMAIN events : events'[i] = events[i]
      /\ events'[Len(events) + 1] = row
  BY <1>4, AppendProperties, LenProperties DEF Commit, IInv, TypeOK
<1>6. /\ orders' \in Seq(Order) /\ payments' \in Seq(PaymentStatuses)
      /\ DOMAIN orders' = DOMAIN orders /\ Len(orders') = Len(orders)
      /\ DOMAIN payments = DOMAIN orders /\ Len(payments') = Len(payments)
      /\ \A p \in DOMAIN orders : orders'[p].key = orders[p].key
      /\ \A p \in DOMAIN orders \ {o} : orders'[p] = orders[p] /\ payments'[p] = payments[p]
      /\ orders'[o].status = request[r].order
      /\ payments'[o] = request[r].payment
  <2>1. request[r].order \in OrderStatuses /\ request[r].payment \in PaymentStatuses
    BY <1>1 DEF Request
  <2>2. orders \in Seq(Order) /\ payments \in Seq(PaymentStatuses)
        /\ Len(payments) = Len(orders)
    BY DEF IInv, TypeOK, TablesMatch
  <2>3. OrderOf(r) = o
    BY DEF OrderOf
  <2>4. [orders[o] EXCEPT !.status = request[r].order] \in Order
    BY <1>3, <2>1, RowTypes DEF Order
  <2>. QED
    BY <1>3, <2>1, <2>2, <2>3, <2>4 DEF Commit, Order
<1>7. /\ request' \in [Requests -> Request]
      /\ request'[r] = [request[r] EXCEPT !.at = "reply"]
      /\ \A q \in Requests \ {r} : request'[q] = request[q]
  BY <1>1 DEF Commit, Goto, Request, WebhookSteps
<1>8. TypeOK'
  BY <1>5, <1>6, <1>7 DEF IInv, TypeOK, Commit, Request
<1>9. TablesMatch'
  BY <1>2, <1>4, <1>5, <1>6 DEF IInv, TablesMatch, EventMatches, Commit
<1>10. \A x : Recorded(x)' <=> Recorded(x) \/ x = e
  BY <1>4, <1>5 DEF Recorded
<1>11. \A k : KeyTaken(k)' <=> KeyTaken(k)
  BY <1>6 DEF KeyTaken
<1>12. RequestsFit'
  <2>1. ASSUME NEW q \in Requests \ {r} PROVE RequestFits(request[q])'
    <3>1. request[q].at \in Claiming => request[q].event # e
      BY DEF IInv, RequestsApart, Apart, Commit, Claiming
    <3>. QED
      BY <1>7, <1>10, <1>11, <3>1 DEF IInv, RequestsFit, RequestFits, Commit
  <2>2. RequestFits(request[r])'
    BY <1>1, <1>2, <1>7, <1>10 DEF RequestFits, Claiming, CheckoutSteps, Request, Commit
  <2>. QED
    BY <2>1, <2>2 DEF RequestsFit
<1>13. RequestsApart'
  BY <1>1, <1>7 DEF IInv, RequestsApart, Apart, Claiming, Request
<1>14. OneOrderPerKey'
  BY <1>6 DEF IInv, OneOrderPerKey
<1>15. OrderFollowsEvents'
  <2>1. \A p : /\ Has(events', p) <=> o = p \/ Has(events, p)
               /\ o = p => Latest(events', p) = row
               /\ o # p /\ Has(events, p) => Latest(events', p) = Latest(events, p)
    BY <1>4, LatestAppend DEF Commit, IInv, TypeOK
  <2>2. ASSUME NEW p \in DOMAIN orders', Has(events', p)
        PROVE  /\ payments'[p] = Latest(events', p).type
               /\ orders'[p].status = OrderStatusFor(Latest(events', p).type)
    BY <1>2, <1>4, <1>6, <2>1, <2>2 DEF IInv, OrderFollowsEvents, OrderStatusFor
  <2>3. ASSUME NEW p \in DOMAIN orders', ~Has(events', p)
        PROVE  payments'[p] = "REQUIRES_ACTION" /\ orders'[p].status = "PENDING"
    BY <1>6, <2>1, <2>3 DEF IInv, OrderFollowsEvents
  <2>. QED
    BY <2>2, <2>3 DEF OrderFollowsEvents, OrderStatusFor
<1>16. EventAppliedOnce'
  BY <1>2, <1>4, <1>5 DEF IInv, EventAppliedOnce, Recorded
<1>. QED
  BY <1>8, <1>9, <1>10, <1>12, <1>13, <1>14, <1>15, <1>16 DEF IInv, Commit

(***************************************************************************)
(* The invariant holds at the start and is kept by every step.             *)
(***************************************************************************)
LEMMA InitIInv ==
  Init => IInv
<1> SUFFICES ASSUME Init PROVE IInv
  OBVIOUS
<1>1. TypeOK
  BY IdleIsFit, PaymentsAssumption DEF Init, TypeOK, Request
<1>2. RequestsFit /\ RequestsApart
  BY IdleIsFit DEF Init, RequestsFit, RequestsApart
<1>. QED
  BY <1>1, <1>2 DEF Init, IInv, TablesMatch, OneOrderPerKey, OrderFollowsEvents, EventAppliedOnce

LEMMA NextIInv ==
  IInv /\ [Next]_vars => IInv'
<1> SUFFICES ASSUME IInv, [Next]_vars PROVE IInv'
  OBVIOUS
<1>1. request \in [Requests -> Request] /\ faults \in 0 .. MaxFaults /\ acked \subseteq DOMAIN emitted
      /\ (\A e \in acked : Recorded(e)) /\ DOMAIN emitted \subseteq Nat
  BY DEF IInv, TypeOK, Request
<1>2. ASSUME NEW r \in Requests, NEW k \in IdempotencyKeys, FindOrder(r, k) PROVE IInv'
  <2> DEFINE state == At("insertOrder", k, 0, "REQUIRES_ACTION", "PENDING")
  <2>1. state \in Request /\ RequestFits(state) /\ \A q : Apart(state, q)
    BY DEF At, Request, RequestFits, Apart, Claiming, CheckoutSteps, WebhookSteps,
           PaymentStatuses, OrderStatuses
  <2>. HIDE DEF state
  <2>. QED
    BY <1>1, <1>2, <2>1, OnlyARequestMoves DEF FindOrder, state
<1>3. ASSUME NEW r \in Requests, NEW e \in DOMAIN emitted, Receive(r, e) PROVE IInv'
  <2> DEFINE state == At("insertEvent", NoKey, e, "REQUIRES_ACTION", "PENDING")
  <2>1. state \in Request /\ RequestFits(state) /\ \A q : Apart(state, q)
    BY <1>1 DEF At, Request, RequestFits, Apart, Claiming, CheckoutSteps, WebhookSteps,
           PaymentStatuses, OrderStatuses
  <2>2. CASE Recorded(e)
    <3>1. Goto(r, Idle)
      BY <1>1, <1>3, <2>2 DEF Receive, Goto
    <3>. QED
      BY <1>1, <1>3, <2>2, <3>1, IdleIsFit, OnlyARequestMoves DEF Receive
  <2>3. CASE ~Recorded(e)
    <3>. HIDE DEF state
    <3>. QED
      BY <1>1, <1>3, <2>1, <2>3, OnlyARequestMoves DEF Receive, state
  <2>. QED
    BY <2>2, <2>3
<1>4. ASSUME NEW r \in Requests, InsertOrder(r) PROVE IInv'
  <2> DEFINE state == [request[r] EXCEPT !.at = "insertPayment"]
  <2>1. request[r].at \in CheckoutSteps
    BY <1>4 DEF InsertOrder, CheckoutSteps
  <2>2. state \in Request /\ state.at = "insertPayment" /\ state.key = request[r].key
    BY <1>1 DEF Request, CheckoutSteps
  <2>3. ~KeyTaken(request[r].key) => RequestFits(state)
    BY <2>1, <2>2 DEF IInv, RequestsFit, RequestFits, CheckoutSteps, WebhookSteps, Claiming
  <2>4. \A q \in Requests : Apart(state, request[q])
    BY <1>4, <2>2 DEF InsertOrder, Apart, Claiming
  <2>. HIDE DEF state
  <2>5. CASE KeyTaken(request[r].key)
    BY <1>1, <1>4, <2>5, IdleIsFit, OnlyARequestMoves DEF InsertOrder
  <2>6. CASE ~KeyTaken(request[r].key)
    <3>1. Goto(r, state)
      BY <1>4, <2>6 DEF InsertOrder, state
    <3>. QED
      BY <1>1, <1>4, <2>2, <2>3, <2>4, <2>6, <3>1, OnlyARequestMoves DEF InsertOrder
  <2>. QED
    BY <2>5, <2>6
<1>5. ASSUME NEW r \in Requests, InsertEvent(r) PROVE IInv'
  <2> DEFINE state == [request[r] EXCEPT !.at = "updatePayment"]
  <2>1. state \in Request /\ state.at = "updatePayment" /\ state.event = request[r].event
    BY <1>1 DEF Request, WebhookSteps
  <2>2. request[r].event \in DOMAIN emitted
    BY <1>5 DEF InsertEvent, IInv, RequestsFit, RequestFits, WebhookSteps
  <2>3. ~Recorded(request[r].event) => RequestFits(state)
    BY <2>1, <2>2 DEF RequestFits, CheckoutSteps
  <2>4. \A q \in Requests : Apart(state, request[q])
    BY <1>5, <2>1 DEF InsertEvent, Apart, Claiming
  <2>. HIDE DEF state
  <2>5. CASE Recorded(request[r].event)
    BY <1>1, <1>5, <2>5, IdleIsFit, OnlyARequestMoves DEF InsertEvent
  <2>6. CASE ~Recorded(request[r].event)
    <3>1. Goto(r, state)
      BY <1>5, <2>6 DEF InsertEvent, state
    <3>. QED
      BY <1>1, <1>5, <2>1, <2>3, <2>4, <2>6, <3>1, OnlyARequestMoves DEF InsertEvent
  <2>. QED
    BY <2>5, <2>6
<1>6. ASSUME NEW r \in Requests, UpdatePayment(r) PROVE IInv'
  <2> DEFINE state == [request[r] EXCEPT !.at = "updateOrder", !.payment = TypeOf(r)]
  <2>1. /\ request[r].at \in WebhookSteps \cap Claiming
        /\ request[r].event \in DOMAIN emitted /\ ~Recorded(request[r].event)
    BY <1>6 DEF UpdatePayment, IInv, RequestsFit, RequestFits, WebhookSteps, Claiming
  <2>2. TypeOf(r) \in PaymentStatuses
    BY <2>1, RowTypes DEF TypeOf, ProviderEvent, PaymentStatuses
  <2>3. /\ state \in Request /\ state.at = "updateOrder" /\ state.event = request[r].event
        /\ state.payment = TypeOf(r)
    BY <1>1, <2>2 DEF Request, WebhookSteps
  <2>4. RequestFits(state)
    BY <2>1, <2>3 DEF RequestFits, CheckoutSteps, TypeOf
  <2>5. \A q \in Requests \ {r} : Apart(state, request[q])
    BY <2>1, <2>3 DEF IInv, RequestsApart, Apart
  <2>. HIDE DEF state
  <2>6. Goto(r, state)
    BY <1>6 DEF UpdatePayment, state
  <2>. QED
    BY <1>1, <1>6, <2>3, <2>4, <2>5, <2>6, OnlyARequestMoves DEF UpdatePayment
<1>7. ASSUME NEW r \in Requests, UpdateOrder(r) PROVE IInv'
  <2> DEFINE new == OrderStatusFor(TypeOf(r))
             state == [request[r] EXCEPT !.at = "commit", !.order = new]
  <2>1. /\ request[r].at \in WebhookSteps \cap Claiming
        /\ request[r].event \in DOMAIN emitted /\ ~Recorded(request[r].event)
        /\ request[r].payment = TypeOf(r)
    BY <1>7 DEF UpdateOrder, IInv, RequestsFit, RequestFits, WebhookSteps, Claiming, TypeOf
  <2>2. new \in OrderStatuses
    <3>1. TypeOf(r) \in EventTypes
      BY <2>1, RowTypes DEF TypeOf, ProviderEvent
    <3>. QED
      BY <3>1 DEF OrderStatusFor, OrderStatuses, EventTypes
  <2>3. /\ state \in Request /\ state.at = "commit" /\ state.event = request[r].event
        /\ state.payment = TypeOf(r) /\ state.order = new
    BY <1>1, <2>1, <2>2 DEF Request, WebhookSteps
  <2>4. RequestFits(state)
    BY <2>1, <2>3 DEF RequestFits, CheckoutSteps, TypeOf
  <2>5. \A q \in Requests \ {r} : Apart(state, request[q])
    BY <2>1, <2>3 DEF IInv, RequestsApart, Apart
  <2>. HIDE DEF state
  <2>6. Goto(r, state)
    BY <1>7 DEF UpdateOrder, state
  <2>. QED
    BY <1>1, <1>7, <2>3, <2>4, <2>5, <2>6, OnlyARequestMoves DEF UpdateOrder
<1>8. ASSUME NEW r \in Requests, Reply(r) PROVE IInv'
  <2>1. request[r].event \in DOMAIN emitted /\ Recorded(request[r].event)
    BY <1>8 DEF Reply, IInv, RequestsFit, RequestFits, WebhookSteps
  <2>. QED
    BY <1>1, <1>8, <2>1, IdleIsFit, OnlyARequestMoves DEF Reply
<1>9. ASSUME NEW r \in Requests, Abort(r) PROVE IInv'
  <2>1. faults' \in 0 .. MaxFaults
    BY <1>1, <1>9, PaymentsAssumption DEF Abort
  <2>. QED
    BY <1>1, <1>9, <2>1, IdleIsFit, OnlyARequestMoves DEF Abort
<1>10. CASE UNCHANGED vars
  BY <1>10 DEF vars, IInv, TypeOK, TablesMatch, EventMatches, RequestsFit, RequestFits,
     KeyTaken, Recorded, RequestsApart, Apart, OneOrderPerKey, OrderFollowsEvents,
     EventAppliedOnce
<1>. QED
  BY <1>2, <1>3, <1>4, <1>5, <1>6, <1>7, <1>8, <1>9, <1>10,
     CheckoutCommits, ProviderEmits, WebhookCommits DEF Next, Continue

LEMMA PaymentsInvariant == Spec => []IInv
<1>1. Init => IInv
  BY InitIInv
<1>2. IInv /\ [Next]_vars => IInv'
  BY NextIInv
<1>. QED
  BY <1>1, <1>2, PTL DEF Spec

-----------------------------------------------------------------------------
\* Every reachable state of the payment tables and requests is well typed.
THEOREM PaymentsTypeCorrect == Spec => []TypeOK
<1>1. IInv => TypeOK
  BY DEF IInv
<1>. QED
  BY <1>1, PaymentsInvariant, PTL

\* However many checkouts under one key overlap and abort, one order carries it.
THEOREM OneOrderForEachKey == Spec => []OneOrderPerKey
<1>1. IInv => OneOrderPerKey
  BY DEF IInv
<1>. QED
  BY <1>1, PaymentsInvariant, PTL

\* Order and payment always say what their last committed event says.
THEOREM OrderAndPaymentAgree == Spec => []OrderFollowsEvents
<1>1. IInv => OrderFollowsEvents
  BY DEF IInv
<1>. QED
  BY <1>1, PaymentsInvariant, PTL

\* However often an event is delivered, and however its deliveries overlap, it
\* is applied at most once.
THEOREM EveryEventCountsOnce == Spec => []EventAppliedOnce
<1>1. IInv => EventAppliedOnce
  BY DEF IInv
<1>. QED
  BY <1>1, PaymentsInvariant, PTL

\* What the provider was told is done is in the database.
THEOREM NoAckedEventIsLost == Spec => []AckedIsRecorded
<1>1. IInv => AckedIsRecorded
  BY DEF IInv, AckedIsRecorded, Recorded, TablesMatch, EventMatches
<1>. QED
  BY <1>1, PaymentsInvariant, PTL
=============================================================================
