------------------------- MODULE DeviceBindingProofs -------------------------
(***************************************************************************)
(* Safety of the device ledger for any number of phones, overlapping       *)
(* calls, devices, crashes and failed reads.                               *)
(***************************************************************************)
EXTENDS DeviceBinding, LedgerTheorems

Rows == Seq(Row)

(***************************************************************************)
(* The last activation, as LatestIndex for a key.                          *)
(***************************************************************************)
LEMMA LastActivationIs ==
  ASSUME NEW rows \in Rows, NEW i \in 1 .. Len(rows), rows[i].type = "activate",
         \A j \in 1 .. Len(rows) : rows[j].type = "activate" => j <= i
  PROVE  LastActivation(rows) = i
<1> DEFINE I == {j \in 1 .. Len(rows) : rows[j].type = "activate"}
<1>1. i \in I /\ \A j \in I : i >= j
  BY LenProperties DEF Rows
<1>2. Max(I) = i
  BY <1>1 DEF Max
<1>. QED
  BY <1>1, <1>2 DEF LastActivation, SelectLastInSeq

LEMMA LastActivationProperties ==
  ASSUME NEW rows \in Rows
  PROVE  /\ LastActivation(rows) \in 0 .. Len(rows)
         /\ LastActivation(rows) = 0 =>
              \A j \in 1 .. Len(rows) : rows[j].type # "activate"
         /\ LastActivation(rows) # 0 => rows[LastActivation(rows)].type = "activate"
         /\ \A j \in 1 .. Len(rows) : rows[j].type = "activate" => j <= LastActivation(rows)
<1> DEFINE I == {j \in 1 .. Len(rows) : rows[j].type = "activate"}
<1>0. Len(rows) \in Nat
  BY LenProperties DEF Rows
<1>1. CASE I = {}
  <2>1. LastActivation(rows) = 0
    BY <1>1 DEF LastActivation, SelectLastInSeq
  <2>. QED
    BY <1>0, <1>1, <2>1
<1>2. CASE I # {}
  <2>1. PICK i \in I : \A j \in I : j <= i
    BY <1>0, <1>2, GreatestPosition
  <2>2. LastActivation(rows) = i
    BY <2>1, LastActivationIs
  <2>. QED
    BY <1>0, <2>1, <2>2
<1>. QED
  BY <1>1, <1>2

LEMMA RowFields ==
  ASSUME NEW row \in Row
  PROVE  /\ row.type \in {"register", "activate", "revoke"}
         /\ row.device \in Devices /\ row.device # NoDevice /\ row.device \in Nat
         /\ row.epoch \in Nat
  BY DeviceAssumption DEF Row, Devices, NoDevice

LEMMA Appended ==
  ASSUME NEW rows \in Rows, NEW row \in Row
  PROVE  /\ Append(rows, row) \in Rows
         /\ Len(rows) \in Nat
         /\ Len(Append(rows, row)) = Len(rows) + 1
         /\ Append(rows, row)[Len(rows) + 1] = row
         /\ \A j \in 1 .. Len(rows) : Append(rows, row)[j] = rows[j] /\ rows[j] \in Row
  BY AppendProperties, LenProperties, ElementOfSeq DEF Rows

LEMMA LastActivationAppend ==
  ASSUME NEW rows \in Rows, NEW row \in Row
  PROVE  LastActivation(Append(rows, row)) =
           IF row.type = "activate" THEN Len(rows) + 1 ELSE LastActivation(rows)
<1> DEFINE new == Append(rows, row)
<1>1. /\ new \in Rows /\ Len(rows) \in Nat
      /\ Len(new) = Len(rows) + 1 /\ new[Len(rows) + 1] = row
      /\ \A j \in 1 .. Len(rows) : new[j] = rows[j]
  BY Appended
<1> HIDE DEF new
<1>2. CASE row.type = "activate"
  <2>1. LastActivation(new) = Len(rows) + 1
    BY <1>1, <1>2, LastActivationIs
  <2>. QED
    BY <1>2, <2>1 DEF new
<1>3. CASE row.type # "activate"
  <2>1. {j \in 1 .. Len(new) : new[j].type = "activate"}
          = {j \in 1 .. Len(rows) : rows[j].type = "activate"}
    BY <1>1, <1>3
  <2>. QED
    BY <1>3, <2>1 DEF LastActivation, SelectLastInSeq, new
<1>. QED
  BY <1>2, <1>3

(***************************************************************************)
(* The active device: an activation sets it, and a revocation of it, and   *)
(* of it only, clears it.                                                  *)
(***************************************************************************)
LEMMA ActiveIsADevice ==
  ASSUME NEW rows \in Rows
  PROVE  /\ Active(rows) \in Devices \cup {NoDevice}
         /\ Active(rows) # NoDevice =>
              /\ LastActivation(rows) \in 1 .. Len(rows)
              /\ rows[LastActivation(rows)].device = Active(rows)
<1>1. LastActivation(rows) \in 0 .. Len(rows) /\ Len(rows) \in Nat
  BY LastActivationProperties, LenProperties DEF Rows
<1>2. LastActivation(rows) # 0 => rows[LastActivation(rows)] \in Row
  BY <1>1, ElementOfSeq DEF Rows
<1>. QED
  BY <1>1, <1>2, RowFields DEF Active

LEMMA ActiveAppend ==
  ASSUME NEW rows \in Rows, NEW row \in Row
  PROVE  Active(Append(rows, row)) =
           CASE row.type = "activate" -> row.device
             [] row.type = "register" -> Active(rows)
             [] row.type = "revoke" ->
                  IF row.device = Active(rows) THEN NoDevice ELSE Active(rows)
<1> DEFINE new == Append(rows, row)
           last == LastActivation(rows)
<1>1. /\ new \in Rows /\ Len(rows) \in Nat
      /\ Len(new) = Len(rows) + 1 /\ new[Len(rows) + 1] = row
      /\ \A j \in 1 .. Len(rows) : new[j] = rows[j]
  BY Appended
<1>2. LastActivation(new) = IF row.type = "activate" THEN Len(rows) + 1 ELSE last
  BY LastActivationAppend
<1>3. last \in 0 .. Len(rows)
  BY LastActivationProperties
<1>4. row.type \in {"register", "activate", "revoke"} /\ row.device # NoDevice
  BY RowFields
<1>5. last # 0 => rows[last].device # NoDevice
  BY <1>3, RowFields, Appended
<1> HIDE DEF new, last
<1>6. CASE row.type = "activate"
  <2>1. ~RevokedAfter(new, Len(rows) + 1, row.device)
    BY <1>1 DEF RevokedAfter
  <2>2. Active(new) = row.device
    BY <1>1, <1>2, <1>6, <2>1 DEF Active
  <2>. QED
    BY <1>6, <2>2 DEF new
<1>7. CASE row.type # "activate"
  <2>1. LastActivation(new) = last
    BY <1>2, <1>7
  <2>2. ASSUME NEW d
        PROVE  RevokedAfter(new, last, d)
                 <=> RevokedAfter(rows, last, d) \/ (row.type = "revoke" /\ row.device = d)
    <3>1. \A j \in last + 1 .. Len(new) : j \in last + 1 .. Len(rows) \/ j = Len(rows) + 1
      BY <1>1, <1>3
    <3>2. \A j \in last + 1 .. Len(rows) : j \in 1 .. Len(rows) /\ j \in last + 1 .. Len(new)
      BY <1>1, <1>3
    <3>3. Len(rows) + 1 \in last + 1 .. Len(new)
      BY <1>1, <1>3
    <3>. QED
      BY <1>1, <3>1, <3>2, <3>3 DEF RevokedAfter
  <2>3. last # 0 => new[last] = rows[last]
    BY <1>1, <1>3
  <2>4. Active(new) = IF row.type = "revoke" /\ row.device = Active(rows)
                      THEN NoDevice ELSE Active(rows)
    BY <1>4, <1>5, <2>1, <2>2, <2>3 DEF Active, last
  <2>. QED
    BY <1>4, <1>7, <2>4 DEF new
<1>. QED
  BY <1>6, <1>7

(***************************************************************************)
(* Epochs are numbers: by induction on the ledger's prefixes, as the least *)
(* prefix without a highest epoch cannot exist.                            *)
(***************************************************************************)
LEMMA EpochIsNat ==
  ASSUME NEW rows \in Rows
  PROVE  Epoch(rows) \in Nat
<1> DEFINE UpTo(n) == {0} \cup {rows[i].epoch : i \in 1 .. n}
           HasMax(n) == \E m \in UpTo(n) : \A e \in UpTo(n) : m >= e
           Bad == {n \in 1 .. Len(rows) : ~HasMax(n)}
<1>1. Len(rows) \in Nat /\ \A i \in 1 .. Len(rows) : rows[i].epoch \in Nat
  BY LenProperties, ElementOfSeq, RowFields DEF Rows
<1>2. HasMax(0)
  BY 0 >= 0
<1>3. Bad = {}
  <2>1. SUFFICES ASSUME Bad # {} PROVE FALSE
    OBVIOUS
  <2>2. PICK n \in Bad : \A k \in Bad : n <= k
    <3>1. Bad \in SUBSET (1 .. Len(rows))
      OBVIOUS
    <3> HIDE DEF Bad
    <3>. QED
      BY <1>1, <2>1, <3>1, LeastPosition
  <2>3. n \in 1 .. Len(rows) /\ ~HasMax(n)
    OBVIOUS
  <2>4. n - 1 = 0 \/ n - 1 \in 1 .. Len(rows)
    BY <1>1, <2>3
  <2>5. HasMax(n - 1)
    <3>1. CASE n - 1 = 0
      BY <1>2, <3>1
    <3>2. CASE n - 1 \in 1 .. Len(rows)
      <4>1. n - 1 \in Bad => n <= n - 1
        BY <2>2
      <4>2. n - 1 \notin Bad
        <5> HIDE DEF Bad
        <5>. QED
          BY <1>1, <2>3, <4>1
      <4>. QED
        BY <3>2, <4>2
    <3>. QED
      BY <2>4, <3>1, <3>2
  <2>6. PICK m \in UpTo(n - 1) : \A e \in UpTo(n - 1) : m >= e
    BY <2>5
  <2>7. UpTo(n) = UpTo(n - 1) \cup {rows[n].epoch}
    BY <1>1, <2>3
  <2>8. UpTo(n - 1) \subseteq Nat /\ rows[n].epoch \in Nat
    BY <1>1, <2>3
  <2> HIDE DEF UpTo
  <2>9. \E x \in UpTo(n) : \A e \in UpTo(n) : x >= e
    <3>1. CASE m >= rows[n].epoch
      BY <2>6, <2>7, <2>8, <3>1
    <3>2. CASE ~(m >= rows[n].epoch)
      BY <2>6, <2>7, <2>8, <3>2
    <3>. QED
      BY <3>1, <3>2
  <2>. QED
    BY <2>3, <2>9
<1>4. HasMax(Len(rows))
  <2>1. \A k \in 1 .. Len(rows) : HasMax(k)
    BY <1>3
  <2> HIDE DEF HasMax
  <2>2. CASE Len(rows) = 0
    BY <1>2, <2>2
  <2>3. CASE Len(rows) # 0
    BY <1>1, <2>1, <2>3
  <2>. QED
    BY <2>2, <2>3
<1>5. UpTo(Len(rows)) \subseteq Nat
  BY <1>1
<1>6. Epoch(rows) = Max(UpTo(Len(rows)))
  <2>1. DOMAIN rows = 1 .. Len(rows)
    BY LenProperties DEF Rows
  <2>. QED
    BY <2>1 DEF Epoch
<1> HIDE DEF UpTo
<1>. QED
  BY <1>4, <1>5, <1>6 DEF Max

(***************************************************************************)
(* The inductive invariant. A call in flight, and a takeover question, are *)
(* about a device that has registered; and what a call found active is     *)
(* active still, gone, or replaced by an activation the call has not seen. *)
(***************************************************************************)
Registered(rows, d) ==
  \E j \in 1 .. Len(rows) : rows[j].type = "register" /\ rows[j].device = d

ReplacesAtMost(rows, d, seen) ==
  Active(rows) \in {NoDevice, d} \/ LastActivation(rows) > seen

CallOK(q, rows) ==
  q.at # "idle" =>
    /\ q.phone \in Phones /\ q.device \in Devices /\ Registered(rows, q.device)
    /\ q.seen <= Len(rows)
    /\ q.at = "activate" => ReplacesAtMost(rows, q.device, q.seen)
    /\ q.at = "revoke" => q.old \in Devices /\ ReplacesAtMost(rows, q.old, q.seen)

RowsOK(rows) ==
  \A i \in 1 .. Len(rows) : rows[i].type = "activate" =>
    \E j \in 1 .. i - 1 : rows[j].type = "register" /\ rows[j].device = rows[i].device

CallsOK == \A r \in Requests : CallOK(request[r], bindings)

PromptsOK ==
  \A p \in Phones : phone[p].prompt # NoDevice => Registered(bindings, phone[p].prompt)

IInv == TypeOK /\ RowsOK(bindings) /\ CallsOK /\ PromptsOK

(***************************************************************************)
(* Every append keeps what the ledger says of the calls in flight.         *)
(***************************************************************************)
LEMMA RegisteredStays ==
  ASSUME NEW rows \in Rows, NEW row \in Row, NEW d, Registered(rows, d)
  PROVE  Registered(Append(rows, row), d)
<1>1. PICK j \in 1 .. Len(rows) : rows[j].type = "register" /\ rows[j].device = d
  BY DEF Registered
<1>2. j \in 1 .. Len(Append(rows, row)) /\ Append(rows, row)[j] = rows[j]
  BY Appended
<1>. QED
  BY <1>1, <1>2 DEF Registered

LEMMA ReplacesAtMostStays ==
  ASSUME NEW rows \in Rows, NEW row \in Row, NEW d, NEW seen \in Nat,
         seen <= Len(rows), ReplacesAtMost(rows, d, seen)
  PROVE  ReplacesAtMost(Append(rows, row), d, seen)
<1>1. CASE row.type = "activate"
  BY <1>1, LastActivationAppend, Appended DEF ReplacesAtMost
<1>2. CASE row.type # "activate"
  <2>1. LastActivation(Append(rows, row)) = LastActivation(rows)
    BY <1>2, LastActivationAppend
  <2>2. Active(Append(rows, row)) \in {NoDevice, Active(rows)}
    BY <1>2, ActiveAppend, RowFields
  <2>. QED
    BY <2>1, <2>2 DEF ReplacesAtMost
<1>. QED
  BY <1>1, <1>2

LEMMA CallStaysOK ==
  ASSUME NEW rows \in Rows, NEW row \in Row, NEW q \in Request, CallOK(q, rows)
  PROVE  CallOK(q, Append(rows, row))
<1>1. q.seen \in Nat /\ Len(rows) \in Nat /\ Len(Append(rows, row)) = Len(rows) + 1
  BY Appended DEF Request
<1>. QED
  BY <1>1, RegisteredStays, ReplacesAtMostStays DEF CallOK

LEMMA RowsStayOK ==
  ASSUME NEW rows \in Rows, NEW row \in Row, RowsOK(rows),
         row.type = "activate" => Registered(rows, row.device)
  PROVE  RowsOK(Append(rows, row))
<1> DEFINE new == Append(rows, row)
<1>1. /\ Len(rows) \in Nat /\ Len(new) = Len(rows) + 1 /\ new[Len(rows) + 1] = row
      /\ \A j \in 1 .. Len(rows) : new[j] = rows[j]
  BY Appended
<1> HIDE DEF new
<1>2. SUFFICES ASSUME NEW i \in 1 .. Len(new), new[i].type = "activate"
               PROVE  \E j \in 1 .. i - 1 :
                        new[j].type = "register" /\ new[j].device = new[i].device
  BY DEF RowsOK, new
<1>3. CASE i = Len(rows) + 1
  BY <1>1, <1>2, <1>3 DEF Registered
<1>4. CASE i \in 1 .. Len(rows)
  <2>1. PICK j \in 1 .. i - 1 : rows[j].type = "register" /\ rows[j].device = rows[i].device
    BY <1>1, <1>2, <1>4 DEF RowsOK
  <2>2. j \in 1 .. Len(rows)
    BY <1>1, <1>4
  <2>. QED
    BY <1>1, <1>4, <2>1, <2>2
<1>. QED
  BY <1>1, <1>3, <1>4

LEMMA IdleIsOK == Idle \in Request /\ \A rows : CallOK(Idle, rows)
  BY DEF Idle, Call, Request, CallOK, Steps

LEMMA CallFields ==
  ASSUME NEW step \in Steps, NEW p \in Phones \cup {NoPhone}, NEW d \in Devices \cup {NoDevice},
         NEW old \in Devices \cup {NoDevice}, NEW e \in Nat, NEW seen \in Nat
  PROVE  /\ Call(step, p, d, old, e, seen) \in Request
         /\ Call(step, p, d, old, e, seen).at = step
         /\ Call(step, p, d, old, e, seen).phone = p
         /\ Call(step, p, d, old, e, seen).device = d
         /\ Call(step, p, d, old, e, seen).old = old
         /\ Call(step, p, d, old, e, seen).seen = seen
  BY DEF Call, Request

LEMMA EventFields ==
  ASSUME NEW t \in {"register", "activate", "revoke"}, NEW d \in Devices, NEW e \in Nat
  PROVE  /\ Event(t, d, e) \in Row
         /\ Event(t, d, e).type = t /\ Event(t, d, e).device = d
  BY DEF Event, Row

\* What a read returns: the ledger, or nothing.
LEMMA ReadIsAPrefix ==
  ASSUME NEW rows \in Rows, NEW readable \in BOOLEAN
  PROVE  /\ ReadRows(rows, readable) \in Rows
         /\ Len(ReadRows(rows, readable)) \in Nat
         /\ Len(ReadRows(rows, readable)) <= Len(rows)
         /\ Epoch(ReadRows(rows, readable)) \in Nat
         /\ Active(ReadRows(rows, readable)) \in Devices \cup {NoDevice}
<1>1. CASE readable
  BY <1>1, EpochIsNat, ActiveIsADevice, LenProperties DEF ReadRows, Rows
<1>2. CASE ~readable
  <2>1. ReadRows(rows, readable) = << >> /\ << >> \in Rows /\ Len(<< >>) = 0
    BY <1>2 DEF ReadRows, Rows
  <2>2. Len(rows) \in Nat
    BY LenProperties DEF Rows
  <2>. QED
    BY <2>1, <2>2, EpochIsNat, ActiveIsADevice
<1>. QED
  BY <1>1, <1>2

\* A call that found d active, or no device, displaces none but d and those
\* it has not seen.
LEMMA ReadsWhatItReplaces ==
  ASSUME NEW rows \in Rows, NEW readable \in BOOLEAN, NEW d,
         Active(ReadRows(rows, readable)) \in {NoDevice, d}
  PROVE  ReplacesAtMost(rows, d, Len(ReadRows(rows, readable)))
<1>1. CASE readable
  BY <1>1 DEF ReadRows, ReplacesAtMost
<1>2. CASE ~readable
  <2>1. Len(ReadRows(rows, readable)) = 0
    BY <1>2 DEF ReadRows
  <2>2. Active(rows) = NoDevice \/ LastActivation(rows) \in 1 .. Len(rows)
    BY ActiveIsADevice
  <2>3. Len(rows) \in Nat
    BY LenProperties DEF Rows
  <2>. QED
    BY <2>1, <2>2, <2>3 DEF ReplacesAtMost
<1>. QED
  BY <1>1, <1>2

(***************************************************************************)
(* Steps by what they touch: a call alone, the ledger, or a phone alone.   *)
(***************************************************************************)
LEMMA CallMoves ==
  ASSUME IInv, NEW r \in Requests, NEW state \in Request, CallOK(state, bindings),
         Goto(r, state), UNCHANGED <<bindings, created>>,
         phone' \in [Phones -> Phone], PromptsOK', faults' \in 0 .. MaxFaults
  PROVE  IInv'
<1>1. /\ request' \in [Requests -> Request]
      /\ request'[r] = state
      /\ \A q \in Requests \ {r} : request'[q] = request[q]
  BY DEF IInv, TypeOK, Goto
<1>2. TypeOK'
  BY <1>1 DEF IInv, TypeOK
<1>3. CallsOK'
  BY <1>1 DEF IInv, CallsOK
<1>. QED
  BY <1>2, <1>3 DEF IInv

LEMMA RowIsAppended ==
  ASSUME IInv, NEW r \in Requests, NEW state \in Request, NEW row \in Row,
         bindings' = Append(bindings, row),
         row.type = "activate" => Registered(bindings, row.device),
         CallOK(state, Append(bindings, row)),
         Goto(r, state), UNCHANGED <<phone, created, faults>>
  PROVE  IInv'
<1>1. bindings \in Rows /\ bindings' \in Rows /\ bindings' \in Seq(Row)
  BY Appended DEF IInv, TypeOK, Rows
<1>2. /\ request \in [Requests -> Request]
      /\ request' \in [Requests -> Request]
      /\ request'[r] = state
      /\ \A q \in Requests \ {r} : request'[q] = request[q]
  BY DEF IInv, TypeOK, Goto
<1>3. TypeOK'
  BY <1>1, <1>2 DEF IInv, TypeOK
<1>4. RowsOK(bindings)'
  BY <1>1, RowsStayOK DEF IInv
<1>5. CallsOK'
  <2>1. \A q \in Requests : request[q] \in Request /\ CallOK(request[q], bindings)
    BY <1>2 DEF IInv, CallsOK
  <2>2. \A q \in Requests : CallOK(request'[q], Append(bindings, row))
    BY <1>1, <1>2, <2>1, CallStaysOK
  <2>. QED
    BY <2>2 DEF CallsOK
<1>6. PromptsOK'
  BY <1>1, RegisteredStays DEF IInv, PromptsOK
<1>. QED
  BY <1>3, <1>4, <1>5, <1>6 DEF IInv

LEMMA PhoneMoves ==
  ASSUME IInv, UNCHANGED <<bindings, request>>,
         created' \in 0 .. MaxDevices, faults' \in 0 .. MaxFaults,
         phone' \in [Phones -> Phone],
         \A p \in Phones : phone'[p].prompt = phone[p].prompt
  PROVE  IInv'
<1>1. TypeOK'
  BY DEF IInv, TypeOK
<1>2. CallsOK' /\ PromptsOK'
  BY DEF IInv, CallsOK, PromptsOK
<1>. QED
  BY <1>1, <1>2 DEF IInv

LEMMA InitInvariant == Init => IInv
<1> SUFFICES ASSUME Init PROVE IInv
  OBVIOUS
<1>1. TypeOK
  BY IdleIsOK, DeviceAssumption DEF Init, TypeOK, Phone, NoDevice
<1>2. RowsOK(bindings)
  BY DEF Init, RowsOK
<1>3. CallsOK
  BY IdleIsOK DEF Init, CallsOK
<1>4. PromptsOK
  BY DEF Init, PromptsOK
<1>. QED
  BY <1>1, <1>2, <1>3, <1>4 DEF IInv

(***************************************************************************)
(* One lemma per action.                                                   *)
(***************************************************************************)
LEMMA FaultsCounted ==
  ASSUME IInv, NEW readable \in BOOLEAN, ReadOutcome(readable), Counted(readable)
  PROVE  faults' \in 0 .. MaxFaults
BY DeviceAssumption DEF IInv, TypeOK, ReadOutcome, Counted

LEMMA DecidePreserves ==
  ASSUME IInv, NEW r \in Requests, NEW readable \in BOOLEAN, Decide(r, readable)
  PROVE  IInv'
<1> DEFINE rows == ReadRows(bindings, readable)
           p == request[r].phone
           device == request[r].device
           state == Call("activate", p, device, NoDevice, Epoch(rows) + 1, Len(rows))
<1>1. bindings \in Rows
  BY DEF IInv, TypeOK, Rows
<1>2. p \in Phones /\ device \in Devices /\ Registered(bindings, device)
  BY DEF Decide, IInv, CallsOK, CallOK
<1>3. faults' \in 0 .. MaxFaults
  BY FaultsCounted DEF Decide
<1>4. phone \in [Phones -> Phone] /\ PromptsOK
  BY DEF IInv, TypeOK
<1>5. CASE MayActivate(rows)
  <2>1. Active(rows) = NoDevice
    BY <1>5 DEF MayActivate
  <2>2. /\ rows \in Rows /\ Len(rows) \in Nat /\ Len(rows) <= Len(bindings)
        /\ Epoch(rows) + 1 \in Nat
    BY <1>1, ReadIsAPrefix
  <2>3. ReplacesAtMost(bindings, device, Len(rows))
    BY <1>1, <2>1, ReadsWhatItReplaces
  <2>4. Goto(r, state) /\ UNCHANGED <<bindings, created, phone>>
    BY <1>5 DEF Decide
  <2>5. state \in Request /\ CallOK(state, bindings)
    <3>1. "activate" \in Steps /\ NoDevice \in Devices \cup {NoDevice}
      BY DEF Steps
    <3>2. p \in Phones \cup {NoPhone} /\ device \in Devices \cup {NoDevice}
      BY <1>2
    <3> HIDE DEF rows, p, device
    <3>3. /\ state \in Request
          /\ state.at = "activate" /\ state.phone = p /\ state.device = device
          /\ state.seen = Len(rows)
      BY <2>2, <3>1, <3>2 DEF Call, Request
    <3> HIDE DEF state
    <3>. QED
      BY <1>2, <2>2, <2>3, <3>3 DEF CallOK
  <2>6. PromptsOK'
    BY <1>4, <2>4 DEF PromptsOK
  <2> HIDE DEF state
  <2>. QED
    BY <1>3, <1>4, <2>4, <2>5, <2>6, CallMoves
<1>6. CASE ~MayActivate(rows)
  <2>1. /\ Goto(r, Idle) /\ UNCHANGED <<bindings, created>>
        /\ phone' = phone \/ phone' = [phone EXCEPT ![p].prompt = device]
    BY <1>6 DEF Decide
  <2>2. phone' \in [Phones -> Phone]
    <3> HIDE DEF p, device
    <3>. QED
      BY <1>2, <1>4, <2>1 DEF Phone
  <2>3. PromptsOK'
    <3>1. \A x \in Phones : phone[x] \in Phone
      BY <1>4
    <3> HIDE DEF p, device
    <3>. QED
      BY <1>2, <1>4, <2>1, <3>1 DEF PromptsOK, Phone
  <2>. QED
    BY <1>3, <2>1, <2>2, <2>3, IdleIsOK, CallMoves
<1>. QED
  BY <1>5, <1>6

LEMMA ConfirmTakeoverPreserves ==
  ASSUME IInv, NEW p \in Phones, NEW r \in Requests, NEW readable \in BOOLEAN,
         ConfirmTakeover(p, r, readable)
  PROVE  IInv'
<1> DEFINE rows == ReadRows(bindings, readable)
           device == phone[p].prompt
           state == TakeoverAfterRead(p, device, rows)
<1>1. bindings \in Rows /\ phone \in [Phones -> Phone] /\ PromptsOK
  BY DEF IInv, TypeOK, Rows
<1>2. device \in Devices /\ Registered(bindings, device)
  BY <1>1 DEF ConfirmTakeover, PromptsOK, Phone
<1>3. /\ rows \in Rows /\ Len(rows) \in Nat /\ Len(rows) <= Len(bindings)
      /\ Epoch(rows) + 1 \in Nat /\ Active(rows) \in Devices \cup {NoDevice}
  BY <1>1, ReadIsAPrefix
<1>4. Goto(r, state) /\ UNCHANGED <<bindings, created>>
  BY DEF ConfirmTakeover
<1>5. ASSUME NEW d, Active(rows) \in {NoDevice, d}
      PROVE  ReplacesAtMost(bindings, d, Len(rows))
  BY <1>1, <1>5, ReadsWhatItReplaces
<1>6. state \in Request /\ CallOK(state, bindings)
  <2> HIDE DEF rows, device
  <2>1. CASE Active(rows) \in {NoDevice, device}
    <3>1. state = Call("activate", p, device, Active(rows), Epoch(rows) + 1, Len(rows))
      BY <2>1 DEF TakeoverAfterRead
    <3>2. ReplacesAtMost(bindings, device, Len(rows)) /\ "activate" \in Steps
      BY <1>5, <2>1 DEF Steps
    <3>. QED
      BY <1>2, <1>3, <3>1, <3>2, CallFields DEF CallOK
  <2>2. CASE Active(rows) \notin {NoDevice, device}
    <3>1. state = Call("revoke", p, device, Active(rows), Epoch(rows) + 1, Len(rows))
      BY <2>2 DEF TakeoverAfterRead
    <3>2. ReplacesAtMost(bindings, Active(rows), Len(rows)) /\ "revoke" \in Steps
      BY <1>5 DEF Steps
    <3>3. Active(rows) \in Devices
      BY <1>3, <2>2
    <3>. QED
      BY <1>2, <1>3, <3>1, <3>2, <3>3, CallFields DEF CallOK
  <2>. QED
    BY <2>1, <2>2
<1>7. phone' = [phone EXCEPT ![p].prompt = NoDevice]
  BY DEF ConfirmTakeover
<1>8. phone' \in [Phones -> Phone] /\ PromptsOK'
  <2>1. \A x \in Phones : phone[x] \in Phone
    BY <1>1
  <2>. QED
    BY <1>1, <1>4, <1>7, <2>1 DEF PromptsOK, Phone
<1>9. faults' \in 0 .. MaxFaults
  BY FaultsCounted DEF ConfirmTakeover
<1> HIDE DEF state
<1>. QED
  BY <1>4, <1>6, <1>8, <1>9, CallMoves

LEMMA PressRegisterPreserves ==
  ASSUME IInv, NEW p \in Phones, NEW r \in Requests, PressRegister(p, r)
  PROVE  IInv'
<1> DEFINE device == phone[p].shown
           row == Event("register", device, 0)
           state == Call("decide", p, device, NoDevice, 0, 0)
<1>1. bindings \in Rows /\ phone[p] \in Phone
  BY DEF IInv, TypeOK, Rows
<1>2. device \in Devices
  BY <1>1 DEF PressRegister, Phone
<1>3. row \in Row /\ row.type = "register" /\ row.device = device
  BY <1>2, EventFields
<1>4. bindings' = Append(bindings, row)
  BY <1>1, <1>3, AppendIsConcat DEF PressRegister, RegisterRow, Rows
<1>5. Goto(r, state) /\ UNCHANGED <<phone, created, faults>>
  BY DEF PressRegister
<1> HIDE DEF device, row
<1>6. /\ state \in Request
      /\ state.at = "decide" /\ state.phone = p /\ state.device = device /\ state.seen = 0
  <2>1. /\ "decide" \in Steps /\ p \in Phones \cup {NoPhone}
        /\ device \in Devices \cup {NoDevice} /\ NoDevice \in Devices \cup {NoDevice}
        /\ 0 \in Nat
    BY <1>2 DEF Steps
  <2>2. state \in Request
    BY <2>1 DEF Call, Request
  <2>. QED
    BY <2>2 DEF Call
<1>7. /\ Registered(Append(bindings, row), device)
      /\ 0 <= Len(Append(bindings, row))
  BY <1>1, <1>3, Appended DEF Registered
<1> HIDE DEF state
<1>8. CallOK(state, Append(bindings, row))
  BY <1>2, <1>6, <1>7 DEF CallOK
<1>. QED
  BY <1>3, <1>4, <1>5, <1>6, <1>8, RowIsAppended

LEMMA AppendRevokePreserves ==
  ASSUME IInv, NEW r \in Requests, AppendRevoke(r)
  PROVE  IInv'
<1> DEFINE q == request[r]
           row == Event("revoke", q.old, q.epoch)
           state == [q EXCEPT !.at = "activate"]
<1>1. bindings \in Rows /\ q \in Request /\ CallOK(q, bindings) /\ q.at = "revoke"
  BY DEF IInv, TypeOK, Rows, CallsOK, AppendRevoke
<1>2. bindings' = Append(bindings, row) /\ Goto(r, state) /\ UNCHANGED <<phone, created, faults>>
  BY DEF AppendRevoke
<1> HIDE DEF q
<1>3. /\ q.phone \in Phones /\ q.device \in Devices /\ Registered(bindings, q.device)
      /\ q.seen <= Len(bindings) /\ q.seen \in Nat /\ q.epoch \in Nat
      /\ q.old \in Devices /\ ReplacesAtMost(bindings, q.old, q.seen)
  BY <1>1 DEF CallOK, Request
<1>4. row \in Row /\ row.type = "revoke" /\ row.device = q.old
  BY <1>3, EventFields
<1>5. /\ state \in Request /\ state.at = "activate"
      /\ state.phone = q.phone /\ state.device = q.device /\ state.seen = q.seen
  BY <1>1 DEF Request, Steps
<1> HIDE DEF row, state
<1>6. ReplacesAtMost(Append(bindings, row), q.device, q.seen)
  <2>1. LastActivation(Append(bindings, row)) = LastActivation(bindings)
    BY <1>1, <1>4, LastActivationAppend
  <2>2. Active(Append(bindings, row)) =
          IF q.old = Active(bindings) THEN NoDevice ELSE Active(bindings)
    BY <1>1, <1>4, ActiveAppend
  <2>. QED
    BY <1>3, <2>1, <2>2 DEF ReplacesAtMost
<1>7. Registered(Append(bindings, row), q.device)
  BY <1>1, <1>3, <1>4, RegisteredStays
<1>8. q.seen <= Len(Append(bindings, row))
  BY <1>1, <1>3, <1>4, Appended
<1>9. CallOK(state, Append(bindings, row))
  BY <1>3, <1>5, <1>6, <1>7, <1>8 DEF CallOK
<1>. QED
  BY <1>2, <1>4, <1>5, <1>9, RowIsAppended

LEMMA AppendActivatePreserves ==
  ASSUME IInv, NEW r \in Requests, AppendActivate(r)
  PROVE  IInv'
<1> DEFINE q == request[r]
           row == Event("activate", q.device, q.epoch)
<1>1. q \in Request /\ CallOK(q, bindings) /\ q.at = "activate"
  BY DEF IInv, TypeOK, CallsOK, AppendActivate
<1>2. bindings' = Append(bindings, row) /\ Goto(r, Idle) /\ UNCHANGED <<phone, created, faults>>
  BY DEF AppendActivate
<1> HIDE DEF q
<1>3. q.device \in Devices /\ Registered(bindings, q.device) /\ q.epoch \in Nat
  BY <1>1 DEF CallOK, Request
<1>4. row \in Row /\ row.device = q.device
  BY <1>3, EventFields
<1> HIDE DEF row
<1>. QED
  BY <1>2, <1>3, <1>4, IdleIsOK, RowIsAppended

LEMMA RequestFailsPreserves ==
  ASSUME IInv, NEW r \in Requests, RequestFails(r)
  PROVE  IInv'
<1>1. phone' \in [Phones -> Phone] /\ PromptsOK' /\ UNCHANGED <<bindings, created>>
  BY DEF IInv, TypeOK, PromptsOK, RequestFails
<1>2. faults' \in 0 .. MaxFaults
  BY DeviceAssumption DEF IInv, TypeOK, RequestFails
<1>3. Goto(r, Idle)
  BY DEF RequestFails
<1>. QED
  BY <1>1, <1>2, <1>3, IdleIsOK, CallMoves

LEMMA HasDeviceTypes ==
  ASSUME IInv, NEW p \in Phones, NEW device \in Devices, HasDevice(p, device)
  PROVE  created' \in 0 .. MaxDevices
BY DeviceAssumption DEF HasDevice, IInv, TypeOK, Devices

LEMMA PhonePreserves ==
  ASSUME IInv, NEW p \in Phones,
         \/ \E device \in Devices : OpenProfile(p, device) \/ Poll(p, device)
         \/ CheckStatus(p) \/ Wipe(p) \/ WipeFails(p) \/ PressWipe(p)
  PROVE  IInv'
<1>1. phone \in [Phones -> Phone] /\ created \in 0 .. MaxDevices /\ faults \in 0 .. MaxFaults
  BY DEF IInv, TypeOK
<1>2. CASE \E device \in Devices : OpenProfile(p, device)
  <2>1. PICK device \in Devices : OpenProfile(p, device)
    BY <1>2
  <2>2. phone' = [phone EXCEPT ![p].stored = device, ![p].shown = device]
    BY <2>1 DEF OpenProfile
  <2>3. phone' \in [Phones -> Phone] /\ \A x \in Phones : phone'[x].prompt = phone[x].prompt
    BY <1>1, <2>2 DEF Phone
  <2>. QED
    BY <1>1, <2>1, <2>3, HasDeviceTypes, PhoneMoves DEF OpenProfile
<1>3. CASE \E device \in Devices : Poll(p, device)
  <2>1. PICK device \in Devices : Poll(p, device)
    BY <1>3
  <2>2. phone' = [phone EXCEPT ![p].stored = device]
    BY <2>1 DEF Poll
  <2>3. phone' \in [Phones -> Phone] /\ \A x \in Phones : phone'[x].prompt = phone[x].prompt
    BY <1>1, <2>2 DEF Phone
  <2>. QED
    BY <1>1, <2>1, <2>3, HasDeviceTypes, PhoneMoves DEF Poll
<1>4. CASE Wipe(p)
  <2>1. phone' = [phone EXCEPT ![p].stored = NoDevice, ![p].told = FALSE]
    BY <1>4 DEF Wipe
  <2>2. phone' \in [Phones -> Phone] /\ \A x \in Phones : phone'[x].prompt = phone[x].prompt
    BY <1>1, <2>1 DEF Phone
  <2>. QED
    BY <1>1, <1>4, <2>2, PhoneMoves DEF Wipe
<1>5. CASE WipeFails(p)
  <2>1. phone' = [phone EXCEPT ![p].told = FALSE]
    BY <1>5 DEF WipeFails
  <2>2. phone' \in [Phones -> Phone] /\ \A x \in Phones : phone'[x].prompt = phone[x].prompt
    BY <1>1, <2>1 DEF Phone
  <2>3. faults' \in 0 .. MaxFaults
    BY <1>1, <1>5, DeviceAssumption DEF WipeFails
  <2>. QED
    BY <1>1, <1>5, <2>2, <2>3, PhoneMoves DEF WipeFails
<1>6. CASE PressWipe(p)
  <2>1. phone' = [phone EXCEPT ![p].stored = NoDevice]
    BY <1>6 DEF PressWipe
  <2>2. phone' \in [Phones -> Phone] /\ \A x \in Phones : phone'[x].prompt = phone[x].prompt
    BY <1>1, <2>1 DEF Phone
  <2>. QED
    BY <1>1, <1>6, <2>2, PhoneMoves DEF PressWipe
<1>7. CASE CheckStatus(p)
  <2>1. phone' = [phone EXCEPT ![p].told = TRUE]
    BY <1>7 DEF CheckStatus
  <2>2. phone' \in [Phones -> Phone] /\ \A x \in Phones : phone'[x].prompt = phone[x].prompt
    BY <1>1, <2>1 DEF Phone
  <2>. QED
    BY <1>1, <1>7, <2>2, PhoneMoves DEF CheckStatus
<1>. QED
  BY <1>2, <1>3, <1>4, <1>5, <1>6, <1>7

LEMMA NextPreserves == IInv /\ [Next]_vars => IInv'
<1> SUFFICES ASSUME IInv, [Next]_vars PROVE IInv'
  OBVIOUS
<1>1. CASE \E p \in Phones, device \in Devices : OpenProfile(p, device)
  BY <1>1, PhonePreserves
<1>2. CASE \E p \in Phones, r \in Requests : PressRegister(p, r)
  BY <1>2, PressRegisterPreserves
<1>3. CASE \E p \in Phones, r \in Requests, readable \in BOOLEAN : ConfirmTakeover(p, r, readable)
  BY <1>3, ConfirmTakeoverPreserves
<1>4. CASE \E p \in Phones, device \in Devices : Poll(p, device)
  BY <1>4, PhonePreserves
<1>5. CASE \E p \in Phones : CheckStatus(p) \/ Wipe(p)
  BY <1>5, PhonePreserves
<1>6. CASE \E r \in Requests : Continue(r)
  BY <1>6, DecidePreserves, AppendRevokePreserves, AppendActivatePreserves DEF Continue
<1>7. CASE \E r \in Requests : RequestFails(r)
  BY <1>7, RequestFailsPreserves
<1>8. CASE \E p \in Phones : WipeFails(p) \/ PressWipe(p)
  BY <1>8, PhonePreserves
<1>9. CASE UNCHANGED vars
  <2>1. TypeOK'
    BY <1>9 DEF IInv, TypeOK, vars
  <2>2. CallsOK' /\ PromptsOK'
    BY <1>9 DEF IInv, CallsOK, PromptsOK, vars
  <2>. QED
    BY <1>9, <2>1, <2>2 DEF IInv, vars
<1>. QED
  BY <1>1, <1>2, <1>3, <1>4, <1>5, <1>6, <1>7, <1>8, <1>9 DEF Next

\* The inductive invariant of the device ledger and the calls that use it.
THEOREM InvariantHolds == Spec => []IInv
<1>1. Init => IInv
  BY InitInvariant
<1>2. IInv /\ [Next]_vars => IInv'
  BY NextPreserves
<1>. QED
  BY <1>1, <1>2, PTL DEF Spec

\* Every reachable state is well typed: rows name real devices with numeric
\* epochs (getActiveDeviceState), and a takeover revokes only a real device.
THEOREM DevicesTypeCorrect == Spec => []TypeOK
<1>1. IInv => TypeOK
  BY DEF IInv
<1>. QED
  BY <1>1, InvariantHolds, PTL

\* No device is ever activated, by register or takeover, that has not
\* registered before.
THEOREM ActivatedIsRegisteredHolds == Spec => []ActivatedIsRegistered
<1>1. IInv => ActivatedIsRegistered
  <2> SUFFICES ASSUME IInv PROVE ActivatedIsRegistered
    OBVIOUS
  <2>1. DOMAIN bindings = 1 .. Len(bindings)
    BY LenProperties DEF IInv, TypeOK
  <2>. QED
    BY <2>1 DEF IInv, RowsOK, ActivatedIsRegistered
<1>. QED
  BY <1>1, InvariantHolds, PTL

\* A call that is about to activate its device pushes out another one only if
\* that one became active after the call read the ledger.
THEOREM PushesOutOnlyUnseenHolds == Spec => []PushesOutOnlyUnseen
<1>1. IInv => PushesOutOnlyUnseen
  <2> SUFFICES ASSUME IInv, NEW r \in Requests, request[r].at = "activate"
               PROVE  ReplacesAtMost(bindings, request[r].device, request[r].seen)
    BY DEF PushesOutOnlyUnseen, ReplacesAtMost
  <2>. QED
    BY DEF IInv, CallsOK, CallOK
<1>. QED
  BY <1>1, InvariantHolds, PTL
=============================================================================
