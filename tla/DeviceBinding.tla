---------------------------- MODULE DeviceBinding ----------------------------
(***************************************************************************)
(* One active device per account: the ledger of device events that the     *)
(* register, takeover and status routes of apps/web/src/app/api/mobile     *)
(* /device read and append to, and the phones that call them (apps/mobile  *)
(* /src: the profile screen, the wipe and the poll of App.tsx). The rows   *)
(* are those of one account; the readers skip the rows of any other.       *)
(*                                                                         *)
(* The account is the one the profile screen names, with no more than the  *)
(* development headers of authContext.ts: the model is of a server that    *)
(* honours them. In production every call of a phone is answered 401 and   *)
(* leaves both sides as they are.                                          *)
(***************************************************************************)
EXTENDS JsonlLedger

CONSTANTS
  Phones,      \* installations of the app
  Requests,    \* request handlers that may run at once
  NoPhone,     \* an idle request handler
  MaxDevices,  \* bound: device identifiers the phones generate
  MaxRows,     \* bound: no call starts on a ledger that long, and a takeover
               \* leaves room for a registration
  MaxFaults    \* bound: crashes, failed file reads or writes, wipes that failed

ASSUME DeviceAssumption ==
  /\ NoPhone \notin Phones
  /\ MaxDevices \in Nat
  /\ MaxRows \in Nat
  /\ MaxFaults \in Nat

VARIABLES
  bindings,  \* storage/device-bindings.jsonl
  phone,     \* what each phone keeps
  request,   \* each register or takeover call: where it is and what it read
  created,   \* device identifiers generated so far
  faults     \* crashes and file errors so far

vars == <<bindings, phone, request, created, faults>>

Devices == 1 .. MaxDevices
NoDevice == 0

Row == [type : {"register", "activate", "revoke"}, device : Devices, epoch : Nat]

Event(type, device, epoch) == [type |-> type, device |-> device, epoch |-> epoch]

Steps == {"idle", "decide", "revoke", "activate"}

\* old is the active device a takeover found, epoch the one its rows carry,
\* and seen the number of rows it read.
Request == [at : Steps, phone : Phones \cup {NoPhone}, device : Devices \cup {NoDevice},
            old : Devices \cup {NoDevice}, epoch : Nat, seen : Nat]

Call(step, p, device, old, epoch, seen) ==
  [at |-> step, phone |-> p, device |-> device, old |-> old, epoch |-> epoch, seen |-> seen]

Idle == Call("idle", NoPhone, NoDevice, NoDevice, 0, 0)

\* stored: the keychain's device id. shown: the id the profile screen read when
\* it was mounted. prompt: the id an open takeover question will send. told:
\* the notice that the device was revoked is open, its OK not yet pressed or its
\* wipe not yet finished; it covers the screen's buttons and has no other.
Phone == [stored : Devices \cup {NoDevice}, shown : Devices \cup {NoDevice},
          prompt : Devices \cup {NoDevice}, told : BOOLEAN]

Init ==
  /\ bindings = << >>
  /\ phone = [p \in Phones |->
       [stored |-> NoDevice, shown |-> NoDevice, prompt |-> NoDevice, told |-> FALSE]]
  /\ request = [r \in Requests |-> Idle]
  /\ created = 0
  /\ faults = 0

-----------------------------------------------------------------------------
(* getActiveDeviceState: the fold over the rows. *)

LastActivation(rows) == SelectLastInSeq(rows, LAMBDA row : row.type = "activate")

RevokedAfter(rows, i, device) ==
  \E j \in i + 1 .. Len(rows) : rows[j].type = "revoke" /\ rows[j].device = device

\* The last activated device, unless it was revoked since.
Active(rows) ==
  LET last == LastActivation(rows)
  IN  IF last = 0 \/ RevokedAfter(rows, last, rows[last].device)
      THEN NoDevice
      ELSE rows[last].device

\* The highest epoch; a register row carries none.
Epoch(rows) == Max({0} \cup {rows[i].epoch : i \in DOMAIN rows})

EverRevoked(rows, device) == RevokedAfter(rows, 0, device)

-----------------------------------------------------------------------------
(* The server. A read that fails yields no rows. *)

ReadOutcome(readable) == ~readable => faults < MaxFaults

Counted(readable) == faults' = IF readable THEN faults ELSE faults + 1

Goto(r, state) == request' = [request EXCEPT ![r] = state]

\* Mutation: only the account's first device is activated without a question.
MayActivate_FirstOnly(rows) == Epoch(rows) = 0

\* register activates at once when no device is active.
MayActivate(rows) == Active(rows) = NoDevice

\* The read after the register row: activate, confirm, or answer 409, upon
\* which the profile screen asks whether to take over.
Decide(r, readable) ==
  LET rows == ReadRows(bindings, readable)
      p == request[r].phone
      device == request[r].device
  IN  /\ request[r].at = "decide"
      /\ ReadOutcome(readable)
      /\ Counted(readable)
      /\ IF MayActivate(rows)
         THEN /\ Goto(r, Call("activate", p, device, NoDevice, Epoch(rows) + 1, Len(rows)))
              /\ UNCHANGED phone
         ELSE /\ Goto(r, Idle)
              /\ phone' = IF Active(rows) = device
                          THEN phone
                          ELSE [phone EXCEPT ![p].prompt = device]
      /\ UNCHANGED <<bindings, created>>

\* Mutation: takeover only activates and never revokes.
TakeoverAfterRead_NoRevoke(p, device, rows) ==
  Call("activate", p, device, Active(rows), Epoch(rows) + 1, Len(rows))

\* Mutation: takeover revokes even when it found no active device.
TakeoverAfterRead_AlwaysRevokes(p, device, rows) ==
  Call(IF Active(rows) = device THEN "activate" ELSE "revoke",
       p, device, Active(rows), Epoch(rows) + 1, Len(rows))

\* takeover revokes the device it found active, unless it is the caller's own.
TakeoverAfterRead(p, device, rows) ==
  Call(IF Active(rows) \in {NoDevice, device} THEN "activate" ELSE "revoke",
       p, device, Active(rows), Epoch(rows) + 1, Len(rows))

AppendRevoke(r) ==
  /\ request[r].at = "revoke"
  /\ bindings' = Append(bindings, Event("revoke", request[r].old, request[r].epoch))
  /\ Goto(r, [request[r] EXCEPT !.at = "activate"])
  /\ UNCHANGED <<phone, created, faults>>

AppendActivate(r) ==
  /\ request[r].at = "activate"
  /\ bindings' = Append(bindings, Event("activate", request[r].device, request[r].epoch))
  /\ Goto(r, Idle)
  /\ UNCHANGED <<phone, created, faults>>

\* A failed append or a dead process: the call ends where it is.
RequestFails(r) ==
  /\ request[r] # Idle
  /\ faults < MaxFaults
  /\ faults' = faults + 1
  /\ Goto(r, Idle)
  /\ UNCHANGED <<bindings, phone, created>>

\* Mutation: status reports only devices a takeover revoked.
Revoked_ListedOnly(rows, device) == EverRevoked(rows, device)

\* status: revoked by a takeover once, or another device is active.
Revoked(rows, device) ==
  EverRevoked(rows, device) \/ Active(rows) \notin {NoDevice, device}

-----------------------------------------------------------------------------
(* The phones. *)

\* getOrCreateDeviceId: the stored id or a new one.
HasDevice(p, device) ==
  IF phone[p].stored # NoDevice
  THEN device = phone[p].stored /\ UNCHANGED created
  ELSE created < MaxDevices /\ device = created + 1 /\ created' = created + 1

\* Mounting the profile screen reads the id once.
OpenProfile(p, device) ==
  /\ ~phone[p].told
  /\ HasDevice(p, device)
  /\ phone[p].shown # device
  /\ phone' = [phone EXCEPT ![p].stored = device, ![p].shown = device]
  /\ UNCHANGED <<bindings, request, faults>>

\* Mutation: the register row is not written.
RegisterRow_Missing(device) == << >>

RegisterRow(device) == <<Event("register", device, 0)>>

\* The register button, and the route up to the row it appends first.
PressRegister(p, r) ==
  /\ request[r] = Idle
  /\ phone[p].shown # NoDevice
  /\ ~phone[p].told
  /\ Len(bindings) < MaxRows
  /\ bindings' = bindings \o RegisterRow(phone[p].shown)
  /\ Goto(r, Call("decide", p, phone[p].shown, NoDevice, 0, 0))
  /\ UNCHANGED <<phone, created, faults>>

\* OK in the takeover question (a question cancelled is one never answered),
\* and the route up to what it makes of the ledger.
ConfirmTakeover(p, r, readable) ==
  /\ request[r] = Idle
  /\ phone[p].prompt # NoDevice
  /\ Len(bindings) + 1 < MaxRows
  /\ ReadOutcome(readable)
  /\ Counted(readable)
  /\ Goto(r, TakeoverAfterRead(p, phone[p].prompt, ReadRows(bindings, readable)))
  /\ phone' = [phone EXCEPT ![p].prompt = NoDevice]
  /\ UNCHANGED <<bindings, created>>

\* The poll a signed-in app makes by itself. It makes sure of a device id, but
\* asks as the user who signed in, not as the account the profile screen
\* registers for: no phone has a row there, so the answer never says revoked.
Poll(p, device) ==
  /\ phone[p].stored = NoDevice
  /\ HasDevice(p, device)
  /\ phone' = [phone EXCEPT ![p].stored = device]
  /\ UNCHANGED <<bindings, request, faults>>

\* The status button, which asks about the id on the screen. Only an answer that
\* says revoked matters; a failed read never says so.
CheckStatus(p) ==
  /\ phone[p].shown # NoDevice
  /\ ~phone[p].told
  /\ Revoked(bindings, phone[p].shown)
  /\ phone' = [phone EXCEPT ![p].told = TRUE]
  /\ UNCHANGED <<bindings, request, created, faults>>

\* OK in the notice: the wipe deletes the key, the assets and the device id. The
\* app is not reloaded and stays signed in; the screen keeps the id it read.
Wipe(p) ==
  /\ phone[p].told
  /\ phone' = [phone EXCEPT ![p].stored = NoDevice, ![p].told = FALSE]
  /\ UNCHANGED <<bindings, request, created, faults>>

\* A wipe that fails before it reached the device id, or an app closed with the
\* notice open: it is forgotten.
WipeFails(p) ==
  /\ phone[p].told
  /\ faults < MaxFaults
  /\ faults' = faults + 1
  /\ phone' = [phone EXCEPT ![p].told = FALSE]
  /\ UNCHANGED <<bindings, request, created>>

\* The wipe button.
PressWipe(p) ==
  /\ ~phone[p].told
  /\ phone[p].stored # NoDevice
  /\ phone' = [phone EXCEPT ![p].stored = NoDevice]
  /\ UNCHANGED <<bindings, request, created, faults>>

-----------------------------------------------------------------------------
Continue(r) ==
  \/ \E readable \in BOOLEAN : Decide(r, readable)
  \/ AppendRevoke(r)
  \/ AppendActivate(r)

Next ==
  \/ \E p \in Phones, device \in Devices : OpenProfile(p, device)
  \/ \E p \in Phones, r \in Requests : PressRegister(p, r)
  \/ \E p \in Phones, r \in Requests, readable \in BOOLEAN : ConfirmTakeover(p, r, readable)
  \/ \E p \in Phones, device \in Devices : Poll(p, device)
  \/ \E p \in Phones : CheckStatus(p)
  \/ \E p \in Phones : Wipe(p)
  \/ \E p \in Phones : WipeFails(p)
  \/ \E p \in Phones : PressWipe(p)
  \/ \E r \in Requests : Continue(r)
  \/ \E r \in Requests : RequestFails(r)

Spec == Init /\ [][Next]_vars

\* Some user of an account without an active device registers again.
RegisterAgain ==
  Active(bindings) = NoDevice /\ \E p \in Phones, r \in Requests : PressRegister(p, r)

\* Requests keep running, whoever looks at the profile screen presses the status
\* button again and again and answers its notice, and nobody gives up on an
\* account that lost its device. The last two are assumptions about users: no
\* code of the app does either by itself.
FairSpec ==
  /\ Spec
  /\ SF_vars(RegisterAgain)
  /\ WF_vars(\E r \in Requests : Continue(r))
  /\ \A p \in Phones : WF_vars(CheckStatus(p) \/ Wipe(p))

-----------------------------------------------------------------------------
(* Properties. *)

TypeOK ==
  /\ bindings \in Seq(Row)
  /\ phone \in [Phones -> Phone]
  /\ request \in [Requests -> Request]
  /\ created \in 0 .. MaxDevices
  /\ faults \in 0 .. MaxFaults

\* The app takes over only after register answered 409, so every device that
\* was ever activated has registered before: the server knows its platform and
\* where to push a wipe request.
ActivatedIsRegistered ==
  \A i \in DOMAIN bindings : bindings[i].type = "activate" =>
    \E j \in 1 .. i - 1 : bindings[j].type = "register" /\ bindings[j].device = bindings[i].device

\* "New devices require takeover confirmation" (register/route.ts), as far as
\* the code keeps it when calls overlap and reads fail: a call about to activate
\* its device pushes out another one only if that one became active after the
\* call read the ledger.
PushesOutOnlyUnseen ==
  \A r \in Requests :
    /\ request[r].at = "activate"
    /\ Active(bindings) \notin {NoDevice, request[r].device}
    => LastActivation(bindings) > request[r].seen

\* A phone whose id, kept in the keychain and shown on the screen, is not the
\* active one while another device is.
PushedOut(p) ==
  /\ phone[p].stored # NoDevice
  /\ phone[p].stored = phone[p].shown
  /\ Active(bindings) \notin {NoDevice, phone[p].stored}

\* "If the device is revoked, the app must wipe local assets/keys"
\* (status/route.ts), as far as a user who asks can rely on it: a phone whose
\* status button is pressed does not stay on an id another device has pushed
\* out, even when that device became active with no takeover and left no revoke
\* row, or when a wipe failed.
PushedOutPhoneWipes == \A p \in Phones : PushedOut(p) ~> ~PushedOut(p)

\* A takeover that dies after its revoke row leaves the account without a
\* device, but not for good: a registration brings one back (given room under
\* the bound for one more, and for one for every failure still to come).
AccountRecovers ==
  /\ \E i \in DOMAIN bindings : bindings[i].type = "revoke"
  /\ Active(bindings) = NoDevice
  /\ Len(bindings) + MaxFaults - faults < MaxRows
  ~> Active(bindings) # NoDevice
=============================================================================
