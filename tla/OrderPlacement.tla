--------------------------- MODULE OrderPlacement ---------------------------
(***************************************************************************)
(* Orders being opened, at the counter and online, over one local day: the *)
(* tables and the waitlist, and the plates of one meal with a daily limit  *)
(* that all of them draw on.                                               *)
(*                                                                         *)
(* Nothing is reserved. A table is taken because an open order points at   *)
(* it, and plates are gone because live orders hold them: every call looks *)
(* first and writes later, and between the two others do the same.         *)
(***************************************************************************)
EXTENDS Naturals, FiniteSets, Totals

CONSTANTS
  Procs,        \* slots for calls in flight: the bound on concurrency
  Handlers,     \* the calls that are made in this instance
  Orders,       \* bound: orders that can be opened
  Tables,       \* the dining tables of the outlet
  Parties,      \* the parties on its waitlist
  DailyLimit,   \* Meal.dailyQuantityLimit of the meal
  MaxPlates,    \* bound: plates of it in one cart
  MaxRequests,  \* bound: calls of staff and customers
  MaxFaults,    \* bound: thrown errors and calls that die with their server
  None          \* no table, no party, no order

AllHandlers == {"dineIn", "seat", "cancelEntry", "addItems", "move", "settle",
                "update", "closeTable", "checkout", "phone", "pay"}

\* CONFIRMED stands for CONFIRMED, PREPARING and READY.
Statuses == {"none", "PENDING_PAYMENT", "CONFIRMED", "OUT_FOR_DELIVERY",
             "DELIVERED", "CANCELLED"}
Kinds == {"dineIn", "phone", "online"}
TableStates == {"active", "inactive", "deleted"}
EntryStates == {"WAITING", "SEATED", "CANCELLED"}

ASSUME BoundsAssumption ==
  /\ DailyLimit \in Nat /\ MaxPlates \in Nat
  /\ MaxRequests \in Nat /\ MaxFaults \in Nat
ASSUME HandlersAssumption == Handlers \subseteq AllHandlers
ASSUME SetsAssumption ==
  /\ IsFiniteSet(Procs) /\ Procs # {} /\ IsFiniteSet(Orders)
  /\ None \notin Orders \cup Tables \cup Parties

Maybe(S) == S \cup {None}
Plates == 0..MaxPlates

\* deliveryDate of a counter order is the moment it was opened, and stock is
\* counted by UTC days: before 05:30 in India it falls on the day before.
OrderRows == [status : Statuses, kind : Kinds, table : Maybe(Tables),
              plates : Nat,
              paid : BOOLEAN,      \* paymentStatus is PAID
              held : BOOLEAN,      \* an online checkout of the last 15 minutes
              today : BOOLEAN,     \* deliveryDate is in today's UTC day
              late : BOOLEAN,      \* history: went on after its plates were free
              party : Maybe(Parties)]   \* history: seated from the waitlist

VARIABLES
  order,     \* the orders of today
  table,     \* dining_tables: active, switched off, or deleted
  entry,     \* waitlist_entries: [status, order]
  night,     \* today's local date is not yet the date in UTC
  reopened,  \* history: closed orders that a write made open again
  call,      \* call[p]: the call running in slot p
  requests, faults

bounds == <<requests, faults>>
vars == <<order, table, entry, night, reopened, call, bounds>>

-----------------------------------------------------------------------------
\* Calls in flight.

Phases == {"idle", "claim", "table", "stock", "create", "markSeated",
           "release", "add", "move", "settle", "update", "cancelEntry",
           "closeTable", "pay"}
Vias == {"none", "dineIn", "seat", "addItems", "move", "settle", "update",
         "cancelEntry", "closeTable", "checkout", "phone", "pay"}

NoCall == [phase |-> "idle", via |-> "none", order |-> None, table |-> None,
           party |-> None, plates |-> 0, to |-> "none"]

\* to: the status, or the state of the table, that will be written.
Calls == [phase : Phases, via : Vias, order : Maybe(Orders),
          table : Maybe(Tables), party : Maybe(Parties), plates : Plates,
          to : Statuses \cup TableStates]

Idle(p) == call[p].phase = "idle"
In(p, phase) == call[p].phase = phase
Goto(p, phase) == call' = [call EXCEPT ![p].phase = phase]
Return(p) == call' = [call EXCEPT ![p] = NoCall]

Begin(p, c) ==
  /\ c.via \in Handlers
  /\ Idle(p) /\ requests < MaxRequests
  /\ call' = [call EXCEPT ![p] = c]
  /\ requests' = requests + 1
  /\ UNCHANGED <<order, table, entry, night, reopened, faults>>

\* createDineIn throws: seatWaitlistEntry catches it and gives the claim back.
Refuse(p) == IF call[p].via = "seat" THEN Goto(p, "release") ELSE Return(p)

-----------------------------------------------------------------------------
\* What a call sees.

Open(o) == order[o].status \in {"PENDING_PAYMENT", "CONFIRMED"}
OpenBills(t) == {o \in Orders : Open(o) /\ order[o].table = t}

\* assertTableFree, for an order that may sit there already.
Free(t, except) == OpenBills(t) \subseteq {except}

\* sumSoldForDate: every live order, and an unpaid checkout for 15 minutes.
Counted(o) ==
  /\ order[o].today
  /\ order[o].status \notin {"none", "CANCELLED"}
  /\ \/ order[o].status # "PENDING_PAYMENT"
     \/ order[o].kind # "online"
     \/ order[o].held

PlatesOf(S) == Total([o \in Orders |-> order[o].plates], S)
Sold == PlatesOf({o \in Orders : Counted(o)})

\* Bug: one plate too many passes.
AvailableOffByOne(plates) == plates > 0 => Sold + plates <= DailyLimit + 1

\* An empty cart asks for nothing; remaining stock is never negative.
Available(plates) == plates > 0 => Sold + plates <= DailyLimit

-----------------------------------------------------------------------------
\* Opening an order at the counter, and seating a party from the waitlist.

\* t is None for a takeaway, and for a walk-in who has no table yet.
StartDineIn(p, t, plates) ==
  Begin(p, [NoCall EXCEPT !.via = "dineIn", !.table = t, !.plates = plates,
                          !.phase = IF t = None THEN "stock" ELSE "table"])

StartSeat(p, e, t, plates) ==
  Begin(p, [NoCall EXCEPT !.phase = "claim", !.via = "seat", !.party = e,
                          !.table = t, !.plates = plates])

\* Bug: the flip is not conditional.
ClaimAnyway(p) ==
  /\ In(p, "claim")
  /\ entry' = [entry EXCEPT ![call[p].party].status = "SEATED"]
  /\ Goto(p, "table")
  /\ UNCHANGED <<order, table, night, reopened, bounds>>

\* WAITING -> SEATED in one conditional write.
ClaimForSeating(p) ==
  /\ In(p, "claim")
  /\ IF entry[call[p].party].status = "WAITING"
       THEN /\ entry' = [entry EXCEPT ![call[p].party].status = "SEATED"]
            /\ Goto(p, "table")
       ELSE Return(p) /\ UNCHANGED entry
  /\ UNCHANGED <<order, table, night, reopened, bounds>>

\* Bug: any table of the outlet will do.
SkipTableCheck(p) ==
  /\ In(p, "table")
  /\ Goto(p, IF call[p].via = "move" THEN "move" ELSE "stock")
  /\ UNCHANGED <<order, table, entry, night, reopened, bounds>>

\* The table is active and nobody's order but the one being moved sits there.
CheckTable(p) ==
  /\ In(p, "table")
  /\ IF table[call[p].table] = "active" /\ Free(call[p].table, call[p].order)
       THEN Goto(p, IF call[p].via = "move" THEN "move" ELSE "stock")
       ELSE Refuse(p)
  /\ UNCHANGED <<order, table, entry, night, reopened, bounds>>

CheckStock(p) ==
  /\ In(p, "stock")
  /\ IF Available(call[p].plates)
       THEN Goto(p, IF call[p].via = "addItems" THEN "add" ELSE "create")
       ELSE Refuse(p)
  /\ UNCHANGED <<order, table, entry, night, reopened, bounds>>

KindOf(via) == CASE via = "checkout" -> "online"
                 [] via = "phone" -> "phone"
                 [] OTHER -> "dineIn"

\* OrdersRepository.create. A table deleted meanwhile fails its foreign key.
CreateOrder(p, o) ==
  LET kind == KindOf(call[p].via) IN
  /\ In(p, "create")
  /\ order[o].status = "none"
  /\ IF call[p].table # None /\ table[call[p].table] = "deleted"
       THEN Refuse(p) /\ UNCHANGED order
       ELSE /\ order' = [order EXCEPT ![o] =
                 [status |-> "PENDING_PAYMENT", kind |-> kind,
                  table |-> call[p].table, plates |-> call[p].plates,
                  paid |-> FALSE, held |-> TRUE, late |-> FALSE,
                  today |-> kind # "dineIn" \/ ~night, party |-> call[p].party]]
            /\ call' = [call EXCEPT ![p] =
                 IF @.via = "seat" THEN [@ EXCEPT !.phase = "markSeated",
                                                  !.order = o]
                                   ELSE NoCall]
  /\ UNCHANGED <<table, entry, night, reopened, bounds>>

\* Bug: the table is saved where the order belongs.
MarkSeatedAtTable(p) ==
  /\ In(p, "markSeated")
  /\ entry' = [entry EXCEPT ![call[p].party].order = call[p].table]
  /\ Return(p)
  /\ UNCHANGED <<order, table, night, reopened, bounds>>

MarkSeated(p) ==
  /\ In(p, "markSeated")
  /\ entry' = [entry EXCEPT ![call[p].party].order = call[p].order]
  /\ Return(p)
  /\ UNCHANGED <<order, table, night, reopened, bounds>>

\* Bug: the claim is kept.
KeepClaim(p) ==
  /\ In(p, "release")
  /\ Return(p)
  /\ UNCHANGED <<order, table, entry, night, reopened, bounds>>

ReleaseClaim(p) ==
  LET e == call[p].party IN
  /\ In(p, "release")
  /\ entry' = IF entry[e].status = "SEATED" /\ entry[e].order = None
                THEN [entry EXCEPT ![e].status = "WAITING"] ELSE entry
  /\ Return(p)
  /\ UNCHANGED <<order, table, night, reopened, bounds>>

\* WaitlistService.cancel: looked at here, written whatever it is by then.
StartCancelEntry(p, e) ==
  /\ entry[e].status = "WAITING"
  /\ Begin(p, [NoCall EXCEPT !.phase = "cancelEntry", !.via = "cancelEntry",
                             !.party = e])

MarkEntryCancelled(p) ==
  /\ In(p, "cancelEntry")
  /\ entry' = [entry EXCEPT ![call[p].party].status = "CANCELLED"]
  /\ Return(p)
  /\ UNCHANGED <<order, table, night, reopened, bounds>>

-----------------------------------------------------------------------------
\* A running order.

\* getOpenDineInOrder.
Running(o) == order[o].kind = "dineIn"
              /\ order[o].status \notin {"none", "CANCELLED", "DELIVERED"}

StartAddItems(p, o, plates) ==
  /\ Running(o) /\ ~order[o].paid
  /\ Begin(p, [NoCall EXCEPT !.phase = "stock", !.via = "addItems",
                             !.order = o, !.plates = plates])

AddItems(p) ==
  /\ In(p, "add")
  /\ order' = [order EXCEPT ![call[p].order].plates = @ + call[p].plates]
  /\ Return(p)
  /\ UNCHANGED <<table, entry, night, reopened, bounds>>

StartMove(p, o, t) ==
  /\ Running(o)
  /\ Begin(p, [NoCall EXCEPT !.phase = "table", !.via = "move",
                             !.order = o, !.table = t])

\* OrdersRepository.assignTable.
MoveOrder(p) ==
  /\ In(p, "move")
  /\ order' = IF table[call[p].table] = "deleted" THEN order
              ELSE [order EXCEPT ![call[p].order].table = call[p].table]
  /\ Return(p)
  /\ UNCHANGED <<table, entry, night, reopened, bounds>>

\* The order's plates are free for others: cancelled, or not paid in time.
GaveBack(o) ==
  \/ order[o].status = "CANCELLED"
  \/ /\ order[o].kind = "online" /\ order[o].status = "PENDING_PAYMENT"
     /\ ~order[o].held

\* What a status written over another one means: plates that were given back
\* may be taken again, and a table's bill that was closed may be open again.
Written(o, to) ==
  [order[o] EXCEPT !.status = to,
                   !.late = @ \/ (GaveBack(o) /\ to # "CANCELLED")]

CountReopening(o, to) ==
  reopened' = IF /\ order[o].table # None /\ ~Open(o)
                 /\ to \in {"PENDING_PAYMENT", "CONFIRMED"}
                THEN reopened + 1 ELSE reopened

\* markPaidManually decides keepStatus on the row it read. It refuses a bill
\* without items; a bill without plates of this meal has others.
StartSettle(p, o) ==
  /\ order[o].kind # "online"
  /\ order[o].status \notin {"none", "CANCELLED"} /\ ~order[o].paid
  /\ Begin(p, [NoCall EXCEPT
                 !.phase = "settle", !.via = "settle", !.order = o,
                 !.to = IF order[o].status = "PENDING_PAYMENT"
                          THEN "CONFIRMED" ELSE "none"])

MarkPaidManually(p) ==
  LET o == call[p].order
      to == IF call[p].to = "none" THEN order[o].status ELSE call[p].to IN
  /\ In(p, "settle")
  /\ order' = [order EXCEPT ![o] = [Written(o, to) EXCEPT !.paid = TRUE]]
  /\ CountReopening(o, to)
  /\ Return(p)
  /\ UNCHANGED <<table, entry, night, bounds>>

\* updateStatus: assertStatusChangeAllowed on the row it read. The kitchen's
\* own moves have been allowed to no more.
StartUpdateStatus(p, o, to) ==
  /\ order[o].status \notin {"none", "CANCELLED"}
  /\ to \in {"CONFIRMED", "OUT_FOR_DELIVERY", "DELIVERED", "CANCELLED"}
  /\ IF order[o].paid THEN to # "CANCELLED" ELSE order[o].kind # "online"
  /\ Begin(p, [NoCall EXCEPT !.phase = "update", !.via = "update",
                             !.order = o, !.to = to])

UpdateStatus(p) ==
  /\ In(p, "update")
  /\ order' = [order EXCEPT ![call[p].order] =
                              Written(call[p].order, call[p].to)]
  /\ CountReopening(call[p].order, call[p].to)
  /\ Return(p)
  /\ UNCHANGED <<table, entry, night, bounds>>

\* cancelWithRefund, of a paid order, which is REFUNDED then and PAID no more.
CancelWithRefund(o) ==
  /\ order[o].paid /\ order[o].status # "CANCELLED"
  /\ order' = [order EXCEPT ![o].status = "CANCELLED", ![o].paid = FALSE]
  /\ UNCHANGED <<table, entry, night, reopened, call, bounds>>

\* update with another isActive, and delete, which clears tableId of its
\* orders. Switching a table on again asks nothing.
StartCloseTable(p, t, to) ==
  /\ table[t] # "deleted" /\ to # table[t]
  /\ to # "active" => Free(t, None)
  /\ Begin(p, [NoCall EXCEPT !.phase = "closeTable", !.via = "closeTable",
                             !.table = t, !.to = to])

CloseTable(p) ==
  LET t == call[p].table IN
  /\ In(p, "closeTable")
  /\ IF table[t] = "deleted" THEN UNCHANGED <<order, table>>
     ELSE /\ table' = [table EXCEPT ![t] = call[p].to]
          /\ order' = [o \in Orders |->
                         IF call[p].to = "deleted" /\ order[o].table = t
                           THEN [order[o] EXCEPT !.table = None] ELSE order[o]]
  /\ Return(p)
  /\ UNCHANGED <<entry, night, reopened, bounds>>

-----------------------------------------------------------------------------
\* Online checkouts and phone orders: the same check, the same write.

StartCheckout(p, via, plates) ==
  Begin(p, [NoCall EXCEPT !.phase = "stock", !.via = via, !.plates = plates])

HoldExpires(o) ==
  /\ order[o].kind = "online" /\ order[o].status = "PENDING_PAYMENT"
  /\ order[o].held
  /\ order' = [order EXCEPT ![o].held = FALSE]
  /\ UNCHANGED <<table, entry, night, reopened, call, bounds>>

\* The browser, the webhook and the payment-check job confirm an order that
\* they read as not PAID: one whose hold is over, a refunded one, one that
\* another of them is confirming.
StartConfirmPayment(p, o) ==
  /\ order[o].kind = "online" /\ order[o].status # "none" /\ ~order[o].paid
  /\ Begin(p, [NoCall EXCEPT !.phase = "pay", !.via = "pay", !.order = o])

\* markPaid has no condition: whatever the order is by now, it is CONFIRMED.
MarkPaid(p) ==
  LET o == call[p].order IN
  /\ In(p, "pay")
  /\ order' = [order EXCEPT ![o] = [Written(o, "CONFIRMED") EXCEPT !.paid = TRUE]]
  /\ CountReopening(o, "CONFIRMED")
  /\ Return(p)
  /\ UNCHANGED <<table, entry, night, bounds>>

\* In UTC the day begins too: counter orders now fall on it.
Dawn ==
  /\ night
  /\ night' = FALSE
  /\ UNCHANGED <<order, table, entry, reopened, call, bounds>>

-----------------------------------------------------------------------------
\* Faults.

\* Of a seating: createDineIn may throw after its order was written; what
\* follows it is not caught.
Throw(p) ==
  /\ ~Idle(p) /\ faults < MaxFaults
  /\ faults' = faults + 1
  /\ \/ call[p].phase \notin {"claim", "release"} /\ Refuse(p)
     \/ call[p].phase \in {"claim", "release", "markSeated"} /\ Return(p)
  /\ UNCHANGED <<order, table, entry, night, reopened, requests>>

Die(p) ==
  /\ ~Idle(p) /\ faults < MaxFaults
  /\ faults' = faults + 1
  /\ Return(p)
  /\ UNCHANGED <<order, table, entry, night, reopened, requests>>

-----------------------------------------------------------------------------
NoOrder == [status |-> "none", kind |-> "dineIn", table |-> None, plates |-> 0,
            paid |-> FALSE, held |-> FALSE, today |-> FALSE, late |-> FALSE,
            party |-> None]

Init ==
  /\ order = [o \in Orders |-> NoOrder]
  /\ table = [t \in Tables |-> "active"]
  /\ entry = [e \in Parties |-> [status |-> "WAITING", order |-> None]]
  /\ night \in BOOLEAN
  /\ reopened = 0
  /\ call = [p \in Procs |-> NoCall]
  /\ requests = 0 /\ faults = 0

Start(p) ==
  \/ \E plates \in Plates :
       \/ \E t \in Maybe(Tables) : StartDineIn(p, t, plates)
       \/ \E e \in Parties, t \in Tables : StartSeat(p, e, t, plates)
       \/ \E o \in Orders : StartAddItems(p, o, plates)
       \/ \E via \in {"checkout", "phone"} : StartCheckout(p, via, plates)
  \/ \E e \in Parties : StartCancelEntry(p, e)
  \/ \E o \in Orders : \/ StartSettle(p, o) \/ StartConfirmPayment(p, o)
                       \/ \E t \in Tables : StartMove(p, o, t)
                       \/ \E to \in Statuses : StartUpdateStatus(p, o, to)
  \/ \E t \in Tables, to \in TableStates : StartCloseTable(p, t, to)

Continue(p) ==
  \/ ClaimForSeating(p) \/ CheckTable(p) \/ CheckStock(p)
  \/ \E o \in Orders : CreateOrder(p, o)
  \/ MarkSeated(p) \/ ReleaseClaim(p) \/ MarkEntryCancelled(p)
  \/ AddItems(p) \/ MoveOrder(p) \/ MarkPaidManually(p) \/ UpdateStatus(p)
  \/ CloseTable(p) \/ MarkPaid(p)

Next ==
  \/ \E p \in Procs : Start(p) \/ Continue(p) \/ Throw(p) \/ Die(p)
  \/ \E o \in Orders : CancelWithRefund(o) \/ HoldExpires(o)
  \/ Dawn

Spec == Init /\ [][Next]_vars

-----------------------------------------------------------------------------
\* Properties.

Quiet == \A p \in Procs : Idle(p)

\* Every variable has its type.
TypeOK ==
  /\ order \in [Orders -> OrderRows]
  /\ table \in [Tables -> TableStates]
  /\ entry \in [Parties -> [status : EntryStates, order : Maybe(Orders)]]
  /\ night \in BOOLEAN /\ reopened \in Nat
  /\ call \in [Procs -> Calls]
  /\ requests \in Nat /\ faults \in Nat

\* The calls that found t free and have not written yet: those that open an
\* order, and the orders that are being moved.
Opening(t) ==
  {p \in Procs : call[p].table = t /\ call[p].phase \in {"stock", "create"}}

Moving(t) ==
  {call[p].order : p \in {q \in Procs : call[q].table = t /\ In(q, "move")}}

\* "One open bill per table" gives way only as far as calls overlap: each of
\* the calls in flight may have found the table free, and no more bills than
\* that are ever open on it, but for closed ones that a status change reopened.
BillsPerTable ==
  \A t \in Tables :
    Cardinality(OpenBills(t) \cup Moving(t)) + Cardinality(Opening(t))
      <= Cardinality(Procs) + reopened

PlatesInFlight ==
  Total([p \in Procs |-> call[p].plates],
        {p \in Procs : call[p].phase \in {"create", "add"}})

\* The counted plates of orders that went on after theirs were free for others:
\* paid after the hold, or revived by a status or a late confirmation written
\* over a cancellation. Nothing checks the stock for them.
Unchecked == PlatesOf({o \in Orders : Counted(o) /\ order[o].late})

\* The counted plates exceed the daily limit by at most what the other calls in
\* flight had been promised, and by those of orders that went on too late.
NotOversold ==
  Sold + PlatesInFlight
    <= DailyLimit + (Cardinality(Procs) - 1) * MaxPlates + Unchecked

\* Two staff tapping Seat at once open one order for a party, and a second one
\* only after an error between the order and the mark.
SeatedOnce ==
  \A e \in Parties :
    Cardinality({o \in Orders : order[o].party = e}) <= 1 + faults

\* At rest and without faults, a party is SEATED exactly with an order, and a
\* refused seating leaves it waiting in line.
ClaimsAreSettled ==
  Quiet /\ faults = 0 =>
    \A e \in Parties :
      /\ entry[e].status = "SEATED" => entry[e].order # None
      /\ entry[e].status = "WAITING" =>
           \A o \in Orders : order[o].party # e
=============================================================================
