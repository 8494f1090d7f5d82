------------------------ MODULE OrderPlacementProofs ------------------------
(***************************************************************************)
(* Theorems about OrderPlacement, for every set of slots, orders, tables   *)
(* and parties, every limit and every choice of handlers.                  *)
(***************************************************************************)
EXTENDS OrderPlacement, TotalsProofs

-----------------------------------------------------------------------------
\* Types. What a call works on in each of its phases.

GoodCall(c) ==
  /\ c \in Calls
  /\ c.via = "seat" =>
       /\ c.party \in Parties /\ c.table \in Tables
       /\ c.phase \in {"claim", "table", "stock", "create", "markSeated", "release"}
  /\ c.party # None => c.via \in {"seat", "cancelEntry"}
  /\ c.phase \in {"claim", "release", "markSeated"} => c.via = "seat"
  /\ c.phase = "markSeated" => c.order \in Orders
  /\ c.phase = "table" => c.table \in Tables /\ c.via \in {"dineIn", "seat", "move"}
  /\ c.phase \in {"stock", "create"} /\ c.table # None => c.via \in {"dineIn", "seat"}
  /\ c.phase \in {"claim", "table", "stock"} /\ c.via \in {"dineIn", "seat"} =>
       c.order = None
  /\ c.phase = "stock" =>
       c.via \in {"dineIn", "seat", "addItems", "checkout", "phone"}
  /\ c.phase = "create" => c.via \in {"dineIn", "seat", "checkout", "phone"}
  /\ c.via \in {"addItems", "move"} => c.order \in Orders
  /\ c.phase \in {"add", "move"} => c.via \in {"addItems", "move"}
  /\ c.phase = "move" => c.table \in Tables
  /\ c.phase = "settle" => c.order \in Orders /\ c.to \in {"none", "CONFIRMED"}
  /\ c.phase = "update" => c.order \in Orders /\ c.to \in Statuses
  /\ c.phase = "pay" => c.order \in Orders
  /\ c.phase = "cancelEntry" => c.party \in Parties
  /\ c.phase = "closeTable" => c.table \in Tables /\ c.to \in TableStates

SlotsOK == call \in [Procs -> Calls] /\ \A p \in Procs : GoodCall(call[p])

TypeInv == TypeOK /\ SlotsOK

\* A slot at rest is well formed.
LEMMA RestIsGood == GoodCall(NoCall)
BY BoundsAssumption DEF GoodCall, NoCall, Calls, Phases, Vias, Maybe, Plates,
                        Statuses, TableStates

\* Only one slot changes, to a well-formed call.
LEMMA SlotChange ==
  ASSUME SlotsOK, NEW p \in Procs, NEW c, GoodCall(c),
         call' = [call EXCEPT ![p] = c]
  PROVE  SlotsOK'
BY DEF SlotsOK, GoodCall

\* A call that ends leaves its slot at rest.
LEMMA ReturnChange ==
  ASSUME SlotsOK, NEW p \in Procs, Return(p)
  PROVE  SlotsOK'
BY RestIsGood, SlotChange DEF Return

\* What moving on leaves as it was.
LEMMA GotoFields ==
  ASSUME SlotsOK, NEW p \in Procs, NEW phase \in Phases
  PROVE  LET c == [call[p] EXCEPT !.phase = phase] IN
         /\ c \in Calls /\ c.phase = phase /\ c.via = call[p].via
         /\ c.order = call[p].order /\ c.table = call[p].table
         /\ c.party = call[p].party /\ c.plates = call[p].plates
         /\ c.to = call[p].to
BY DEF SlotsOK, Calls

\* A call that moves on keeps all but its phase.
LEMMA GotoChange ==
  ASSUME SlotsOK, NEW p \in Procs, NEW phase \in Phases, Goto(p, phase),
         GoodCall([call[p] EXCEPT !.phase = phase])
  PROVE  SlotsOK'
<1>1. call' = [call EXCEPT ![p] = [call[p] EXCEPT !.phase = phase]]
  BY DEF Goto, SlotsOK
<1>2. QED
  BY <1>1, SlotChange

\* A call that is refused returns, or gives its claim back.
LEMMA RefuseChange ==
  ASSUME SlotsOK, NEW p \in Procs, Refuse(p)
  PROVE  SlotsOK'
<1>1. CASE call[p].via = "seat"
  <2>0. "release" \in Phases
    BY DEF Phases
  <2> DEFINE c == [call[p] EXCEPT !.phase = "release"]
  <2>1. c \in Calls /\ c.phase = "release" /\ c.via = call[p].via
        /\ c.order = call[p].order /\ c.table = call[p].table
        /\ c.party = call[p].party /\ c.to = call[p].to
    BY <2>0, GotoFields
  <2>2. GoodCall(call[p])
    BY DEF SlotsOK
  <2>3. Goto(p, "release")
    BY <1>1 DEF Refuse
  <2>4. GoodCall(c)
    <3> HIDE DEF c
    <3>1. QED
      BY <1>1, <2>1, <2>2 DEF GoodCall
  <2>5. QED
    BY <2>0, <2>3, <2>4, GotoChange
<1>2. CASE call[p].via # "seat"
  BY <1>2, ReturnChange DEF Refuse
<1>3. QED
  BY <1>1, <1>2

\* At the start every slot is at rest.
LEMMA InitTypeInv == Init => TypeInv
<1> SUFFICES ASSUME Init PROVE TypeInv
  OBVIOUS
<1>1. SlotsOK
  BY RestIsGood DEF Init, SlotsOK, GoodCall
<1>2. order \in [Orders -> OrderRows]
  BY DEF Init, NoOrder, OrderRows, Statuses, Kinds, Maybe
<1>3. QED
  BY <1>1, <1>2 DEF Init, TypeInv, TypeOK, SlotsOK, TableStates, EntryStates, Maybe

-----------------------------------------------------------------------------
\* The first step of a call reads and remembers: it writes nothing.

\* What a call that will write a status knows of the order it writes it to.
Fit(c) ==
  /\ c.phase = "settle" =>
       /\ order[c.order].status # "none"
       /\ c.to = "none" => order[c.order].status # "PENDING_PAYMENT"
  /\ c.phase = "update" =>
       order[c.order].status # "none" /\ c.to \notin {"none", "PENDING_PAYMENT"}
  /\ c.phase = "pay" => order[c.order].status # "none"

\* A call that has only begun: it has opened and claimed nothing yet.
Fresh(c) ==
  /\ GoodCall(c) /\ Fit(c)
  /\ c.phase \notin {"create", "add", "move", "markSeated", "release"}
  /\ c.phase = "stock" => c.table = None
  /\ c.via = "seat" => c.phase = "claim"

\* Every call begins in a slot at rest, well formed.
LEMMA StartIsFresh ==
  ASSUME TypeInv, NEW p \in Procs, Start(p)
  PROVE  \E c : Fresh(c) /\ Begin(p, c)
<1>0. /\ NoCall \in Calls /\ 0 \in Plates /\ "none" \in Statuses \cup TableStates
      /\ None \in Maybe(Orders) /\ None \in Maybe(Tables) /\ None \in Maybe(Parties)
      /\ \A o \in Orders : o \in Maybe(Orders) /\ o # None
      /\ \A t \in Tables : t \in Maybe(Tables) /\ t # None
      /\ \A e \in Parties : e \in Maybe(Parties) /\ e # None
  BY RestIsGood, SetsAssumption DEF GoodCall, Calls, NoCall, Maybe, Plates, Statuses
<1>1. ASSUME NEW plates \in Plates, NEW t \in Maybe(Tables), StartDineIn(p, t, plates)
      PROVE  \E c : Fresh(c) /\ Begin(p, c)
  <2> DEFINE phase == IF t = None THEN "stock" ELSE "table"
             c == [NoCall EXCEPT !.via = "dineIn", !.table = t, !.plates = plates,
                                 !.phase = phase]
  <2>1. phase \in Phases /\ "dineIn" \in Vias
    BY DEF Phases, Vias
  <2>2. c \in Calls
    BY <1>0, <2>1, Zenon DEF Calls
  <2>3. /\ c.phase = phase /\ c.via = "dineIn" /\ c.table = t
        /\ c.party = None /\ c.order = None
    BY <1>0 DEF Calls, NoCall
  <2>4. Begin(p, c)
    BY <1>1 DEF StartDineIn
  <2>5. t # None => t \in Tables
    BY DEF Maybe
  <2>6. Fresh(c)
    <3> HIDE DEF c
    <3>1. QED
      BY <2>2, <2>3, <2>5 DEF Fresh, Fit, GoodCall
  <2>7. QED
    BY <2>4, <2>6
<1>2. ASSUME NEW plates \in Plates, NEW e \in Parties, NEW t \in Tables,
             StartSeat(p, e, t, plates)
      PROVE  \E c : Fresh(c) /\ Begin(p, c)
  <2> DEFINE c == [NoCall EXCEPT !.phase = "claim", !.via = "seat", !.party = e,
                                 !.table = t, !.plates = plates]
  <2>1. "claim" \in Phases /\ "seat" \in Vias
    BY DEF Phases, Vias
  <2>2. c \in Calls
    BY <1>0, <2>1, Zenon DEF Calls
  <2>3. /\ c.phase = "claim" /\ c.via = "seat" /\ c.table = t
        /\ c.party = e /\ c.order = None
    BY <1>0 DEF Calls, NoCall
  <2>4. Begin(p, c)
    BY <1>2 DEF StartSeat
  <2>6. Fresh(c)
    <3> HIDE DEF c
    <3>1. QED
      BY <2>2, <2>3 DEF Fresh, Fit, GoodCall
  <2>7. QED
    BY <2>4, <2>6
<1>3. ASSUME NEW plates \in Plates, NEW o \in Orders, StartAddItems(p, o, plates)
      PROVE  \E c : Fresh(c) /\ Begin(p, c)
  <2> DEFINE c == [NoCall EXCEPT !.phase = "stock", !.via = "addItems",
                                 !.order = o, !.plates = plates]
  <2>1. "stock" \in Phases /\ "addItems" \in Vias
    BY DEF Phases, Vias
  <2>2. c \in Calls
    BY <1>0, <2>1, Zenon DEF Calls
  <2>3. /\ c.phase = "stock" /\ c.via = "addItems" /\ c.table = None
        /\ c.party = None /\ c.order = o
    BY <1>0 DEF Calls, NoCall
  <2>4. Begin(p, c)
    BY <1>3 DEF StartAddItems
  <2>6. Fresh(c)
    <3> HIDE DEF c
    <3>1. QED
      BY <2>2, <2>3 DEF Fresh, Fit, GoodCall
  <2>7. QED
    BY <2>4, <2>6
<1>4. ASSUME NEW plates \in Plates, NEW via \in {"checkout", "phone"},
             StartCheckout(p, via, plates)
      PROVE  \E c : Fresh(c) /\ Begin(p, c)
  <2> DEFINE c == [NoCall EXCEPT !.phase = "stock", !.via = via, !.plates = plates]
  <2>1. "stock" \in Phases /\ via \in Vias
    BY DEF Phases, Vias
  <2>2. c \in Calls
    BY <1>0, <2>1, Zenon DEF Calls
  <2>3. /\ c.phase = "stock" /\ c.via = via /\ c.table = None
        /\ c.party = None /\ c.order = None
    BY <1>0 DEF Calls, NoCall
  <2>4. Begin(p, c)
    BY <1>4 DEF StartCheckout
  <2>6. Fresh(c)
    <3> HIDE DEF c
    <3>1. QED
      BY <2>2, <2>3 DEF Fresh, Fit, GoodCall
  <2>7. QED
    BY <2>4, <2>6
<1>5. ASSUME NEW e \in Parties, StartCancelEntry(p, e)
      PROVE  \E c : Fresh(c) /\ Begin(p, c)
  <2> DEFINE c == [NoCall EXCEPT !.phase = "cancelEntry", !.via = "cancelEntry",
                                 !.party = e]
  <2>1. "cancelEntry" \in Phases /\ "cancelEntry" \in Vias
    BY DEF Phases, Vias
  <2>2. c \in Calls
    BY <1>0, <2>1, Zenon DEF Calls
  <2>3. /\ c.phase = "cancelEntry" /\ c.via = "cancelEntry" /\ c.table = None
        /\ c.party = e
    BY <1>0 DEF Calls, NoCall
  <2>4. Begin(p, c)
    BY <1>5 DEF StartCancelEntry
  <2>6. Fresh(c)
    <3> HIDE DEF c
    <3>1. QED
      BY <2>2, <2>3 DEF Fresh, Fit, GoodCall
  <2>7. QED
    BY <2>4, <2>6
<1>6. ASSUME NEW o \in Orders, StartSettle(p, o)
      PROVE  \E c : Fresh(c) /\ Begin(p, c)
  <2> DEFINE to == IF order[o].status = "PENDING_PAYMENT" THEN "CONFIRMED"
                                                          ELSE "none"
             c == [NoCall EXCEPT !.phase = "settle", !.via = "settle",
                                 !.order = o, !.to = to]
  <2>1. "settle" \in Phases /\ "settle" \in Vias /\ to \in Statuses \cup TableStates
    BY DEF Phases, Vias, Statuses
  <2>2. c \in Calls
    BY <1>0, <2>1, Zenon DEF Calls
  <2>3. /\ c.phase = "settle" /\ c.via = "settle" /\ c.table = None
        /\ c.party = None /\ c.order = o /\ c.to = to
    BY <1>0 DEF Calls, NoCall
  <2>4. Begin(p, c)
    BY <1>6 DEF StartSettle
  <2>6. Fresh(c)
    <3> HIDE DEF c
    <3>1. QED
      BY <1>6, <2>2, <2>3 DEF StartSettle, Fresh, Fit, GoodCall
  <2>7. QED
    BY <2>4, <2>6
<1>7. ASSUME NEW o \in Orders, NEW t \in Tables, StartMove(p, o, t)
      PROVE  \E c : Fresh(c) /\ Begin(p, c)
  <2> DEFINE c == [NoCall EXCEPT !.phase = "table", !.via = "move",
                                 !.order = o, !.table = t]
  <2>1. "table" \in Phases /\ "move" \in Vias
    BY DEF Phases, Vias
  <2>2. c \in Calls
    BY <1>0, <2>1, Zenon DEF Calls
  <2>3. /\ c.phase = "table" /\ c.via = "move" /\ c.table = t
        /\ c.party = None /\ c.order = o
    BY <1>0 DEF Calls, NoCall
  <2>4. Begin(p, c)
    BY <1>7 DEF StartMove
  <2>6. Fresh(c)
    <3> HIDE DEF c
    <3>1. QED
      BY <2>2, <2>3 DEF Fresh, Fit, GoodCall
  <2>7. QED
    BY <2>4, <2>6
<1>8. ASSUME NEW o \in Orders, NEW to \in Statuses, StartUpdateStatus(p, o, to)
      PROVE  \E c : Fresh(c) /\ Begin(p, c)
  <2> DEFINE c == [NoCall EXCEPT !.phase = "update", !.via = "update",
                                 !.order = o, !.to = to]
  <2>1. "update" \in Phases /\ "update" \in Vias /\ to \in Statuses \cup TableStates
    BY DEF Phases, Vias
  <2>2. c \in Calls
    BY <1>0, <2>1, Zenon DEF Calls
  <2>3. /\ c.phase = "update" /\ c.via = "update" /\ c.table = None
        /\ c.party = None /\ c.order = o /\ c.to = to
    BY <1>0 DEF Calls, NoCall
  <2>4. Begin(p, c)
    BY <1>8 DEF StartUpdateStatus
  <2>6. Fresh(c)
    <3> HIDE DEF c
    <3>1. QED
      BY <1>8, <2>2, <2>3 DEF StartUpdateStatus, Fresh, Fit, GoodCall
  <2>7. QED
    BY <2>4, <2>6
<1>9. ASSUME NEW t \in Tables, NEW to \in TableStates, StartCloseTable(p, t, to)
      PROVE  \E c : Fresh(c) /\ Begin(p, c)
  <2> DEFINE c == [NoCall EXCEPT !.phase = "closeTable", !.via = "closeTable",
                                 !.table = t, !.to = to]
  <2>1. "closeTable" \in Phases /\ "closeTable" \in Vias
        /\ to \in Statuses \cup TableStates
    BY DEF Phases, Vias
  <2>2. c \in Calls
    BY <1>0, <2>1, Zenon DEF Calls
  <2>3. /\ c.phase = "closeTable" /\ c.via = "closeTable" /\ c.table = t
        /\ c.party = None /\ c.to = to
    BY <1>0 DEF Calls, NoCall
  <2>4. Begin(p, c)
    BY <1>9 DEF StartCloseTable
  <2>6. Fresh(c)
    <3> HIDE DEF c
    <3>1. QED
      BY <2>2, <2>3 DEF Fresh, Fit, GoodCall
  <2>7. QED
    BY <2>4, <2>6
<1>10. ASSUME NEW o \in Orders, StartConfirmPayment(p, o)
       PROVE  \E c : Fresh(c) /\ Begin(p, c)
  <2> DEFINE c == [NoCall EXCEPT !.phase = "pay", !.via = "pay", !.order = o]
  <2>1. "pay" \in Phases /\ "pay" \in Vias
    BY DEF Phases, Vias
  <2>2. c \in Calls
    BY <1>0, <2>1, Zenon DEF Calls
  <2>3. /\ c.phase = "pay" /\ c.via = "pay" /\ c.table = None
        /\ c.party = None /\ c.order = o
    BY <1>0 DEF Calls, NoCall
  <2>4. Begin(p, c)
    BY <1>10 DEF StartConfirmPayment
  <2>6. Fresh(c)
    <3> HIDE DEF c
    <3>1. QED
      BY <1>10, <2>2, <2>3 DEF StartConfirmPayment, Fresh, Fit, GoodCall
  <2>7. QED
    BY <2>4, <2>6
<1>11. QED
  BY <1>1, <1>2, <1>3, <1>4, <1>5, <1>6, <1>7, <1>8, <1>9, <1>10, SMTT(30) DEF Start

\* Beginning a call keeps the types.
LEMMA StartTypeInv ==
  ASSUME TypeInv, NEW p \in Procs, Start(p)
  PROVE  TypeInv'
<1>1. PICK c : Fresh(c) /\ Begin(p, c)
  BY StartIsFresh
<1>2. SlotsOK'
  BY <1>1, SlotChange DEF Fresh, Begin, TypeInv
<1>3. QED
  BY <1>1, <1>2 DEF Begin, TypeInv, TypeOK, SlotsOK

-----------------------------------------------------------------------------
\* Every later step.

\* Moving on to a phase that the call is fit for.
LEMMA MoveOn ==
  ASSUME TypeInv, NEW p \in Procs, NEW phase \in {"table", "stock", "create",
                                                  "add", "move"},
         Goto(p, phase),
         phase = "table" => In(p, "claim"),
         phase = "stock" => In(p, "table") /\ call[p].via # "move",
         phase \in {"create", "add"} => In(p, "stock"),
         phase = "add" => call[p].via = "addItems",
         phase = "create" => call[p].via # "addItems",
         phase = "move" => In(p, "table") /\ call[p].via = "move"
  PROVE  SlotsOK'
<1> DEFINE c == [call[p] EXCEPT !.phase = phase]
<1>0. phase \in Phases /\ SlotsOK
  BY DEF Phases, TypeInv
<1>1. /\ c \in Calls /\ c.phase = phase /\ c.via = call[p].via
      /\ c.order = call[p].order /\ c.table = call[p].table
      /\ c.party = call[p].party /\ c.to = call[p].to
  BY <1>0, GotoFields
<1>2. GoodCall(call[p])
  BY <1>0 DEF SlotsOK
<1>3. GoodCall(c)
  <2> HIDE DEF c
  <2>1. QED
    BY <1>1, <1>2 DEF GoodCall, In
<1>4. QED
  BY <1>0, <1>3, GotoChange

\* A new order is a row.
LEMMA CreateOrderTypeInv ==
  ASSUME TypeInv, NEW p \in Procs, NEW o \in Orders, CreateOrder(p, o)
  PROVE  TypeInv'
<1> USE DEF bounds
<1>0. call[p] \in Calls /\ GoodCall(call[p]) /\ SlotsOK /\ In(p, "create")
  BY DEF TypeInv, SlotsOK, CreateOrder
<1>1. CASE call[p].table # None /\ table[call[p].table] = "deleted"
  <2>1. SlotsOK'
    BY <1>0, <1>1, RefuseChange DEF CreateOrder
  <2>2. QED
    BY <1>1, <2>1 DEF CreateOrder, TypeInv, TypeOK, SlotsOK
<1>2. CASE ~(call[p].table # None /\ table[call[p].table] = "deleted")
  <2> DEFINE kind == KindOf(call[p].via)
             row == [status |-> "PENDING_PAYMENT", kind |-> kind,
                     table |-> call[p].table, plates |-> call[p].plates,
                     paid |-> FALSE, held |-> TRUE, late |-> FALSE,
                     today |-> kind # "dineIn" \/ ~night, party |-> call[p].party]
             c == IF call[p].via = "seat"
                    THEN [call[p] EXCEPT !.phase = "markSeated", !.order = o]
                    ELSE NoCall
  <2>1. order' = [order EXCEPT ![o] = row] /\ call' = [call EXCEPT ![p] = c]
    BY <1>2 DEF CreateOrder, TypeInv, TypeOK
  <2>2. row \in OrderRows
    BY <1>0, BoundsAssumption
    DEF OrderRows, KindOf, Kinds, Statuses, Calls, Plates, Maybe
  <2>3. GoodCall(c)
    <3>1. CASE call[p].via = "seat"
      <4>1. "markSeated" \in Phases /\ o \in Maybe(Orders)
        BY DEF Phases, Maybe
      <4>2. c \in Calls
        BY <1>0, <3>1, <4>1 DEF Calls
      <4>3. /\ c.phase = "markSeated" /\ c.via = "seat" /\ c.order = o
            /\ c.table = call[p].table /\ c.party = call[p].party
        BY <1>0, <3>1 DEF Calls
      <4> HIDE DEF c
      <4>4. QED
        BY <1>0, <3>1, <4>2, <4>3 DEF GoodCall
    <3>2. CASE call[p].via # "seat"
      BY <3>2, RestIsGood
    <3>3. QED
      BY <3>1, <3>2
  <2>4. SlotsOK'
    <3> HIDE DEF c
    <3>1. QED
      BY <1>0, <2>1, <2>3, SlotChange
  <2>5. order' \in [Orders -> OrderRows]
    <3> HIDE DEF row
    <3>1. QED
      BY <2>1, <2>2 DEF TypeInv, TypeOK
  <2>6. QED
    BY <2>4, <2>5 DEF CreateOrder, TypeInv, TypeOK, SlotsOK
<1>3. QED
  BY <1>1, <1>2

\* A row with another value in one of its columns is a row.
LEMMA ColumnChange ==
  ASSUME NEW row \in OrderRows
  PROVE  /\ \A s \in Statuses : [row EXCEPT !.status = s] \in OrderRows
         /\ \A t \in Maybe(Tables) : [row EXCEPT !.table = t] \in OrderRows
         /\ \A n \in Nat : [row EXCEPT !.plates = n] \in OrderRows
         /\ [row EXCEPT !.held = FALSE] \in OrderRows
         /\ \A s \in Statuses : [row EXCEPT !.status = s, !.paid = FALSE] \in OrderRows
         /\ row.plates \in Nat /\ row.held \in BOOLEAN
BY DEF OrderRows

\* Only one order changes, into a row.
LEMMA OrderChange ==
  ASSUME TypeInv, NEW o \in Orders, NEW row \in OrderRows,
         order' = [order EXCEPT ![o] = row]
  PROVE  order' \in [Orders -> OrderRows]
BY DEF TypeInv, TypeOK

\* A status that is written over another leaves a row.
LEMMA WrittenIsRow ==
  ASSUME TypeInv, NEW o \in Orders, NEW to \in Statuses
  PROVE  /\ Written(o, to) \in OrderRows
         /\ [Written(o, to) EXCEPT !.paid = TRUE] \in OrderRows
<1>1. order[o] \in OrderRows
  BY DEF TypeInv, TypeOK
<1>2. Written(o, to) \in OrderRows
  BY <1>1 DEF Written, OrderRows
<1>3. QED
  BY <1>2 DEF OrderRows

\* A step of a call that runs keeps the types.
LEMMA ContinueTypeInv ==
  ASSUME TypeInv, NEW p \in Procs, Continue(p)
  PROVE  TypeInv'
<1> USE DEF bounds
<1>0. call[p] \in Calls /\ GoodCall(call[p]) /\ SlotsOK
  BY DEF TypeInv, SlotsOK
<1>1. CASE ClaimForSeating(p)
  <2>1. SlotsOK'
    BY <1>0, <1>1, MoveOn, ReturnChange DEF ClaimForSeating
  <2>2. entry' \in [Parties -> [status : EntryStates, order : Maybe(Orders)]]
    BY <1>1 DEF ClaimForSeating, TypeInv, TypeOK, EntryStates
  <2>3. QED
    BY <1>1, <2>1, <2>2 DEF ClaimForSeating, TypeInv, TypeOK, SlotsOK
<1>2. CASE CheckTable(p)
  <2>1. SlotsOK'
    BY <1>0, <1>2, MoveOn, RefuseChange DEF CheckTable
  <2>2. QED
    BY <1>2, <2>1 DEF CheckTable, TypeInv, TypeOK, SlotsOK
<1>3. CASE CheckStock(p)
  <2>1. SlotsOK'
    BY <1>0, <1>3, MoveOn, RefuseChange DEF CheckStock
  <2>2. QED
    BY <1>3, <2>1 DEF CheckStock, TypeInv, TypeOK, SlotsOK
<1>4. CASE \E o \in Orders : CreateOrder(p, o)
  BY <1>4, CreateOrderTypeInv
<1>5. CASE MarkSeated(p)
  <2>1. SlotsOK' /\ call[p].order \in Maybe(Orders)
    BY <1>0, <1>5, ReturnChange DEF MarkSeated, Calls
  <2>2. entry' \in [Parties -> [status : EntryStates, order : Maybe(Orders)]]
    BY <1>5, <2>1 DEF MarkSeated, TypeInv, TypeOK
  <2>3. QED
    BY <1>5, <2>1, <2>2 DEF MarkSeated, TypeInv, TypeOK, SlotsOK
<1>6. CASE ReleaseClaim(p)
  <2>1. SlotsOK'
    BY <1>0, <1>6, ReturnChange DEF ReleaseClaim
  <2>2. entry' \in [Parties -> [status : EntryStates, order : Maybe(Orders)]]
    BY <1>6 DEF ReleaseClaim, TypeInv, TypeOK, EntryStates
  <2>3. QED
    BY <1>6, <2>1, <2>2 DEF ReleaseClaim, TypeInv, TypeOK, SlotsOK
<1>7. CASE MarkEntryCancelled(p)
  <2>1. SlotsOK'
    BY <1>0, <1>7, ReturnChange DEF MarkEntryCancelled
  <2>2. entry' \in [Parties -> [status : EntryStates, order : Maybe(Orders)]]
    BY <1>7 DEF MarkEntryCancelled, TypeInv, TypeOK, EntryStates
  <2>3. QED
    BY <1>7, <2>1, <2>2 DEF MarkEntryCancelled, TypeInv, TypeOK, SlotsOK
<1>8. CASE AddItems(p)
  <2>1. SlotsOK' /\ call[p].plates \in Nat
    BY <1>0, <1>8, ReturnChange, BoundsAssumption DEF AddItems, Calls, Plates
  <2>2. order' \in [Orders -> OrderRows]
    <3> DEFINE o == call[p].order
               row == [order[o] EXCEPT !.plates = @ + call[p].plates]
    <3>1. o \in Orders /\ order[o] \in OrderRows
      BY <1>0, <1>8 DEF AddItems, GoodCall, In, TypeInv, TypeOK
    <3> HIDE DEF o
    <3>2. order[o].plates + call[p].plates \in Nat
      <4>1. order[o].plates \in Nat
        BY <3>1, ColumnChange
      <4>2. QED
        BY <2>1, <4>1
    <3>3. row \in OrderRows
      BY <3>1, <3>2, ColumnChange
    <3>4. order' = [order EXCEPT ![o] = row]
      BY <1>8, <3>1 DEF AddItems, TypeInv, TypeOK, o
    <3> HIDE DEF row
    <3>5. QED
      BY <3>1, <3>3, <3>4, OrderChange
  <2>3. QED
    BY <1>8, <2>1, <2>2 DEF AddItems, TypeInv, TypeOK, SlotsOK
<1>9. CASE MoveOrder(p)
  <2>1. SlotsOK' /\ call[p].table \in Maybe(Tables)
    BY <1>0, <1>9, ReturnChange DEF MoveOrder, Calls
  <2>2. order' \in [Orders -> OrderRows]
    <3> DEFINE o == call[p].order
               row == [order[o] EXCEPT !.table = call[p].table]
    <3>1. o \in Orders /\ order[o] \in OrderRows
      BY <1>0, <1>9 DEF MoveOrder, GoodCall, In, TypeInv, TypeOK
    <3>2. row \in OrderRows
      BY <2>1, <3>1, ColumnChange
    <3>3. order' = order \/ order' = [order EXCEPT ![o] = row]
      BY <1>9, <3>1 DEF MoveOrder, TypeInv, TypeOK
    <3> HIDE DEF o, row
    <3>4. QED
      BY <3>1, <3>2, <3>3, OrderChange DEF TypeInv, TypeOK
  <2>3. QED
    BY <1>9, <2>1, <2>2 DEF MoveOrder, TypeInv, TypeOK, SlotsOK
<1>10. CASE MarkPaidManually(p)
  <2> DEFINE o == call[p].order
             to == IF call[p].to = "none" THEN order[o].status ELSE call[p].to
  <2>1. SlotsOK' /\ o \in Orders /\ to \in Statuses
    BY <1>0, <1>10, ReturnChange
    DEF MarkPaidManually, GoodCall, In, Statuses, TypeInv, TypeOK, OrderRows
  <2>2. /\ order' = [order EXCEPT ![o] = [Written(o, to) EXCEPT !.paid = TRUE]]
        /\ CountReopening(o, to)
    BY <1>10 DEF MarkPaidManually
  <2>3. [Written(o, to) EXCEPT !.paid = TRUE] \in OrderRows
    BY <2>1, WrittenIsRow
  <2> HIDE DEF o, to
  <2>4. order' \in [Orders -> OrderRows] /\ reopened' \in Nat
    <3>1. order' \in [Orders -> OrderRows]
      BY <2>1, <2>2, <2>3, OrderChange
    <3>2. reopened' \in Nat
      BY <2>2 DEF CountReopening, TypeInv, TypeOK
    <3>3. QED
      BY <3>1, <3>2
  <2>5. QED
    BY <1>10, <2>1, <2>4 DEF MarkPaidManually, TypeInv, TypeOK, SlotsOK
<1>11. CASE UpdateStatus(p)
  <2>1. SlotsOK' /\ call[p].order \in Orders /\ call[p].to \in Statuses
    BY <1>0, <1>11, ReturnChange DEF UpdateStatus, GoodCall, In
  <2>2. Written(call[p].order, call[p].to) \in OrderRows
    BY <2>1, WrittenIsRow
  <2>3. order' \in [Orders -> OrderRows] /\ reopened' \in Nat
    <3>1. order' \in [Orders -> OrderRows]
      BY <1>11, <2>1, <2>2, OrderChange DEF UpdateStatus
    <3>2. reopened' \in Nat
      BY <1>11 DEF UpdateStatus, CountReopening, TypeInv, TypeOK
    <3>3. QED
      BY <3>1, <3>2
  <2>4. QED
    BY <1>11, <2>1, <2>3 DEF UpdateStatus, TypeInv, TypeOK, SlotsOK
<1>12. CASE CloseTable(p)
  <2>1. SlotsOK' /\ call[p].table \in Tables /\ call[p].to \in TableStates
    BY <1>0, <1>12, ReturnChange DEF CloseTable, GoodCall, In
  <2>2. \A o \in Orders : [order[o] EXCEPT !.table = None] \in OrderRows
    BY DEF TypeInv, TypeOK, OrderRows, Maybe
  <2>3. order' \in [Orders -> OrderRows] /\ table' \in [Tables -> TableStates]
    BY <1>12, <2>1, <2>2 DEF CloseTable, TypeInv, TypeOK
  <2>4. QED
    BY <1>12, <2>1, <2>3 DEF CloseTable, TypeInv, TypeOK, SlotsOK
<1>13. CASE MarkPaid(p)
  <2> DEFINE o == call[p].order
             row == [Written(o, "CONFIRMED") EXCEPT !.paid = TRUE]
  <2>1. SlotsOK' /\ o \in Orders /\ "CONFIRMED" \in Statuses
    BY <1>0, <1>13, ReturnChange DEF MarkPaid, GoodCall, In, Statuses
  <2>2. order' = [order EXCEPT ![o] = row] /\ CountReopening(o, "CONFIRMED")
    BY <1>13 DEF MarkPaid
  <2>3. row \in OrderRows
    BY <2>1, WrittenIsRow
  <2> HIDE DEF o, row
  <2>4. order' \in [Orders -> OrderRows]
    BY <2>1, <2>2, <2>3, OrderChange
  <2>5. reopened' \in Nat
    BY <2>2 DEF CountReopening, TypeInv, TypeOK
  <2>6. QED
    BY <1>13, <2>1, <2>4, <2>5 DEF MarkPaid, TypeInv, TypeOK, SlotsOK
<1>14. QED
  BY <1>1, <1>2, <1>3, <1>4, <1>5, <1>6, <1>7, <1>8, <1>9, <1>10, <1>11, <1>12, <1>13
  DEF Continue

\* Every step keeps the types.
LEMMA TypeInvStep == TypeInv /\ [Next]_vars => TypeInv'
<1> USE DEF bounds
<1> SUFFICES ASSUME TypeInv, [Next]_vars PROVE TypeInv'
  OBVIOUS
<1>1. ASSUME NEW p \in Procs, Throw(p) PROVE TypeInv'
  <2>1. SlotsOK'
    BY <1>1, RefuseChange, ReturnChange DEF Throw, TypeInv
  <2>2. QED
    BY <1>1, <2>1 DEF Throw, TypeInv, TypeOK, SlotsOK
<1>2. ASSUME NEW p \in Procs, Die(p) PROVE TypeInv'
  <2>1. SlotsOK'
    BY <1>2, ReturnChange DEF Die, TypeInv
  <2>2. QED
    BY <1>2, <2>1 DEF Die, TypeInv, TypeOK, SlotsOK
<1>3. ASSUME NEW o \in Orders, CancelWithRefund(o) \/ HoldExpires(o)
      PROVE  TypeInv'
  <2>1. order' \in [Orders -> OrderRows]
    <3> DEFINE row == order[o]
               cancelled == [row EXCEPT !.status = "CANCELLED", !.paid = FALSE]
               expired == [row EXCEPT !.held = FALSE]
    <3>1. row \in OrderRows
      BY DEF TypeInv, TypeOK
    <3>2. "CANCELLED" \in Statuses
      BY DEF Statuses
    <3>3. cancelled \in OrderRows /\ expired \in OrderRows
      BY <3>1, <3>2, ColumnChange
    <3>4. \E new \in {cancelled, expired} : order' = [order EXCEPT ![o] = new]
      BY <1>3 DEF CancelWithRefund, HoldExpires, TypeInv, TypeOK
    <3> HIDE DEF cancelled, expired
    <3>5. QED
      BY <3>3, <3>4, OrderChange
  <2>2. UNCHANGED <<table, entry, night, reopened, call, requests, faults>>
    BY <1>3 DEF CancelWithRefund, HoldExpires
  <2>3. QED
    BY <2>1, <2>2 DEF TypeInv, TypeOK, SlotsOK, GoodCall
<1>4. CASE Dawn
  BY <1>4 DEF Dawn, TypeInv, TypeOK, SlotsOK, GoodCall
<1>5. CASE UNCHANGED vars
  BY <1>5 DEF vars, TypeInv, TypeOK, SlotsOK, GoodCall
<1>6. QED
  BY <1>1, <1>2, <1>3, <1>4, <1>5, StartTypeInv, ContinueTypeInv DEF Next

\* The types hold in every reachable state.
LEMMA TypeInvAlways == Spec => []TypeInv
<1>1. QED
  BY InitTypeInv, TypeInvStep, PTL DEF Spec

\* Every column and every call keeps its type, whatever overlaps.
THEOREM TypeCorrect == Spec => []TypeOK
<1>1. TypeInv => TypeOK
  BY DEF TypeInv
<1>2. QED
  BY TypeInvAlways, <1>1, PTL

-----------------------------------------------------------------------------
\* Seating. A party is out of the line while one call seats it, and that call
\* has its one chance to open an order.

Seated(e) == {o \in Orders : order[o].party = e}

Seating(p, e) ==
  /\ call[p].via = "seat" /\ call[p].party = e
  /\ call[p].phase \in {"table", "stock", "create", "markSeated", "release"}

\* Who has yet to open its order, or will not.
Early(p, e) == Seating(p, e) /\ call[p].phase # "markSeated"

SeatOf(e) ==
  /\ \A p, q \in Procs : Seating(p, e) /\ Seating(q, e) => p = q
  /\ entry[e].status = "WAITING" => \A p \in Procs : ~Seating(p, e)
  /\ Cardinality(Seated(e)) <= 1 + faults
  /\ entry[e].status = "WAITING" \/ (\E p \in Procs : Early(p, e)) =>
       Cardinality(Seated(e)) <= faults
  /\ faults = 0 /\ entry[e].status = "SEATED" /\ entry[e].order = None =>
       \E p \in Procs : Seating(p, e)

SeatInv == \A e \in Parties : SeatOf(e)

\* The orders of a party can be counted.
LEMMA SeatedIsFinite ==
  \A e : IsFiniteSet(Seated(e)) /\ Cardinality(Seated(e)) \in Nat
<1> SUFFICES ASSUME NEW e
             PROVE  IsFiniteSet(Seated(e)) /\ Cardinality(Seated(e)) \in Nat
  OBVIOUS
<1>1. Seated(e) \in SUBSET Orders
  BY DEF Seated
<1>2. QED
  BY <1>1, SetsAssumption, FS_Subset, FS_CardinalityType

\* At the start everybody waits and nobody has an order.
LEMMA InitSeatInv == Init => SeatInv
<1> SUFFICES ASSUME Init, NEW e \in Parties PROVE SeatOf(e)
  BY DEF SeatInv
<1>1. Seated(e) = {}
  BY SetsAssumption DEF Init, NoOrder, Seated
<1>2. \A p \in Procs : ~Seating(p, e)
  BY DEF Init, NoCall, Seating
<1>3. Cardinality(Seated(e)) = 0 /\ faults = 0
  BY <1>1, FS_EmptySet DEF Init
<1>4. QED
  BY <1>2, <1>3 DEF SeatOf, Early, Init

\* What a step of one call may do to a party it does not open an order for.
LEMMA SeatFrame ==
  ASSUME TypeInv, NEW e \in Parties, SeatOf(e), NEW p \in Procs,
         \A q \in Procs \ {p} : call'[q] = call[q],
         Seated(e)' \subseteq Seated(e), entry'[e] = entry[e], faults' = faults,
         Seating(p, e)' <=> Seating(p, e),
         Early(p, e)' => Early(p, e)
  PROVE  SeatOf(e)'
<1>0. /\ Cardinality(Seated(e)') <= Cardinality(Seated(e)) /\ faults \in Nat
      /\ Cardinality(Seated(e)') \in Nat /\ Cardinality(Seated(e)) \in Nat
  <2> DEFINE S == Seated(e)
             T == Seated(e)'
  <2>1. IsFiniteSet(S) /\ T \in SUBSET S
    BY SeatedIsFinite
  <2> HIDE DEF S, T
  <2>2. IsFiniteSet(T) /\ Cardinality(T) <= Cardinality(S)
    BY <2>1, FS_Subset
  <2>3. Cardinality(T) \in Nat /\ Cardinality(S) \in Nat
    BY <2>1, <2>2, FS_CardinalityType
  <2>4. QED
    BY <2>2, <2>3 DEF S, T, TypeInv, TypeOK
<1>1. \A q \in Procs : (Seating(q, e)' <=> Seating(q, e)) /\ (Early(q, e)' => Early(q, e))
  BY DEF Seating, Early
<1> HIDE DEF Seating, Early, Seated
<1>2. QED
  BY <1>0, <1>1 DEF SeatOf

\* A step that leaves the other slots alone.
OnlySlot(p) == \A q \in Procs \ {p} : call'[q] = call[q]

\* Every way of moving one call leaves the others alone.
LEMMA OneSlotMoves ==
  ASSUME TypeInv, NEW p \in Procs,
         \/ Return(p) \/ Refuse(p) \/ \E phase : Goto(p, phase)
         \/ \E c : call' = [call EXCEPT ![p] = c]
  PROVE  OnlySlot(p)
BY DEF OnlySlot, Return, Refuse, Goto, TypeInv, TypeOK

\* What becomes of the slot itself.
LEMMA SlotBecomes ==
  ASSUME TypeInv, NEW p \in Procs
  PROVE  /\ Return(p) => call'[p] = NoCall
         /\ \A phase : Goto(p, phase) => call'[p] = [call[p] EXCEPT !.phase = phase]
         /\ \A c : call' = [call EXCEPT ![p] = c] => call'[p] = c
BY DEF Return, Goto, TypeInv, TypeOK

\* A call that is refused still holds its claim, until it gives it back.
LEMMA RefusedSeats ==
  ASSUME TypeInv, NEW p \in Procs, NEW e \in Parties, Refuse(p),
         call[p].phase \in {"table", "stock", "create"} \/ ~Seating(p, e),
         call[p].phase # "claim"
  PROVE  (Seating(p, e)' <=> Seating(p, e)) /\ (Early(p, e)' => Early(p, e))
<1>0. call[p] \in Calls /\ GoodCall(call[p])
  BY DEF TypeInv, SlotsOK
<1>1. CASE call[p].via = "seat"
  <2>1. call'[p] = [call[p] EXCEPT !.phase = "release"]
    BY <1>1, SlotBecomes DEF Refuse
  <2>2. call'[p].phase = "release" /\ call'[p].via = "seat"
        /\ call'[p].party = call[p].party
    BY <1>0, <1>1, <2>1 DEF Calls
  <2>3. QED
    BY <1>0, <1>1, <2>2 DEF Seating, Early, GoodCall, Calls, Phases
<1>2. CASE call[p].via # "seat"
  <2>1. call'[p] = NoCall
    BY <1>2, SlotBecomes DEF Refuse
  <2>2. QED
    BY <1>2, <2>1 DEF Seating, Early, NoCall
<1>3. QED
  BY <1>1, <1>2

\* A call that does not seat e before its step nor after it leaves e alone.
LEMMA Bystander ==
  ASSUME TypeInv, NEW e \in Parties, SeatOf(e), NEW p \in Procs, OnlySlot(p),
         Seated(e)' \subseteq Seated(e), entry'[e] = entry[e], faults' = faults,
         ~Seating(p, e), ~Seating(p, e)'
  PROVE  SeatOf(e)'
BY SeatFrame DEF OnlySlot, Early

\* Orders keep their parties, whatever is written over their other columns.
LEMMA PartiesStay ==
  ASSUME \A o \in Orders : order'[o].party = order[o].party
  PROVE  \A e : Seated(e)' = Seated(e)
BY DEF Seated

\* The writes to an order that exists.
LEMMA WritesKeepParties ==
  ASSUME TypeInv, NEW p \in Procs,
         \/ AddItems(p) \/ MoveOrder(p) \/ MarkPaidManually(p) \/ UpdateStatus(p)
         \/ CloseTable(p) \/ MarkPaid(p)
  PROVE  /\ Return(p) /\ entry' = entry /\ faults' = faults
         /\ \A o \in Orders : order'[o].party = order[o].party
         /\ call[p].via # "seat"
<1>0. GoodCall(call[p]) /\ order \in [Orders -> OrderRows]
  BY DEF TypeInv, TypeOK, SlotsOK
<1>1. call[p].via # "seat" /\ Return(p) /\ entry' = entry /\ faults' = faults
  BY <1>0 DEF AddItems, MoveOrder, MarkPaidManually, UpdateStatus, CloseTable,
              MarkPaid, GoodCall, In, bounds
<1>2. \A o \in Orders : \A to : /\ Written(o, to).party = order[o].party
                                 /\ [Written(o, to) EXCEPT !.paid = TRUE].party
                                      = order[o].party
  BY <1>0 DEF Written, OrderRows
<1>3. \A o \in Orders : /\ \A n : [order[o] EXCEPT !.plates = n].party = order[o].party
                        /\ \A t : [order[o] EXCEPT !.table = t].party = order[o].party
  BY <1>0 DEF OrderRows
<1>4. CASE AddItems(p)
  BY <1>0, <1>1, <1>3, <1>4 DEF AddItems
<1>5. CASE MoveOrder(p)
  BY <1>0, <1>1, <1>3, <1>5 DEF MoveOrder
<1>6. CASE MarkPaidManually(p) \/ MarkPaid(p)
  <2>1. \E o, to : order' = [order EXCEPT ![o] = [Written(o, to) EXCEPT !.paid = TRUE]]
    BY <1>6 DEF MarkPaidManually, MarkPaid
  <2>2. QED
    BY <1>0, <1>1, <1>2, <2>1
<1>7. CASE UpdateStatus(p)
  <2>1. \E o, to : order' = [order EXCEPT ![o] = Written(o, to)]
    BY <1>7 DEF UpdateStatus
  <2>2. QED
    BY <1>0, <1>1, <1>2, <2>1
<1>8. CASE CloseTable(p)
  <2>1. \A o \in Orders : \/ order'[o] = order[o]
                          \/ order'[o] = [order[o] EXCEPT !.table = None]
    BY <1>0, <1>8 DEF CloseTable
  <2>2. \A o \in Orders : order'[o].party = order[o].party
    <3>1. \A o \in Orders : [order[o] EXCEPT !.table = None].party = order[o].party
      BY <1>3
    <3>2. QED
      BY <2>1, <3>1
  <2>3. QED
    BY <1>1, <2>2
<1>9. QED
  BY <1>4, <1>5, <1>6, <1>7, <1>8

\* Taking the claim, or finding it taken.
LEMMA ClaimSeatInv ==
  ASSUME TypeInv, NEW e \in Parties, SeatOf(e), NEW p \in Procs, ClaimForSeating(p)
  PROVE  SeatOf(e)'
<1>0. /\ call[p] \in Calls /\ GoodCall(call[p]) /\ call[p].phase = "claim"
      /\ call[p].via = "seat" /\ ~Seating(p, e) /\ Seated(e)' = Seated(e)
      /\ faults' = faults
  BY DEF TypeInv, SlotsOK, GoodCall, ClaimForSeating, In, Seating, Seated, bounds
<1>1. OnlySlot(p)
  BY OneSlotMoves DEF ClaimForSeating
<1>2. CASE entry[call[p].party].status = "WAITING" /\ call[p].party = e
  <2>1. call'[p] = [call[p] EXCEPT !.phase = "table"]
    BY <1>2, SlotBecomes DEF ClaimForSeating
  <2>2. call'[p].phase = "table" /\ call'[p].via = "seat" /\ call'[p].party = e
    BY <1>0, <1>2, <2>1 DEF Calls
  <2>3. entry'[e].status = "SEATED" /\ entry'[e].order = entry[e].order
    BY <1>2 DEF ClaimForSeating, TypeInv, TypeOK
  <2>4. \A q \in Procs : Seating(q, e)' <=> q = p
    BY <1>1, <1>2, <2>2 DEF OnlySlot, Seating, SeatOf
  <2>5. Cardinality(Seated(e)) <= faults /\ Cardinality(Seated(e)) <= 1 + faults
    BY <1>2 DEF SeatOf
  <2> HIDE DEF Seating, Seated
  <2>6. QED
    BY <1>0, <2>3, <2>4, <2>5 DEF SeatOf
<1>3. CASE entry[call[p].party].status = "WAITING" /\ call[p].party # e
  <2>1. call'[p] = [call[p] EXCEPT !.phase = "table"] /\ entry'[e] = entry[e]
    BY <1>3, SlotBecomes DEF ClaimForSeating, TypeInv, TypeOK
  <2>2. ~Seating(p, e)'
    BY <1>0, <1>3, <2>1 DEF Seating, Calls
  <2>3. QED
    BY <1>0, <1>1, <2>1, <2>2, Bystander
<1>4. CASE entry[call[p].party].status # "WAITING"
  <2>1. call'[p] = NoCall /\ entry' = entry
    BY <1>4, SlotBecomes DEF ClaimForSeating
  <2>2. ~Seating(p, e)'
    BY <2>1 DEF Seating, NoCall
  <2>3. QED
    BY <1>0, <1>1, <2>1, <2>2, Bystander
<1>5. QED
  BY <1>2, <1>3, <1>4

\* The checks: a seating goes on being one, refused or not.
LEMMA CheckSeatInv ==
  ASSUME TypeInv, NEW e \in Parties, SeatOf(e), NEW p \in Procs,
         CheckTable(p) \/ CheckStock(p)
  PROVE  SeatOf(e)'
<1>0. /\ call[p] \in Calls /\ GoodCall(call[p]) /\ Seated(e)' = Seated(e)
      /\ entry' = entry /\ faults' = faults
      /\ call[p].phase \in {"table", "stock"}
  BY DEF TypeInv, SlotsOK, CheckTable, CheckStock, In, Seated, bounds
<1>1. OnlySlot(p)
  BY OneSlotMoves DEF CheckTable, CheckStock
<1>2. (Seating(p, e)' <=> Seating(p, e)) /\ (Early(p, e)' => Early(p, e))
  <2>1. CASE Refuse(p)
    BY <1>0, <2>1, RefusedSeats
  <2>2. CASE \E phase \in {"stock", "move", "add", "create"} :
               /\ Goto(p, phase)
               /\ call[p].via = "seat" => phase \in {"stock", "create"}
    <3>1. PICK phase \in {"stock", "move", "add", "create"} :
            /\ call'[p] = [call[p] EXCEPT !.phase = phase]
            /\ call[p].via = "seat" => phase \in {"stock", "create"}
      BY <2>2, SlotBecomes
    <3>2. call'[p].phase = phase /\ call'[p].via = call[p].via
          /\ call'[p].party = call[p].party
      BY <1>0, <3>1 DEF Calls
    <3>3. QED
      BY <1>0, <3>1, <3>2 DEF Seating, Early
  <2>3. QED
    BY <2>1, <2>2 DEF CheckTable, CheckStock
<1>3. QED
  BY <1>0, <1>1, <1>2, SeatFrame DEF OnlySlot

\* Opening an order uses up the one chance of a seating.
LEMMA CreateSeatInv ==
  ASSUME TypeInv, NEW e \in Parties, SeatOf(e), NEW p \in Procs,
         NEW o \in Orders, CreateOrder(p, o)
  PROVE  SeatOf(e)'
<1>0. /\ call[p] \in Calls /\ GoodCall(call[p]) /\ call[p].phase = "create"
      /\ entry' = entry /\ faults' = faults /\ faults \in Nat
  BY DEF TypeInv, TypeOK, SlotsOK, CreateOrder, In, bounds
<1>1. CASE call[p].table # None /\ table[call[p].table] = "deleted"
  <2>1. Refuse(p) /\ order' = order
    BY <1>1 DEF CreateOrder
  <2>2. OnlySlot(p) /\ Seated(e)' = Seated(e)
    BY <2>1, OneSlotMoves DEF Seated
  <2>3. (Seating(p, e)' <=> Seating(p, e)) /\ (Early(p, e)' => Early(p, e))
    BY <1>0, <2>1, RefusedSeats
  <2>4. QED
    BY <1>0, <2>2, <2>3, SeatFrame DEF OnlySlot
<1>2. CASE ~(call[p].table # None /\ table[call[p].table] = "deleted")
  <2> DEFINE c == IF call[p].via = "seat"
                    THEN [call[p] EXCEPT !.phase = "markSeated", !.order = o]
                    ELSE NoCall
  <2>1. call' = [call EXCEPT ![p] = c]
    BY <1>2 DEF CreateOrder, TypeInv, TypeOK
  <2>2. OnlySlot(p) /\ call'[p] = c
    <3> HIDE DEF c
    <3>1. QED
      BY <2>1, OneSlotMoves, SlotBecomes
  <2>3. \A x \in Orders : order'[x].party = IF x = o THEN call[p].party
                                                     ELSE order[x].party
    BY <1>2 DEF CreateOrder, TypeInv, TypeOK
  <2>4. CASE call[p].party = e
    <3>0. call[p].via = "seat" /\ Seating(p, e) /\ Early(p, e)
      BY <1>0, <2>4, SetsAssumption DEF GoodCall, Seating, Early
    <3>1. Cardinality(Seated(e)) <= faults /\ entry[e].status # "WAITING"
      BY <3>0 DEF SeatOf
    <3>2. Seated(e)' = Seated(e) \cup {o}
      BY <2>3, <2>4 DEF Seated
    <3>3. Cardinality(Seated(e)') <= 1 + faults
      <4> DEFINE S == Seated(e)
      <4>1. IsFiniteSet(S) /\ Cardinality(S) \in Nat /\ Cardinality(S) <= faults
        BY <3>1, SeatedIsFinite
      <4> HIDE DEF S
      <4>2. Cardinality(S \cup {o}) <= 1 + faults
        <5>1. \/ Cardinality(S \cup {o}) = Cardinality(S)
              \/ Cardinality(S \cup {o}) = Cardinality(S) + 1
          BY <4>1, FS_AddElement
        <5>2. faults \in Nat
          BY <1>0
        <5>3. QED
          BY <4>1, <5>1, <5>2
      <4>3. QED
        BY <3>2, <4>2 DEF S
    <3>4. call'[p].phase = "markSeated" /\ call'[p].via = "seat"
          /\ call'[p].party = e
      BY <1>0, <2>2, <2>4, <3>0 DEF Calls
    <3>5. \A q \in Procs : Seating(q, e)' <=> q = p
      <4>1. \A q \in Procs : Seating(q, e) => q = p
        <5> HIDE DEF Seating
        <5>1. QED
          BY <3>0 DEF SeatOf
      <4>2. QED
        BY <2>2, <3>4, <4>1 DEF OnlySlot, Seating
    <3>6. \A q \in Procs : ~Early(q, e)'
      BY <3>4, <3>5 DEF Early
    <3> HIDE DEF Seating, Early, Seated
    <3>7. QED
      BY <1>0, <3>1, <3>3, <3>5, <3>6 DEF SeatOf
  <2>5. CASE call[p].party # e
    <3>1. ~Seating(p, e) /\ ~Seating(p, e)'
      BY <1>0, <2>2, <2>5, SetsAssumption DEF Seating, NoCall, Calls
    <3>2. Seated(e)' \subseteq Seated(e)
      BY <2>3, <2>5 DEF Seated
    <3>3. QED
      BY <1>0, <2>2, <3>1, <3>2, Bystander
  <2>6. QED
    BY <2>4, <2>5
<1>3. QED
  BY <1>1, <1>2

\* The party has its order, and the seating is over.
LEMMA MarkSeatInv ==
  ASSUME TypeInv, NEW e \in Parties, SeatOf(e), NEW p \in Procs, MarkSeated(p)
  PROVE  SeatOf(e)'
<1>0. /\ call[p] \in Calls /\ GoodCall(call[p]) /\ call[p].phase = "markSeated"
      /\ call[p].via = "seat" /\ Seated(e)' = Seated(e) /\ faults' = faults
      /\ call[p].order \in Orders /\ call[p].order # None
  BY SetsAssumption DEF TypeInv, SlotsOK, GoodCall, MarkSeated, In, Seated, bounds
<1>1. OnlySlot(p) /\ call'[p] = NoCall
  BY OneSlotMoves, SlotBecomes DEF MarkSeated
<1>2. ~Seating(p, e)'
  BY <1>1 DEF Seating, NoCall
<1>3. CASE call[p].party = e
  <2>1. Seating(p, e)
    BY <1>0, <1>3 DEF Seating
  <2>2. entry'[e].status = entry[e].status /\ entry'[e].order = call[p].order
    BY <1>3 DEF MarkSeated, TypeInv, TypeOK
  <2>3. \A q \in Procs : ~Seating(q, e)'
    <3>1. \A q \in Procs : Seating(q, e) => q = p
      <4> HIDE DEF Seating
      <4>1. QED
        BY <2>1 DEF SeatOf
    <3>2. QED
      BY <1>1, <1>2, <3>1 DEF OnlySlot, Seating
  <2>4. entry[e].status # "WAITING"
    BY <2>1 DEF SeatOf
  <2>5. \A q \in Procs : ~Early(q, e)'
    BY <2>3 DEF Early
  <2> HIDE DEF Seating, Early, Seated
  <2>6. QED
    BY <1>0, <2>2, <2>3, <2>4, <2>5 DEF SeatOf
<1>4. CASE call[p].party # e
  <2>1. entry'[e] = entry[e] /\ ~Seating(p, e)
    BY <1>4 DEF MarkSeated, TypeInv, TypeOK, Seating
  <2>2. QED
    BY <1>0, <1>1, <1>2, <2>1, Bystander
<1>5. QED
  BY <1>3, <1>4

\* Giving the claim back puts the party in line again: it has no order of this
\* seating, unless an error came after the order was written.
LEMMA ReleaseSeatInv ==
  ASSUME TypeInv, NEW e \in Parties, SeatOf(e), NEW p \in Procs, ReleaseClaim(p)
  PROVE  SeatOf(e)'
<1>0. /\ call[p] \in Calls /\ GoodCall(call[p]) /\ call[p].phase = "release"
      /\ call[p].via = "seat" /\ Seated(e)' = Seated(e) /\ faults' = faults
  BY DEF TypeInv, SlotsOK, GoodCall, ReleaseClaim, In, Seated, bounds
<1>1. OnlySlot(p) /\ call'[p] = NoCall
  BY OneSlotMoves, SlotBecomes DEF ReleaseClaim
<1>2. ~Seating(p, e)'
  BY <1>1 DEF Seating, NoCall
<1>3. CASE call[p].party = e
  <2>1. Seating(p, e) /\ Early(p, e)
    BY <1>0, <1>3 DEF Seating, Early
  <2>2. \/ entry'[e].status = "WAITING"
        \/ entry'[e] = entry[e] /\ ~(entry[e].status = "SEATED" /\ entry[e].order = None)
    BY <1>3 DEF ReleaseClaim, TypeInv, TypeOK
  <2>3. \A q \in Procs : ~Seating(q, e)'
    <3>1. \A q \in Procs : Seating(q, e) => q = p
      <4> HIDE DEF Seating
      <4>1. QED
        BY <2>1 DEF SeatOf
    <3>2. QED
      BY <1>1, <1>2, <3>1 DEF OnlySlot, Seating
  <2>4. Cardinality(Seated(e)) <= faults /\ Cardinality(Seated(e)) <= 1 + faults
    BY <2>1 DEF SeatOf
  <2> HIDE DEF Seating, Early, Seated
  <2>5. QED
    BY <1>0, <2>2, <2>3, <2>4 DEF SeatOf
<1>4. CASE call[p].party # e
  <2>1. entry'[e] = entry[e] /\ ~Seating(p, e)
    BY <1>4 DEF ReleaseClaim, TypeInv, TypeOK, Seating
  <2>2. QED
    BY <1>0, <1>1, <1>2, <2>1, Bystander
<1>5. QED
  BY <1>3, <1>4

\* A party taken off the line, even one that is being seated.
LEMMA CancelSeatInv ==
  ASSUME TypeInv, NEW e \in Parties, SeatOf(e), NEW p \in Procs,
         MarkEntryCancelled(p)
  PROVE  SeatOf(e)'
<1>0. Seated(e)' = Seated(e) /\ faults' = faults
  BY DEF MarkEntryCancelled, Seated, bounds
<1>1. OnlySlot(p) /\ call'[p] = NoCall
  BY OneSlotMoves, SlotBecomes DEF MarkEntryCancelled
<1>2. ~Seating(p, e) /\ ~Seating(p, e)'
  BY <1>1 DEF Seating, NoCall, MarkEntryCancelled, In
<1>3. CASE call[p].party = e
  <2>1. entry'[e].status = "CANCELLED"
    BY <1>3 DEF MarkEntryCancelled, TypeInv, TypeOK
  <2>2. \A q \in Procs : (Seating(q, e)' <=> Seating(q, e)) /\ (Early(q, e)' => Early(q, e))
    BY <1>1, <1>2 DEF OnlySlot, Seating, Early
  <2> HIDE DEF Seating, Early, Seated
  <2>3. QED
    BY <1>0, <2>1, <2>2 DEF SeatOf
<1>4. CASE call[p].party # e
  <2>1. entry'[e] = entry[e]
    BY <1>4 DEF MarkEntryCancelled, TypeInv, TypeOK
  <2>2. QED
    BY <1>0, <1>1, <1>2, <2>1, Bystander
<1>5. QED
  BY <1>3, <1>4

\* A fault ends a call or makes it give its claim back: the fault itself makes
\* room for the order that may have been opened.
LEMMA FaultSeatInv ==
  ASSUME TypeInv, NEW e \in Parties, SeatOf(e), NEW p \in Procs, Throw(p) \/ Die(p)
  PROVE  SeatOf(e)'
<1>0. /\ call[p] \in Calls /\ GoodCall(call[p]) /\ Seated(e)' = Seated(e)
      /\ entry' = entry /\ faults' = faults + 1 /\ faults \in Nat
  BY DEF TypeInv, TypeOK, SlotsOK, Throw, Die, Seated
<1>1. OnlySlot(p)
  BY OneSlotMoves DEF Throw, Die
<1>2. Seating(p, e)' => Seating(p, e)
  <2>1. CASE Return(p)
    <3>1. call'[p] = NoCall
      BY <2>1, SlotBecomes
    <3>2. QED
      BY <3>1 DEF Seating, NoCall
  <2>2. CASE Refuse(p) /\ call[p].phase \notin {"claim", "release"} /\ call[p].via = "seat"
    <3>1. call'[p] = [call[p] EXCEPT !.phase = "release"]
      BY <2>2, SlotBecomes DEF Refuse
    <3>2. call'[p].party = call[p].party
      BY <1>0, <3>1 DEF Calls
    <3>3. QED
      BY <1>0, <2>2, <3>2 DEF Seating, GoodCall
  <2>3. QED
    BY <2>1, <2>2 DEF Throw, Die, Refuse
<1>3. \A q \in Procs : Seating(q, e)' => Seating(q, e)
  BY <1>1, <1>2 DEF OnlySlot, Seating
<1>4. Cardinality(Seated(e)) \in Nat
  BY SeatedIsFinite
<1> HIDE DEF Seating, Early, Seated
<1>5. QED
  BY <1>0, <1>3, <1>4 DEF SeatOf

\* Beginning a call takes nothing and opens nothing.
LEMMA StartSeatInv ==
  ASSUME TypeInv, NEW e \in Parties, SeatOf(e), NEW p \in Procs, Start(p)
  PROVE  SeatOf(e)'
<1>1. PICK c : Fresh(c) /\ Begin(p, c)
  BY StartIsFresh
<1>2. /\ call'[p] = c /\ OnlySlot(p) /\ Seated(e)' = Seated(e)
      /\ entry'[e] = entry[e] /\ faults' = faults
  BY <1>1, OneSlotMoves, SlotBecomes DEF Begin, Seated
<1>3. ~Seating(p, e) /\ ~Seating(p, e)'
  BY <1>1, <1>2 DEF Seating, Fresh, Begin, Idle
<1>4. QED
  BY <1>2, <1>3, Bystander

\* The writes to an order that exists leave the seatings alone.
LEMMA WriteSeatInv ==
  ASSUME TypeInv, NEW e \in Parties, SeatOf(e), NEW p \in Procs,
         \/ AddItems(p) \/ MoveOrder(p) \/ MarkPaidManually(p) \/ UpdateStatus(p)
         \/ CloseTable(p) \/ MarkPaid(p)
  PROVE  SeatOf(e)'
<1>1. /\ Return(p) /\ entry'[e] = entry[e] /\ faults' = faults
      /\ Seated(e)' = Seated(e) /\ call[p].via # "seat"
  BY WritesKeepParties, PartiesStay
<1>2. OnlySlot(p) /\ call'[p] = NoCall
  BY <1>1, OneSlotMoves, SlotBecomes
<1>3. ~Seating(p, e) /\ ~Seating(p, e)'
  BY <1>1, <1>2 DEF Seating, NoCall
<1>4. QED
  BY <1>1, <1>2, <1>3, Bystander

\* What happens outside the calls leaves them and the parties alone.
LEMMA OutsideSeatInv ==
  ASSUME TypeInv, NEW e \in Parties, SeatOf(e),
         \/ \E o \in Orders : CancelWithRefund(o) \/ HoldExpires(o)
         \/ Dawn
         \/ UNCHANGED vars
  PROVE  SeatOf(e)'
<1>1. entry' = entry /\ faults' = faults /\ call' = call
  BY DEF CancelWithRefund, HoldExpires, Dawn, vars, bounds
<1>2. \A o \in Orders : order'[o].party = order[o].party
  <2>1. CASE \E o \in Orders : CancelWithRefund(o) \/ HoldExpires(o)
    <3>1. PICK o \in Orders : CancelWithRefund(o) \/ HoldExpires(o)
      BY <2>1
    <3>2. order \in [Orders -> OrderRows]
      BY DEF TypeInv, TypeOK
    <3>3. CASE CancelWithRefund(o)
      <4>1. order' = [order EXCEPT ![o] = [[@ EXCEPT !.status = "CANCELLED"]
                                             EXCEPT !.paid = FALSE]]
        BY <3>2, <3>3 DEF CancelWithRefund
      <4>2. \A r \in OrderRows :
              [[r EXCEPT !.status = "CANCELLED"] EXCEPT !.paid = FALSE].party
                = r.party
        BY DEF OrderRows
      <4>3. QED
        BY <3>2, <4>1, <4>2
    <3>4. CASE HoldExpires(o)
      <4>1. order' = [order EXCEPT ![o] = [@ EXCEPT !.held = FALSE]]
        BY <3>2, <3>4 DEF HoldExpires
      <4>2. \A r \in OrderRows : [r EXCEPT !.held = FALSE].party = r.party
        BY DEF OrderRows
      <4>3. QED
        BY <3>2, <4>1, <4>2
    <3>5. QED
      BY <3>1, <3>3, <3>4
  <2>2. CASE Dawn \/ UNCHANGED vars
    BY <2>2 DEF Dawn, vars
  <2>3. QED
    BY <2>1, <2>2
<1>3. Seated(e)' = Seated(e)
  BY <1>2, PartiesStay
<1>4. \A q \in Procs : (Seating(q, e)' <=> Seating(q, e)) /\ (Early(q, e)' <=> Early(q, e))
  BY <1>1 DEF Seating, Early
<1> HIDE DEF Seating, Early, Seated
<1>5. QED
  BY <1>1, <1>3, <1>4 DEF SeatOf

\* Every step keeps it.
LEMMA SeatInvStep == TypeInv /\ SeatInv /\ [Next]_vars => SeatInv'
<1> SUFFICES ASSUME TypeInv, SeatInv, [Next]_vars, NEW e \in Parties
             PROVE  SeatOf(e)'
  BY DEF SeatInv
<1>0. SeatOf(e)
  BY DEF SeatInv
<1>1. ASSUME NEW p \in Procs, Continue(p) PROVE SeatOf(e)'
  BY <1>0, <1>1, ClaimSeatInv, CheckSeatInv, CreateSeatInv, MarkSeatInv,
     ReleaseSeatInv, CancelSeatInv, WriteSeatInv DEF Continue
<1>2. QED
  BY <1>0, <1>1, StartSeatInv, FaultSeatInv, OutsideSeatInv DEF Next

\* Seating is in order in every reachable state.
LEMMA SeatInvAlways == Spec => []SeatInv
<1>1. QED
  BY InitSeatInv, SeatInvStep, TypeInvAlways, PTL DEF Spec

\* However many staff seat a party at once, it gets one order, and one more for
\* each error at most.
THEOREM OneOrderPerParty == Spec => []SeatedOnce
<1>1. SeatInv => SeatedOnce
  BY DEF SeatInv, SeatOf, SeatedOnce, Seated
<1>2. QED
  BY SeatInvAlways, <1>1, PTL

\* Without errors no claim is left behind, and who waits has no order.
THEOREM ClaimsSettle == Spec => []ClaimsAreSettled
<1>1. TypeInv /\ SeatInv => ClaimsAreSettled
  <2> SUFFICES ASSUME TypeInv, SeatInv, Quiet, faults = 0, NEW e \in Parties
               PROVE  /\ entry[e].status = "SEATED" => entry[e].order # None
                      /\ entry[e].status = "WAITING" =>
                           \A o \in Orders : order[o].party # e
    BY DEF ClaimsAreSettled
  <2>1. SeatOf(e) /\ \A p \in Procs : ~Seating(p, e)
    BY DEF SeatInv, Quiet, Idle, Seating
  <2>2. entry[e].status = "SEATED" => entry[e].order # None
    <3> HIDE DEF Seating
    <3>1. QED
      BY <2>1 DEF SeatOf
  <2>3. ASSUME entry[e].status = "WAITING" PROVE \A o \in Orders : order[o].party # e
    <3> DEFINE S == Seated(e)
    <3>1. Cardinality(S) <= 0 /\ IsFiniteSet(S) /\ Cardinality(S) \in Nat
      BY <2>1, <2>3, SeatedIsFinite DEF SeatOf
    <3> HIDE DEF S
    <3>2. S = {}
      BY <3>1, FS_EmptySet
    <3>3. QED
      BY <3>2 DEF S, Seated
  <2>4. QED
    BY <2>2, <2>3
<1>2. QED
  BY TypeInvAlways, SeatInvAlways, <1>1, PTL

-----------------------------------------------------------------------------
\* The bills of a table. Each call in flight counts once: as a bill to come, or
\* as the order it is about to move there.

Movers(c, t) == {q \in Procs : c[q].table = t /\ c[q].phase = "move"}
Openers(c, t) == {q \in Procs : c[q].table = t /\ c[q].phase \in {"stock", "create"}}
Moved(c, t) == {c[q].order : q \in Movers(c, t)}
Bills(t) == OpenBills(t) \cup Moving(t)

BillsAt(t) ==
  Cardinality(Bills(t)) + Cardinality(Opening(t)) <= Cardinality(Procs) + reopened

\* The names of the model for them.
LEMMA SlotNames ==
  \A t : Moving(t) = Moved(call, t) /\ Opening(t) = Openers(call, t)
BY DEF Moving, Moved, Movers, Opening, Openers, In

\* No more calls than slots.
LEMMA SlotsBound ==
  ASSUME NEW c, NEW t
  PROVE  /\ IsFiniteSet(Moved(c, t)) /\ IsFiniteSet(Openers(c, t))
         /\ Cardinality(Moved(c, t)) + Cardinality(Openers(c, t))
              <= Cardinality(Procs)
<1> DEFINE M == Movers(c, t)
           O == Openers(c, t)
           T == Moved(c, t)
<1>1. M \in SUBSET Procs /\ O \in SUBSET Procs /\ M \cap O = {}
  BY DEF Movers, Openers
<1>2. T = {c[q].order : q \in M}
  BY DEF Moved
<1> HIDE DEF M, O, T
<1>3. IsFiniteSet(M) /\ IsFiniteSet(O) /\ IsFiniteSet(Procs)
  BY <1>1, SetsAssumption, FS_Subset
<1>4. IsFiniteSet(T) /\ Cardinality(T) <= Cardinality(M)
  <2> DEFINE f == [q \in M |-> c[q].order]
  <2>1. f \in Surjection(M, T)
    BY <1>2 DEF Surjection
  <2> HIDE DEF f
  <2>2. QED
    BY <1>3, <2>1, FS_Surjection
<1>5. Cardinality(M) + Cardinality(O) <= Cardinality(Procs)
  <2> DEFINE U == M \cup O
  <2>1. U \in SUBSET Procs
    BY <1>1
  <2>2. IsFiniteSet(U)
        /\ Cardinality(U) = Cardinality(M) + Cardinality(O) - Cardinality(M \cap O)
    BY <1>3, FS_Union
  <2> HIDE DEF U
  <2>3. Cardinality(U) <= Cardinality(Procs)
    BY <1>3, <2>1, FS_Subset
  <2>4. Cardinality(M \cap O) = 0
    BY <1>1, FS_EmptySet
  <2>5. /\ Cardinality(M) \in Nat /\ Cardinality(O) \in Nat
        /\ Cardinality(U) \in Nat /\ Cardinality(Procs) \in Nat
    BY <1>3, <2>2, FS_CardinalityType
  <2>6. QED
    BY <2>2, <2>3, <2>4, <2>5
<1>6. /\ Cardinality(T) \in Nat /\ Cardinality(M) \in Nat
      /\ Cardinality(O) \in Nat /\ Cardinality(Procs) \in Nat
  BY <1>3, <1>4, FS_CardinalityType
<1>7. Cardinality(T) + Cardinality(O) <= Cardinality(Procs)
  BY <1>4, <1>5, <1>6
<1>8. QED
  BY <1>3, <1>4, <1>7 DEF O, T

\* Bills and calls can be counted.
LEMMA BillsAreFinite ==
  \A t : /\ IsFiniteSet(OpenBills(t)) /\ IsFiniteSet(Moving(t))
         /\ IsFiniteSet(Bills(t)) /\ IsFiniteSet(Opening(t))
         /\ Cardinality(Bills(t)) \in Nat /\ Cardinality(Opening(t)) \in Nat
         /\ Cardinality(Procs) \in Nat
<1> SUFFICES ASSUME NEW t
             PROVE  /\ IsFiniteSet(OpenBills(t)) /\ IsFiniteSet(Moving(t))
                    /\ IsFiniteSet(Bills(t)) /\ IsFiniteSet(Opening(t))
                    /\ Cardinality(Bills(t)) \in Nat
                    /\ Cardinality(Opening(t)) \in Nat
                    /\ Cardinality(Procs) \in Nat
  OBVIOUS
<1>1. OpenBills(t) \in SUBSET Orders
  BY DEF OpenBills
<1>2. IsFiniteSet(OpenBills(t))
  BY <1>1, SetsAssumption, FS_Subset
<1>3. IsFiniteSet(Moving(t)) /\ IsFiniteSet(Opening(t))
  BY SlotNames, SlotsBound
<1>4. IsFiniteSet(Bills(t))
  BY <1>2, <1>3, FS_Union DEF Bills
<1>5. QED
  BY <1>2, <1>3, <1>4, SetsAssumption, FS_CardinalityType

\* A set that shrinks, or grows by one.
LEMMA AtMostOneMore ==
  ASSUME NEW S, NEW T, NEW x, IsFiniteSet(S)
  PROVE  /\ T \subseteq S => IsFiniteSet(T) /\ Cardinality(T) <= Cardinality(S)
         /\ T \subseteq S \cup {x} =>
              IsFiniteSet(T) /\ Cardinality(T) <= Cardinality(S) + 1
<1>1. ASSUME T \subseteq S PROVE IsFiniteSet(T) /\ Cardinality(T) <= Cardinality(S)
  BY <1>1, FS_Subset
<1>2. ASSUME T \subseteq S \cup {x}
      PROVE  IsFiniteSet(T) /\ Cardinality(T) <= Cardinality(S) + 1
  <2> DEFINE U == S \cup {x}
  <2>1. IsFiniteSet(U) /\ (Cardinality(U) = Cardinality(S)
                           \/ Cardinality(U) = Cardinality(S) + 1)
    BY FS_AddElement
  <2>2. T \in SUBSET U
    BY <1>2
  <2> HIDE DEF U
  <2>3. IsFiniteSet(T) /\ Cardinality(T) <= Cardinality(U)
    BY <2>1, <2>2, FS_Subset
  <2>4. Cardinality(T) \in Nat /\ Cardinality(U) \in Nat /\ Cardinality(S) \in Nat
    BY <2>1, <2>3, FS_CardinalityType
  <2>5. QED
    BY <2>1, <2>3, <2>4
<1>3. QED
  BY <1>1, <1>2

\* No bill and no call is added.
LEMMA BillsFrame ==
  ASSUME TypeInv, NEW t, BillsAt(t), Bills(t)' \subseteq Bills(t),
         Opening(t)' \subseteq Opening(t), reopened' = reopened
  PROVE  BillsAt(t)'
<1> DEFINE S == Bills(t)
           T == Bills(t)'
           O == Opening(t)
           P == Opening(t)'
<1>1. /\ IsFiniteSet(S) /\ IsFiniteSet(O)
      /\ Cardinality(S) \in Nat /\ Cardinality(O) \in Nat
      /\ Cardinality(Procs) \in Nat /\ reopened \in Nat
  BY BillsAreFinite DEF TypeInv, TypeOK
<1>2. T \subseteq S /\ P \subseteq O
  OBVIOUS
<1>3. Cardinality(S) + Cardinality(O) <= Cardinality(Procs) + reopened
  BY DEF BillsAt
<1> HIDE DEF S, T, O, P
<1>4. /\ Cardinality(T) <= Cardinality(S) /\ Cardinality(P) <= Cardinality(O)
      /\ IsFiniteSet(T) /\ IsFiniteSet(P)
  BY <1>1, <1>2, AtMostOneMore
<1>5. Cardinality(T) \in Nat /\ Cardinality(P) \in Nat
  BY <1>4, FS_CardinalityType
<1>6. Cardinality(T) + Cardinality(P) <= Cardinality(Procs) + reopened
  BY <1>1, <1>3, <1>4, <1>5
<1>7. QED
  BY <1>6 DEF BillsAt, T, P

\* A closed bill is open again: it is counted among the reopened.
LEMMA BillsReopen ==
  ASSUME TypeInv, NEW t, BillsAt(t), NEW o, Bills(t)' \subseteq Bills(t) \cup {o},
         Opening(t)' \subseteq Opening(t), reopened' = reopened + 1
  PROVE  BillsAt(t)'
<1> DEFINE S == Bills(t)
           T == Bills(t)'
           O == Opening(t)
           P == Opening(t)'
<1>1. /\ IsFiniteSet(S) /\ IsFiniteSet(O)
      /\ Cardinality(S) \in Nat /\ Cardinality(O) \in Nat
      /\ Cardinality(Procs) \in Nat /\ reopened \in Nat
  BY BillsAreFinite DEF TypeInv, TypeOK
<1>2. T \subseteq S \cup {o} /\ P \subseteq O
  OBVIOUS
<1>3. Cardinality(S) + Cardinality(O) <= Cardinality(Procs) + reopened
  BY DEF BillsAt
<1> HIDE DEF S, T, O, P
<1>4. /\ Cardinality(T) <= Cardinality(S) + 1 /\ Cardinality(P) <= Cardinality(O)
      /\ IsFiniteSet(T) /\ IsFiniteSet(P)
  BY <1>1, <1>2, AtMostOneMore
<1>5. Cardinality(T) \in Nat /\ Cardinality(P) \in Nat
  BY <1>4, FS_CardinalityType
<1>6. Cardinality(T) + Cardinality(P) <= Cardinality(Procs) + (reopened + 1)
  BY <1>1, <1>3, <1>4, <1>5
<1>7. QED
  BY <1>6 DEF BillsAt, T, P

\* The call that was to open a bill opens it.
LEMMA BillsOpen ==
  ASSUME TypeInv, NEW t, BillsAt(t), NEW o, Bills(t)' \subseteq Bills(t) \cup {o},
         NEW p \in Opening(t), Opening(t)' \subseteq Opening(t) \ {p},
         reopened' = reopened
  PROVE  BillsAt(t)'
<1> DEFINE S == Bills(t)
           T == Bills(t)'
           O == Opening(t)
           P == Opening(t)'
           R == O \ {p}
<1>1. /\ IsFiniteSet(S) /\ IsFiniteSet(O)
      /\ Cardinality(S) \in Nat /\ Cardinality(O) \in Nat
      /\ Cardinality(Procs) \in Nat /\ reopened \in Nat
  BY BillsAreFinite DEF TypeInv, TypeOK
<1>2. T \subseteq S \cup {o} /\ P \subseteq R
  OBVIOUS
<1>3. Cardinality(S) + Cardinality(O) <= Cardinality(Procs) + reopened
  BY DEF BillsAt
<1>4. IsFiniteSet(R) /\ Cardinality(R) = Cardinality(O) - 1
  <2> HIDE DEF S, T, P
  <2>1. QED
    BY <1>1, FS_RemoveElement
<1> HIDE DEF S, T, O, P, R
<1>5. /\ Cardinality(T) <= Cardinality(S) + 1 /\ Cardinality(P) <= Cardinality(R)
      /\ IsFiniteSet(T) /\ IsFiniteSet(P)
  BY <1>1, <1>2, <1>4, AtMostOneMore
<1>6. Cardinality(T) \in Nat /\ Cardinality(P) \in Nat /\ Cardinality(R) \in Nat
  BY <1>4, <1>5, FS_CardinalityType
<1>7. Cardinality(T) + Cardinality(P) <= Cardinality(Procs) + reopened
  BY <1>1, <1>3, <1>4, <1>5, <1>6
<1>8. QED
  BY <1>7 DEF BillsAt, T, P

\* A table on which every open bill is one that is being moved there: the calls
\* in flight are all that count.
LEMMA BillsFound ==
  ASSUME TypeInv, NEW t, (OpenBills(t) \subseteq Moving(t))', reopened' = reopened
  PROVE  BillsAt(t)'
<1> DEFINE T == Moved(call', t)
           O == Openers(call', t)
<1>1. /\ IsFiniteSet(T) /\ IsFiniteSet(O)
      /\ Cardinality(T) + Cardinality(O) <= Cardinality(Procs)
  BY SlotsBound
<1>2. Bills(t)' = T /\ Opening(t)' = O
  BY DEF Bills, Moving, Moved, Movers, Opening, Openers, In
<1>3. /\ Cardinality(T) \in Nat /\ Cardinality(O) \in Nat
      /\ Cardinality(Procs) \in Nat /\ reopened \in Nat
  <2> HIDE DEF T, O
  <2>1. QED
    BY <1>1, SetsAssumption, FS_CardinalityType DEF TypeInv, TypeOK
<1> HIDE DEF T, O
<1>4. Cardinality(T) + Cardinality(O) <= Cardinality(Procs) + reopened
  BY <1>1, <1>3
<1>5. QED
  BY <1>2, <1>4 DEF BillsAt

\* A slot that is not, or no longer, about to open or move a bill.
LEMMA SlotLeaves ==
  ASSUME NEW p \in Procs, OnlySlot(p),
         call'[p].phase \notin {"stock", "create", "move"}
  PROVE  \A t : Moving(t)' \subseteq Moving(t) /\ Opening(t)' \subseteq Opening(t) \ {p}
BY DEF OnlySlot, Moving, Opening, In

\* What returns or is refused is such a slot.
LEMMA SlotEnds ==
  ASSUME TypeInv, NEW p \in Procs, Return(p) \/ Refuse(p)
  PROVE  \A t : Moving(t)' \subseteq Moving(t) /\ Opening(t)' \subseteq Opening(t) \ {p}
<1>1. OnlySlot(p)
  BY OneSlotMoves
<1>2. call[p] \in Calls
  BY DEF TypeInv, SlotsOK
<1>3. CASE Return(p)
  <2>1. call'[p] = NoCall
    BY <1>3, SlotBecomes
  <2>2. QED
    BY <1>1, <2>1, SlotLeaves DEF NoCall
<1>4. CASE Goto(p, "release")
  <2>1. call'[p] = [call[p] EXCEPT !.phase = "release"]
    BY <1>4, SlotBecomes
  <2>2. call'[p].phase = "release"
    BY <1>2, <2>1 DEF Calls
  <2>3. QED
    BY <1>1, <2>2, SlotLeaves
<1>5. QED
  BY <1>3, <1>4 DEF Refuse

\* An order whose status and table stay.
LEMMA SameBill ==
  ASSUME NEW t, \A o \in Orders : /\ order'[o].status = order[o].status
                                  /\ order'[o].table = order[o].table
  PROVE  OpenBills(t)' = OpenBills(t)
BY DEF OpenBills, Open

\* Beginning a call: it has found no table free yet.
LEMMA StartBills ==
  ASSUME TypeInv, NEW t \in Tables, BillsAt(t), NEW p \in Procs, Start(p)
  PROVE  BillsAt(t)'
<1>1. PICK c : Fresh(c) /\ Begin(p, c)
  BY StartIsFresh
<1>2. call'[p] = c /\ OnlySlot(p) /\ order' = order /\ reopened' = reopened
  BY <1>1, OneSlotMoves, SlotBecomes DEF Begin
<1>3. t # None
  BY SetsAssumption
<1>4. Moving(t)' \subseteq Moving(t)
  BY <1>1, <1>2 DEF OnlySlot, Moving, In, Fresh
<1>5. Opening(t)' \subseteq Opening(t)
  BY <1>1, <1>2, <1>3 DEF OnlySlot, Opening, Fresh
<1>6. OpenBills(t)' = OpenBills(t)
  BY <1>2 DEF OpenBills, Open
<1>7. QED
  BY <1>2, <1>4, <1>5, <1>6, BillsFrame DEF Bills

\* The check: whoever passes found no bill but the one it is moving.
LEMMA CheckTableBills ==
  ASSUME TypeInv, NEW t \in Tables, BillsAt(t), NEW p \in Procs, CheckTable(p)
  PROVE  BillsAt(t)'
<1>0. /\ call[p] \in Calls /\ GoodCall(call[p]) /\ call[p].phase = "table"
      /\ order' = order /\ reopened' = reopened /\ OpenBills(t)' = OpenBills(t)
  BY DEF TypeInv, SlotsOK, CheckTable, In, OpenBills, Open
<1>1. CASE Refuse(p)
  <2>1. Moving(t)' \subseteq Moving(t) /\ Opening(t)' \subseteq Opening(t)
    BY <1>1, SlotEnds
  <2>2. QED
    BY <1>0, <2>1, BillsFrame DEF Bills
<1>2. CASE /\ Goto(p, IF call[p].via = "move" THEN "move" ELSE "stock")
           /\ Free(call[p].table, call[p].order)
  <2> DEFINE phase == IF call[p].via = "move" THEN "move" ELSE "stock"
  <2>1. OnlySlot(p) /\ call'[p] = [call[p] EXCEPT !.phase = phase]
    BY <1>2, OneSlotMoves, SlotBecomes
  <2>2. call'[p].phase = phase /\ call'[p].table = call[p].table
        /\ call'[p].order = call[p].order
    BY <1>0, <2>1 DEF Calls
  <2>3. CASE call[p].table = t
    <3>1. (OpenBills(t) \subseteq Moving(t))'
      <4>1. OpenBills(t) \subseteq {call[p].order}
        BY <1>2, <2>3 DEF Free
      <4>2. CASE call[p].via = "move"
        <5>1. call[p].order \in Moving(t)'
          BY <2>2, <2>3, <4>2 DEF Moving, In
        <5>2. QED
          BY <1>0, <4>1, <5>1
      <4>3. CASE call[p].via # "move"
        <5>1. call[p].order = None
          BY <1>0, <4>3 DEF GoodCall
        <5>2. OpenBills(t) = {}
          BY <4>1, <5>1, SetsAssumption DEF OpenBills
        <5>3. QED
          BY <1>0, <5>2
      <4>4. QED
        BY <4>2, <4>3
    <3>2. QED
      BY <1>0, <3>1, BillsFound
  <2>4. CASE call[p].table # t
    <3>1. \A q \in Procs : call'[q].table = t => q # p /\ call'[q] = call[q]
      BY <2>1, <2>2, <2>4 DEF OnlySlot
    <3>2. Moving(t)' \subseteq Moving(t)
      BY <3>1 DEF Moving, In
    <3>3. Opening(t)' \subseteq Opening(t)
      BY <3>1 DEF Opening
    <3>4. QED
      BY <1>0, <3>2, <3>3, BillsFrame DEF Bills
  <2>5. QED
    BY <2>3, <2>4
<1>3. QED
  BY <1>1, <1>2 DEF CheckTable

\* The stock check comes between, and the claims before and after.
LEMMA BetweenBills ==
  ASSUME TypeInv, NEW t \in Tables, BillsAt(t), NEW p \in Procs,
         \/ ClaimForSeating(p) \/ CheckStock(p) \/ MarkSeated(p) \/ ReleaseClaim(p)
         \/ MarkEntryCancelled(p)
  PROVE  BillsAt(t)'
<1>0. call[p] \in Calls /\ reopened' = reopened /\ OpenBills(t)' = OpenBills(t)
  BY DEF TypeInv, SlotsOK, ClaimForSeating, CheckStock, MarkSeated, ReleaseClaim,
         MarkEntryCancelled, OpenBills, Open
<1>1. Moving(t)' \subseteq Moving(t) /\ Opening(t)' \subseteq Opening(t)
  <2>1. CASE Return(p) \/ Refuse(p)
    BY <2>1, SlotEnds
  <2>2. CASE \E phase \in {"table", "add", "create"} :
               Goto(p, phase) /\ (phase = "create" => call[p].phase = "stock")
    <3>1. PICK phase \in {"table", "add", "create"} :
            /\ OnlySlot(p) /\ call'[p] = [call[p] EXCEPT !.phase = phase]
            /\ phase = "create" => call[p].phase = "stock"
      BY <2>2, OneSlotMoves, SlotBecomes
    <3>2. call'[p].phase = phase /\ call'[p].table = call[p].table
      BY <1>0, <3>1 DEF Calls
    <3>3. Moving(t)' \subseteq Moving(t)
      <4>1. \A q \in Procs : call'[q].phase = "move" => call'[q] = call[q]
        BY <3>1, <3>2 DEF OnlySlot
      <4>2. QED
        BY <4>1 DEF Moving, In
    <3>4. Opening(t)' \subseteq Opening(t)
      BY <3>1, <3>2 DEF OnlySlot, Opening
    <3>5. QED
      BY <3>3, <3>4
  <2>3. QED
    BY <2>1, <2>2 DEF ClaimForSeating, CheckStock, MarkSeated, ReleaseClaim,
                      MarkEntryCancelled, In
<1>2. QED
  BY <1>0, <1>1, BillsFrame DEF Bills

\* A new bill takes the place of the call that opens it.
LEMMA CreateBills ==
  ASSUME TypeInv, NEW t \in Tables, BillsAt(t), NEW p \in Procs,
         NEW o \in Orders, CreateOrder(p, o)
  PROVE  BillsAt(t)'
<1>0. call[p] \in Calls /\ reopened' = reopened /\ call[p].phase = "create"
  BY DEF TypeInv, SlotsOK, CreateOrder, In
<1>1. CASE Refuse(p) /\ order' = order
  <2>1. Moving(t)' \subseteq Moving(t) /\ Opening(t)' \subseteq Opening(t)
    BY <1>1, SlotEnds
  <2>2. QED
    BY <1>0, <1>1, <2>1, BillsFrame DEF Bills, OpenBills, Open
<1>2. CASE ~(call[p].table # None /\ table[call[p].table] = "deleted")
  <2> DEFINE c == IF call[p].via = "seat"
                    THEN [call[p] EXCEPT !.phase = "markSeated", !.order = o]
                    ELSE NoCall
  <2>1. call' = [call EXCEPT ![p] = c]
    BY <1>2 DEF CreateOrder, TypeInv, TypeOK
  <2>2. c.phase \in {"markSeated", "idle"}
    BY <1>0 DEF Calls, NoCall
  <2>3. OnlySlot(p) /\ call'[p].phase \notin {"stock", "create", "move"}
    <3> HIDE DEF c
    <3>1. QED
      BY <2>1, <2>2, OneSlotMoves, SlotBecomes
  <2>4. Moving(t)' \subseteq Moving(t) /\ Opening(t)' \subseteq Opening(t) \ {p}
    BY <2>3, SlotLeaves
  <2>5. \A x \in Orders : /\ x # o => order'[x] = order[x]
                          /\ x = o => order'[x].table = call[p].table
    BY <1>2 DEF CreateOrder, TypeInv, TypeOK
  <2>6. CASE call[p].table = t
    <3>1. Bills(t)' \subseteq Bills(t) \cup {o}
      BY <2>4, <2>5 DEF Bills, OpenBills, Open
    <3>2. p \in Opening(t)
      BY <1>0, <2>6 DEF Opening
    <3>3. QED
      BY <1>0, <2>4, <3>1, <3>2, BillsOpen
  <2>7. CASE call[p].table # t
    <3>1. Bills(t)' \subseteq Bills(t)
      BY <2>4, <2>5, <2>7 DEF Bills, OpenBills, Open
    <3>2. QED
      BY <1>0, <2>4, <3>1, BillsFrame
  <2>8. QED
    BY <2>6, <2>7
<1>3. QED
  BY <1>1, <1>2 DEF CreateOrder

\* An order that moves was counted at its new table already.
LEMMA MoveBills ==
  ASSUME TypeInv, NEW t \in Tables, BillsAt(t), NEW p \in Procs, MoveOrder(p)
  PROVE  BillsAt(t)'
<1>0. order \in [Orders -> OrderRows] /\ Return(p) /\ reopened' = reopened
      /\ call[p].phase = "move"
  BY DEF TypeInv, TypeOK, MoveOrder, In
<1>1. Moving(t)' \subseteq Moving(t) /\ Opening(t)' \subseteq Opening(t)
  BY <1>0, SlotEnds
<1>2. \A x \in Orders :
        /\ order'[x].status = order[x].status
        /\ \/ order'[x].table = order[x].table
           \/ x = call[p].order /\ order'[x].table = call[p].table
  BY <1>0 DEF MoveOrder, OrderRows
<1>3. Bills(t)' \subseteq Bills(t)
  <2>1. call[p].table = t => call[p].order \in Moving(t)
    BY <1>0 DEF Moving, In
  <2>2. QED
    BY <1>1, <1>2, <2>1 DEF Bills, OpenBills, Open
<1>4. QED
  BY <1>0, <1>1, <1>3, BillsFrame

\* A status written over another: the bill closes, stays, or is counted as
\* reopened.
LEMMA StatusBills ==
  ASSUME TypeInv, NEW t \in Tables, BillsAt(t), NEW p \in Procs,
         MarkPaidManually(p) \/ UpdateStatus(p) \/ MarkPaid(p)
  PROVE  BillsAt(t)'
<1>0. order \in [Orders -> OrderRows] /\ Return(p)
  BY DEF TypeInv, TypeOK, MarkPaidManually, UpdateStatus, MarkPaid
<1>1. Moving(t)' \subseteq Moving(t) /\ Opening(t)' \subseteq Opening(t)
  BY <1>0, SlotEnds
<1>2. PICK o, to : /\ \/ order' = [order EXCEPT ![o] = Written(o, to)]
                      \/ order' = [order EXCEPT ![o] =
                                     [Written(o, to) EXCEPT !.paid = TRUE]]
                   /\ CountReopening(o, to)
  BY DEF MarkPaidManually, UpdateStatus, MarkPaid
<1>3. \A x \in Orders :
        /\ order'[x].table = order[x].table
        /\ x # o => order'[x].status = order[x].status
        /\ x = o => order'[x].status = to
  <2>1. \A x \in Orders : x # o => order'[x] = order[x]
    BY <1>0, <1>2
  <2>2. ASSUME o \in Orders
        PROVE  order'[o].table = order[o].table /\ order'[o].status = to
    <3> DEFINE row == Written(o, to)
    <3>1. /\ row.table = order[o].table /\ row.status = to
          /\ [row EXCEPT !.paid = TRUE].table = order[o].table
          /\ [row EXCEPT !.paid = TRUE].status = to
      BY <1>0, <2>2 DEF Written, OrderRows
    <3>2. \/ order'[o] = row
          \/ order'[o] = [row EXCEPT !.paid = TRUE]
      <4> HIDE DEF row
      <4>1. QED
        BY <1>0, <1>2, <2>2 DEF row
    <3> HIDE DEF row
    <3>3. QED
      BY <3>1, <3>2
  <2>3. QED
    BY <2>1, <2>2
<1>4. CASE order[o].table # None /\ ~Open(o) /\ to \in {"PENDING_PAYMENT", "CONFIRMED"}
  <2>1. reopened' = reopened + 1
    BY <1>2, <1>4 DEF CountReopening
  <2>2. Bills(t)' \subseteq Bills(t) \cup {o}
    BY <1>1, <1>3 DEF Bills, OpenBills, Open
  <2>3. QED
    BY <1>1, <2>1, <2>2, BillsReopen
<1>5. CASE ~(order[o].table # None /\ ~Open(o) /\ to \in {"PENDING_PAYMENT", "CONFIRMED"})
  <2>1. reopened' = reopened
    BY <1>2, <1>5 DEF CountReopening
  <2>2. t # None
    BY SetsAssumption
  <2>3. Bills(t)' \subseteq Bills(t)
    BY <1>1, <1>3, <1>5, <2>2 DEF Bills, OpenBills, Open
  <2>4. QED
    BY <1>1, <2>1, <2>3, BillsFrame
<1>6. QED
  BY <1>4, <1>5

\* Plates put on a bill, and a table that closes under one.
LEMMA OtherWritesBills ==
  ASSUME TypeInv, NEW t \in Tables, BillsAt(t), NEW p \in Procs,
         AddItems(p) \/ CloseTable(p)
  PROVE  BillsAt(t)'
<1>0. /\ order \in [Orders -> OrderRows] /\ Return(p) /\ reopened' = reopened
      /\ t # None
  BY SetsAssumption DEF TypeInv, TypeOK, AddItems, CloseTable
<1>1. Moving(t)' \subseteq Moving(t) /\ Opening(t)' \subseteq Opening(t)
  BY <1>0, SlotEnds
<1>2. \A x \in Orders :
        /\ order'[x].status = order[x].status
        /\ order'[x].table \in {order[x].table, None}
  <2>1. CASE AddItems(p)
    BY <1>0, <2>1 DEF AddItems, OrderRows
  <2>2. CASE CloseTable(p)
    <3>1. \A x \in Orders : order'[x] = order[x]
                            \/ order'[x] = [order[x] EXCEPT !.table = None]
      BY <2>2 DEF CloseTable
    <3>2. \A x \in Orders : [order[x] EXCEPT !.table = None].status = order[x].status
                            /\ [order[x] EXCEPT !.table = None].table = None
      BY <1>0 DEF OrderRows
    <3>3. QED
      BY <3>1, <3>2
  <2>3. QED
    BY <2>1, <2>2
<1>3. Bills(t)' \subseteq Bills(t)
  BY <1>0, <1>1, <1>2 DEF Bills, OpenBills, Open
<1>4. QED
  BY <1>0, <1>1, <1>3, BillsFrame

\* Faults end calls, and what happens outside them opens no bill.
LEMMA OutsideBills ==
  ASSUME TypeInv, NEW t \in Tables, BillsAt(t),
         \/ \E p \in Procs : Throw(p) \/ Die(p)
         \/ \E o \in Orders : CancelWithRefund(o) \/ HoldExpires(o)
         \/ Dawn
         \/ UNCHANGED vars
  PROVE  BillsAt(t)'
<1>0. order \in [Orders -> OrderRows] /\ reopened' = reopened
  BY DEF TypeInv, TypeOK, Throw, Die, CancelWithRefund, HoldExpires,
         Dawn, vars
<1>1. Moving(t)' \subseteq Moving(t) /\ Opening(t)' \subseteq Opening(t)
  <2>1. CASE \E p \in Procs : Throw(p) \/ Die(p)
    BY <2>1, SlotEnds DEF Throw, Die
  <2>2. CASE call' = call
    BY <2>2 DEF Moving, Opening, In
  <2>3. QED
    BY <2>1, <2>2 DEF CancelWithRefund, HoldExpires, Dawn, vars
<1>2. \A x \in Orders : order'[x].table = order[x].table
                        /\ (Open(x)' => Open(x))
  <2>1. CASE order' = order
    BY <2>1 DEF Open
  <2>2. CASE \E o \in Orders : CancelWithRefund(o) \/ HoldExpires(o)
    BY <1>0, <2>2 DEF CancelWithRefund, HoldExpires, Open, OrderRows
  <2>3. QED
    BY <2>1, <2>2 DEF Throw, Die, Dawn, vars
<1>3. Bills(t)' \subseteq Bills(t)
  BY <1>1, <1>2 DEF Bills, OpenBills
<1>4. QED
  BY <1>0, <1>1, <1>3, BillsFrame

\* More bills are open on a table than calls can overlap only when closed ones
\* were opened again.
THEOREM BillsOverlap == Spec => []BillsPerTable
<1>1. Init => BillsPerTable
  <2> SUFFICES ASSUME Init, NEW t \in Tables PROVE BillsAt(t)
    BY DEF BillsPerTable, BillsAt, Bills
  <2>1. Bills(t) = {} /\ Opening(t) = {} /\ reopened = 0
    BY DEF Init, NoOrder, NoCall, Bills, OpenBills, Open, Moving, Opening, In
  <2>2. QED
    BY <2>1, FS_EmptySet, BillsAreFinite DEF BillsAt
<1>2. TypeInv /\ BillsPerTable /\ [Next]_vars => BillsPerTable'
  <2> SUFFICES ASSUME TypeInv, BillsPerTable, [Next]_vars, NEW t \in Tables
               PROVE  BillsAt(t)'
    BY DEF BillsPerTable, BillsAt, Bills
  <2>0. BillsAt(t)
    BY DEF BillsPerTable, BillsAt, Bills
  <2>1. ASSUME NEW p \in Procs, Continue(p) PROVE BillsAt(t)'
    BY <2>0, <2>1, CheckTableBills, BetweenBills, CreateBills, MoveBills,
       StatusBills, OtherWritesBills DEF Continue
  <2>2. QED
    BY <2>0, <2>1, StartBills, OutsideBills DEF Next
<1>3. QED
  BY <1>1, <1>2, TypeInvAlways, PTL DEF Spec

-----------------------------------------------------------------------------
\* Plates. Every plate of the day's stock is held by an order whose check was
\* the last word, or promised to a call that is about to write.

\* Counted, said of the row.
CountedRow(row) ==
  /\ row.today
  /\ row.status \notin {"none", "CANCELLED"}
  /\ \/ row.status # "PENDING_PAYMENT"
     \/ row.kind # "online"
     \/ row.held

Lasts(row) == CountedRow(row) /\ ~row.late
Taken(row) == IF Lasts(row) THEN row.plates ELSE 0
Lasting == {o \in Orders : Lasts(order[o])}

Promising(c) == c.phase \in {"create", "add"}
Promised(c) == IF Promising(c) THEN c.plates ELSE 0
Flying == {p \in Procs : Promising(call[p])}

Ceiling == DailyLimit + (Cardinality(Procs) - 1) * MaxPlates

Unpaid(row) == row.status = "PENDING_PAYMENT" => ~row.late /\ ~row.paid

PlatesInv ==
  /\ \A o \in Orders : Unpaid(order[o])
  /\ \A p \in Procs : Fit(call[p])
  /\ PlatesOf(Lasting) + PlatesInFlight <= Ceiling

PlatesOfOrders == [o \in Orders |-> order[o].plates]
PlatesOfCalls == [p \in Procs |-> call[p].plates]

\* The totals are natural numbers, of finite sets.
LEMMA PlatesAreCounted ==
  ASSUME TypeInv
  PROVE  /\ \A S \in SUBSET Orders :
              IsFiniteSet(S) /\ Counts(PlatesOfOrders, S) /\ PlatesOf(S) \in Nat
         /\ \A S \in SUBSET Procs : IsFiniteSet(S) /\ Counts(PlatesOfCalls, S)
         /\ PlatesInFlight = Total(PlatesOfCalls, Flying)
         /\ PlatesInFlight \in Nat
         /\ \A o \in Orders : Taken(order[o]) \in Nat
         /\ \A p \in Procs : Promised(call[p]) \in Nat
         /\ \A p \in Procs : call[p].plates \in Nat /\ call[p].plates <= MaxPlates
<1>1. /\ \A o \in Orders : order[o].plates \in Nat
      /\ \A p \in Procs : call[p].plates \in Nat /\ call[p].plates <= MaxPlates
  BY BoundsAssumption DEF TypeInv, TypeOK, OrderRows, Calls, Plates
<1>2. ASSUME NEW S \in SUBSET Orders
      PROVE  IsFiniteSet(S) /\ Counts(PlatesOfOrders, S) /\ PlatesOf(S) \in Nat
  <2>1. IsFiniteSet(S) /\ Counts(PlatesOfOrders, S)
    BY <1>1, SetsAssumption, FS_Subset DEF Counts, PlatesOfOrders
  <2>2. QED
    BY <2>1, TotalType DEF PlatesOf, PlatesOfOrders
<1>3. \A S \in SUBSET Procs : IsFiniteSet(S) /\ Counts(PlatesOfCalls, S)
  BY <1>1, SetsAssumption, FS_Subset DEF Counts, PlatesOfCalls
<1>4. PlatesInFlight = Total(PlatesOfCalls, Flying)
  BY DEF PlatesInFlight, PlatesOfCalls, Flying, Promising
<1>5. PlatesInFlight \in Nat
  <2>1. Flying \in SUBSET Procs
    BY DEF Flying
  <2>2. QED
    BY <1>3, <1>4, <2>1, TotalType
<1>6. QED
  BY <1>1, <1>2, <1>3, <1>4, <1>5 DEF Taken, Promised

\* The ceiling is a natural number: there is a slot for a call.
LEMMA CeilingType ==
  /\ Cardinality(Procs) \in Nat \ {0} /\ Ceiling \in Nat
  /\ \A p \in Procs : Cardinality(Procs \ {p}) = Cardinality(Procs) - 1
<1>1. Cardinality(Procs) \in Nat \ {0}
  BY SetsAssumption, FS_CardinalityType, FS_EmptySet
<1>2. \A p \in Procs : Cardinality(Procs \ {p}) = Cardinality(Procs) - 1
  BY SetsAssumption, FS_RemoveElement
<1>3. \A k, m \in Nat : k * m \in Nat
  OBVIOUS
<1>4. (Cardinality(Procs) - 1) * MaxPlates \in Nat
  BY <1>1, <1>3, BoundsAssumption
<1>5. QED
  BY <1>1, <1>2, <1>4, BoundsAssumption DEF Ceiling

\* What one slot holds of the promised plates moves their total.
LEMMA FlightChange ==
  ASSUME TypeInv, TypeInv', NEW p \in Procs, OnlySlot(p)
  PROVE  /\ PlatesInFlight' + Promised(call[p]) = PlatesInFlight + Promised(call'[p])
         /\ PlatesInFlight \in Nat /\ PlatesInFlight' \in Nat
         /\ Promised(call[p]) \in Nat /\ Promised(call'[p]) \in Nat
<1> DEFINE f == PlatesOfCalls
           g == PlatesOfCalls'
           S == Flying
           T == Flying'
<1>1. S \in SUBSET Procs /\ T \in SUBSET Procs
  BY DEF Flying
<1>2. /\ IsFiniteSet(S) /\ Counts(f, S) /\ Counts(g, T)
      /\ PlatesInFlight = Total(f, S) /\ PlatesInFlight' = Total(g, T)
  BY <1>1, PlatesAreCounted DEF Counts, PlatesInFlight, PlatesOfCalls, Flying,
                               Promising, TypeInv, TypeOK, Calls, Plates
<1>3. S \ {p} = T \ {p} /\ \A q \in S \ {p} : f[q] = g[q]
  BY DEF OnlySlot, Flying, PlatesOfCalls
<1>4. IsFiniteSet(T)
  BY <1>1, SetsAssumption, FS_Subset
<1>5. Promised(call[p]) \in Nat /\ Promised(call'[p]) \in Nat
  BY BoundsAssumption DEF Promised, TypeInv, TypeOK, Calls, Plates
<1>6. Part(f, S, p) = Promised(call[p]) /\ Part(g, T, p) = Promised(call'[p])
  BY DEF Part, Promised, Flying, PlatesOfCalls
<1> HIDE DEF f, g, S, T
<1>7. Total(g, T) + Part(f, S, p) = Total(f, S) + Part(g, T, p)
  BY <1>2, <1>3, TotalChange
<1>8. Total(f, S) \in Nat /\ Total(g, T) \in Nat
  BY <1>2, <1>4, TotalType
<1>9. QED
  BY <1>2, <1>6, <1>7, <1>8, <1>5

\* What an order keeps, for a call that will write its status, and for the
\* stock: all but its table, when nothing else is written.
GoesOn(old, new) ==
  old.status # "none" =>
    /\ new.status # "none"
    /\ old.status # "PENDING_PAYMENT" => new.status # "PENDING_PAYMENT"

SameStock(old, new) ==
  /\ new.status = old.status /\ new.kind = old.kind /\ new.plates = old.plates
  /\ new.paid = old.paid /\ new.held = old.held /\ new.today = old.today
  /\ new.late = old.late

\* What a call must know of its order stays known.
LEMMA FitFrame ==
  ASSUME TypeInv, PlatesInv, NEW p \in Procs, OnlySlot(p),
         \A o \in Orders : GoesOn(order[o], order'[o]),
         call'[p] = call[p] \/ call'[p].phase \notin {"settle", "update", "pay"}
           \/ Fit(call[p])'
  PROVE  \A q \in Procs : Fit(call[q])'
<1>1. ASSUME NEW q \in Procs, call'[q] = call[q] PROVE Fit(call[q])'
  <2>1. GoodCall(call[q]) /\ Fit(call[q])
    BY DEF TypeInv, SlotsOK, PlatesInv
  <2> DEFINE c == call[q]
             o == c.order
  <2>2. /\ c.phase \in {"settle", "update", "pay"} => o \in Orders
        /\ o \in Orders => GoesOn(order[o], order'[o])
    BY <2>1 DEF GoodCall
  <2>3. /\ c.phase = "settle" =>
             /\ order[o].status # "none"
             /\ c.to = "none" => order[o].status # "PENDING_PAYMENT"
        /\ c.phase = "update" =>
             order[o].status # "none" /\ c.to \notin {"none", "PENDING_PAYMENT"}
        /\ c.phase = "pay" => order[o].status # "none"
    BY <2>1 DEF Fit
  <2>4. call[q]' = c
    BY <1>1
  <2>5. /\ c.phase = "settle" =>
             /\ order'[o].status # "none"
             /\ c.to = "none" => order'[o].status # "PENDING_PAYMENT"
        /\ c.phase = "update" =>
             order'[o].status # "none" /\ c.to \notin {"none", "PENDING_PAYMENT"}
        /\ c.phase = "pay" => order'[o].status # "none"
    BY <2>2, <2>3 DEF GoesOn
  <2>6. QED
    BY <2>4, <2>5 DEF Fit
<1>2. CASE call'[p].phase \notin {"settle", "update", "pay"} \/ Fit(call[p])'
  <2>1. Fit(call[p])'
    <3>1. call[p]' = call'[p]
      OBVIOUS
    <3>2. QED
      BY <1>2, <3>1 DEF Fit
  <2>2. QED
    BY <1>1, <2>1 DEF OnlySlot
<1>3. QED
  BY <1>1, <1>2 DEF OnlySlot

\* What may be exchanged between an order and the call that writes it.
LEMMA Balanced ==
  \A a, b, x, y, c, d, u, v, k \in Nat :
    /\ c + x = a + u /\ d + y = b + v
    /\ u + v <= x + y /\ a + b <= k
    => c + d <= k
OBVIOUS

\* A step of one call that leaves every order's stock as it was.
LEMMA CallKeepsPlates ==
  ASSUME TypeInv, TypeInv', PlatesInv, NEW p \in Procs, OnlySlot(p),
         \A o \in Orders : SameStock(order[o], order'[o]),
         call'[p] = call[p] \/ call'[p].phase \notin {"settle", "update", "pay"}
           \/ Fit(call[p])',
         Promised(call'[p]) <= Promised(call[p])
  PROVE  PlatesInv'
<1>1. \A o \in Orders : Unpaid(order[o])'
  BY DEF PlatesInv, Unpaid, SameStock
<1>2. \A q \in Procs : Fit(call[q])'
  BY FitFrame DEF GoesOn, SameStock
<1>3. PlatesOf(Lasting)' = PlatesOf(Lasting)
  <2>1. Lasting' = Lasting /\ \A o \in Lasting : PlatesOfOrders'[o] = PlatesOfOrders[o]
    BY DEF Lasting, Lasts, CountedRow, SameStock, PlatesOfOrders
  <2>2. QED
    BY <2>1, TotalSame DEF PlatesOf, PlatesOfOrders
<1>4. PlatesInFlight' + Promised(call[p]) = PlatesInFlight + Promised(call'[p])
  BY FlightChange
<1>5. /\ PlatesOf(Lasting) \in Nat /\ PlatesInFlight \in Nat
      /\ PlatesInFlight' \in Nat /\ Promised(call[p]) \in Nat
      /\ Promised(call'[p]) \in Nat
      /\ PlatesOf(Lasting) + PlatesInFlight <= Ceiling
  <2>1. Lasting \in SUBSET Orders
    BY DEF Lasting
  <2>2. QED
    BY <2>1, FlightChange, PlatesAreCounted DEF PlatesInv
<1>6. PlatesOf(Lasting)' + PlatesInFlight' <= Ceiling
  BY <1>3, <1>4, <1>5, CeilingType
<1>7. QED
  BY <1>1, <1>2, <1>6 DEF PlatesInv, Ceiling

\* A step of one call, or of none, that writes one order and takes no more than
\* was promised.
LEMMA WriteKeepsPlates ==
  ASSUME TypeInv, TypeInv', PlatesInv, NEW p \in Procs, OnlySlot(p),
         NEW o \in Orders, \A x \in Orders \ {o} : order'[x] = order[x],
         GoesOn(order[o], order'[o]), Unpaid(order'[o]),
         call'[p] = call[p] \/ call'[p].phase \notin {"settle", "update", "pay"},
         Taken(order'[o]) + Promised(call'[p]) <= Taken(order[o]) + Promised(call[p])
  PROVE  PlatesInv'
<1>1. \A x \in Orders : Unpaid(order[x])'
  BY DEF PlatesInv, Unpaid
<1>2. \A q \in Procs : Fit(call[q])'
  BY FitFrame DEF GoesOn
<1> DEFINE f == PlatesOfOrders
           g == PlatesOfOrders'
           S == Lasting
           T == Lasting'
<1>3. /\ S \in SUBSET Orders /\ T \in SUBSET Orders /\ IsFiniteSet(S) /\ IsFiniteSet(T)
      /\ Counts(f, S) /\ Counts(g, T)
      /\ PlatesOf(Lasting) = Total(f, S) /\ PlatesOf(Lasting)' = Total(g, T)
  <2>1. S \in SUBSET Orders /\ T \in SUBSET Orders
    BY DEF Lasting
  <2>2. Counts(g, T)
    BY <2>1 DEF Counts, PlatesOfOrders, TypeInv, TypeOK, OrderRows
  <2>3. QED
    BY <2>1, <2>2, PlatesAreCounted, SetsAssumption, FS_Subset
    DEF PlatesOf, PlatesOfOrders
<1>4. S \ {o} = T \ {o} /\ \A x \in S \ {o} : f[x] = g[x]
  BY DEF Lasting, PlatesOfOrders
<1>5. Part(f, S, o) = Taken(order[o]) /\ Part(g, T, o) = Taken(order'[o])
  BY DEF Part, Taken, Lasting, PlatesOfOrders
<1>6. Taken(order[o]) \in Nat /\ Taken(order'[o]) \in Nat
  BY DEF Taken, TypeInv, TypeOK, OrderRows
<1> HIDE DEF f, g, S, T
<1>7. Total(g, T) + Part(f, S, o) = Total(f, S) + Part(g, T, o)
  BY <1>3, <1>4, TotalChange
<1>8. Total(f, S) \in Nat /\ Total(g, T) \in Nat
  BY <1>3, TotalType
<1>9. /\ PlatesInFlight' + Promised(call[p]) = PlatesInFlight + Promised(call'[p])
      /\ PlatesInFlight \in Nat /\ PlatesInFlight' \in Nat
      /\ Promised(call[p]) \in Nat /\ Promised(call'[p]) \in Nat
  BY FlightChange
<1>10. Total(f, S) + PlatesInFlight <= Ceiling
  BY <1>3 DEF PlatesInv
<1>11. Total(g, T) + PlatesInFlight' <= Ceiling
  BY <1>5, <1>6, <1>7, <1>8, <1>9, <1>10, CeilingType, Balanced
<1>12. PlatesOf(Lasting)' + PlatesInFlight' <= Ceiling
  BY <1>3, <1>11
<1>13. QED
  BY <1>1, <1>2, <1>12 DEF PlatesInv, Ceiling

\* The check. What it counts and what it is asked for fit the limit, and the
\* others have been promised no more than a full cart each.
LEMMA CheckStockPlates ==
  ASSUME TypeInv, TypeInv', PlatesInv, NEW p \in Procs, CheckStock(p)
  PROVE  PlatesInv'
<1> USE DEF bounds
<1>1. OnlySlot(p) /\ order' = order /\ call[p] \in Calls /\ In(p, "stock")
  BY OneSlotMoves DEF CheckStock, TypeInv, TypeOK
<1>2. /\ call'[p].phase \notin {"settle", "update", "pay"}
      /\ Promising(call'[p]) => /\ Available(call[p].plates)
                                /\ call'[p].plates = call[p].plates
  <2>1. CASE Return(p)
    BY <2>1, SlotBecomes DEF NoCall, Promising
  <2>2. ASSUME NEW phase \in {"create", "add"}, Goto(p, phase), Available(call[p].plates)
        PROVE  /\ call'[p].phase = phase /\ call'[p].plates = call[p].plates
    <3>1. call'[p] = [call[p] EXCEPT !.phase = phase]
      BY <2>2, SlotBecomes
    <3>2. QED
      BY <1>1, <3>1 DEF Calls
  <2>3. CASE Goto(p, "release")
    <3>1. call'[p] = [call[p] EXCEPT !.phase = "release"]
      BY <2>3, SlotBecomes
    <3>2. call'[p].phase = "release"
      BY <1>1, <3>1 DEF Calls
    <3>3. QED
      BY <3>2 DEF Promising
  <2>4. QED
    BY <2>1, <2>2, <2>3 DEF CheckStock, Refuse
<1>3. /\ call[p].plates \in Nat /\ Promised(call[p]) = 0
      /\ Promised(call'[p]) \in {0, call[p].plates}
  BY <1>1, <1>2, PlatesAreCounted DEF Promised, Promising, In
<1>4. \A o \in Orders : SameStock(order[o], order'[o])
  BY <1>1 DEF SameStock
<1>5. CASE Promised(call'[p]) = 0
  BY <1>1, <1>2, <1>3, <1>4, <1>5, CallKeepsPlates
<1>6. CASE Promised(call'[p]) # 0
  <2>1. Sold + call[p].plates <= DailyLimit /\ Promising(call'[p])
        /\ call'[p].plates = call[p].plates
    BY <1>2, <1>3, <1>6 DEF Promised, Available
  <2>2. PlatesOf(Lasting) <= Sold /\ PlatesOf(Lasting) \in Nat /\ Sold \in Nat
    <3> DEFINE S == {o \in Orders : Counted(o)}
    <3>1. S \in SUBSET Orders
      OBVIOUS
    <3>2. Lasting \in SUBSET S
      BY DEF Lasting, Lasts, CountedRow, Counted
    <3>3. IsFiniteSet(S) /\ Counts(PlatesOfOrders, S) /\ Sold \in Nat
      BY <3>1, PlatesAreCounted DEF Sold
    <3>4. IsFiniteSet({}) /\ Counts(PlatesOfOrders, {}) /\ Lasting \in SUBSET (S \cup {})
      BY <3>2, FS_EmptySet DEF Counts
    <3> HIDE DEF S
    <3>5. Total(PlatesOfOrders, Lasting)
            <= Total(PlatesOfOrders, S) + Total(PlatesOfOrders, {})
      BY <3>3, <3>4, TotalCover
    <3>6. Lasting \in SUBSET Orders
      BY DEF Lasting
    <3>7. PlatesOf(Lasting) \in Nat
      BY <3>6, PlatesAreCounted
    <3>8. Total(PlatesOfOrders, {}) = 0 /\ Sold = Total(PlatesOfOrders, S)
          /\ PlatesOf(Lasting) = Total(PlatesOfOrders, Lasting)
      BY TotalEmpty DEF Sold, PlatesOf, PlatesOfOrders, S
    <3>9. QED
      BY <3>3, <3>5, <3>7, <3>8
  <2>3. PlatesInFlight <= (Cardinality(Procs) - 1) * MaxPlates
    <3>1. Flying \in SUBSET (Procs \ {p})
      BY <1>1 DEF Flying, Promising, In
    <3>2. /\ IsFiniteSet(Procs \ {p}) /\ Counts(PlatesOfCalls, Flying)
          /\ \A q \in Flying : PlatesOfCalls[q] <= MaxPlates
          /\ PlatesInFlight = Total(PlatesOfCalls, Flying)
      BY <3>1, PlatesAreCounted DEF PlatesOfCalls
    <3>3. Total(PlatesOfCalls, Flying) <= Cardinality(Procs \ {p}) * MaxPlates
      BY <3>1, <3>2, BoundsAssumption, TotalBound
    <3>4. QED
      BY <3>2, <3>3, CeilingType
  <2>4. /\ PlatesInFlight' + 0 = PlatesInFlight + call[p].plates
        /\ PlatesInFlight \in Nat /\ PlatesInFlight' \in Nat
    BY <1>1, <1>3, <1>6, FlightChange
  <2>5. PlatesOf(Lasting)' = PlatesOf(Lasting)
    BY <1>1 DEF PlatesOf, Lasting
  <2>6. PlatesOf(Lasting)' + PlatesInFlight' <= Ceiling
    <3>1. (Cardinality(Procs) - 1) * MaxPlates \in Nat
      <4>1. \A k, m \in Nat : k * m \in Nat
        OBVIOUS
      <4>2. QED
        BY <4>1, CeilingType, BoundsAssumption
    <3> DEFINE others == (Cardinality(Procs) - 1) * MaxPlates
    <3>2. others \in Nat /\ PlatesInFlight <= others /\ Ceiling = DailyLimit + others
      BY <2>3, <3>1 DEF Ceiling
    <3> HIDE DEF others
    <3>3. \A a, b, s, n, d, c, k \in Nat :
            a <= s /\ s + n <= d /\ c <= k /\ b + 0 = c + n => a + b <= d + k
      OBVIOUS
    <3>4. QED
      BY <1>3, <2>1, <2>2, <2>4, <2>5, <3>2, <3>3, BoundsAssumption
  <2>7. \A q \in Procs : Fit(call[q])'
    BY <1>1, <1>2, FitFrame DEF GoesOn
  <2>8. \A o \in Orders : Unpaid(order[o])'
    BY <1>1 DEF PlatesInv
  <2>9. QED
    BY <2>6, <2>7, <2>8 DEF PlatesInv, Ceiling
<1>7. QED
  BY <1>5, <1>6

\* A call that only moves on, or ends, and leaves every order's stock alone.
LEMMA QuietPlates ==
  ASSUME TypeInv, TypeInv', PlatesInv, NEW p \in Procs,
         \A o \in Orders : SameStock(order[o], order'[o]),
         \/ Return(p) \/ Refuse(p)
         \/ \E phase \in {"table", "stock", "move", "release"} : Goto(p, phase)
  PROVE  PlatesInv'
<1>1. OnlySlot(p)
  BY OneSlotMoves
<1>2. call'[p].phase \in {"idle", "table", "stock", "move", "release"}
  <2>1. CASE Return(p)
    BY <2>1, SlotBecomes DEF NoCall
  <2>2. ASSUME NEW phase \in {"table", "stock", "move", "release"}, Goto(p, phase)
        PROVE  call'[p].phase = phase
    <3>1. call[p] \in Calls
      BY DEF TypeInv, TypeOK
    <3>2. call'[p] = [call[p] EXCEPT !.phase = phase]
      BY <2>2, SlotBecomes
    <3>3. QED
      BY <3>1, <3>2 DEF Calls
  <2>3. QED
    BY <2>1, <2>2 DEF Refuse
<1>3. Promised(call'[p]) = 0 /\ Promised(call[p]) \in Nat
  BY <1>2, PlatesAreCounted DEF Promised, Promising
<1>4. QED
  BY <1>1, <1>2, <1>3, CallKeepsPlates

\* A call begins with nothing promised.
LEMMA StartPlates ==
  ASSUME TypeInv, TypeInv', PlatesInv, NEW p \in Procs, Start(p)
  PROVE  PlatesInv'
<1>1. PICK c : Fresh(c) /\ Begin(p, c)
  BY StartIsFresh
<1>2. OnlySlot(p) /\ call'[p] = c /\ order' = order
  BY <1>1, OneSlotMoves, SlotBecomes DEF Begin
<1>3. Fit(call[p])'
  BY <1>1, <1>2 DEF Fresh, Fit
<1>4. Promised(call'[p]) = 0 /\ Promised(call[p]) \in Nat
  BY <1>1, <1>2, PlatesAreCounted DEF Fresh, Promised, Promising
<1>5. QED
  BY <1>2, <1>3, <1>4, CallKeepsPlates DEF SameStock

\* The order that is created holds what its call was promised.
LEMMA CreatePlates ==
  ASSUME TypeInv, TypeInv', PlatesInv, NEW p \in Procs, NEW o \in Orders,
         CreateOrder(p, o)
  PROVE  PlatesInv'
<1>0. call[p] \in Calls /\ In(p, "create") /\ order[o].status = "none"
      /\ call \in [Procs -> Calls] /\ order \in [Orders -> OrderRows]
  BY DEF CreateOrder, TypeInv, TypeOK
<1>1. CASE call[p].table # None /\ table[call[p].table] = "deleted"
  BY <1>1, QuietPlates DEF CreateOrder, SameStock
<1>2. CASE ~(call[p].table # None /\ table[call[p].table] = "deleted")
  <2>1. /\ \A x \in Orders \ {o} : order'[x] = order[x]
        /\ order'[o].status = "PENDING_PAYMENT" /\ order'[o].plates = call[p].plates
        /\ ~order'[o].paid /\ ~order'[o].late
    BY <1>0, <1>2 DEF CreateOrder
  <2>2. OnlySlot(p) /\ call'[p].phase \in {"markSeated", "idle"}
    <3> DEFINE c == IF call[p].via = "seat"
                      THEN [call[p] EXCEPT !.phase = "markSeated", !.order = o]
                      ELSE NoCall
    <3>1. call' = [call EXCEPT ![p] = c]
      BY <1>0, <1>2 DEF CreateOrder
    <3>2. c.phase \in {"markSeated", "idle"}
      BY <1>0 DEF Calls, NoCall
    <3> HIDE DEF c
    <3>3. QED
      BY <1>0, <3>1, <3>2 DEF OnlySlot
  <2>3. GoesOn(order[o], order'[o]) /\ Unpaid(order'[o])
    BY <1>0, <2>1 DEF GoesOn, Unpaid
  <2>4. /\ Taken(order[o]) = 0 /\ Promised(call'[p]) = 0
        /\ Promised(call[p]) = call[p].plates /\ call[p].plates \in Nat
        /\ Taken(order'[o]) \in {0, call[p].plates}
    BY <1>0, <2>1, <2>2, PlatesAreCounted
    DEF Taken, Lasts, CountedRow, Promised, Promising, In
  <2>5. Taken(order'[o]) + Promised(call'[p]) <= Taken(order[o]) + Promised(call[p])
    BY <2>4
  <2>6. QED
    BY <2>1, <2>2, <2>3, <2>5, WriteKeepsPlates
<1>3. QED
  BY <1>1, <1>2

\* The order that is added to takes what was promised, and no more.
LEMMA AddPlates ==
  ASSUME TypeInv, TypeInv', PlatesInv, NEW p \in Procs, AddItems(p)
  PROVE  PlatesInv'
<1> DEFINE o == call[p].order
<1>1. o \in Orders /\ order[o] \in OrderRows /\ call[p].phase = "add"
  BY DEF AddItems, In, GoodCall, TypeInv, TypeOK, SlotsOK
<1>2. order' = [order EXCEPT ![o].plates = @ + call[p].plates] /\ Return(p)
  BY DEF AddItems
<1>3. OnlySlot(p) /\ call'[p].phase = "idle"
  BY <1>2, OneSlotMoves, SlotBecomes DEF NoCall
<1> HIDE DEF o
<1>4. /\ \A x \in Orders \ {o} : order'[x] = order[x]
      /\ order'[o] = [order[o] EXCEPT !.plates = @ + call[p].plates]
  BY <1>1, <1>2 DEF TypeInv, TypeOK
<1>5. /\ order'[o].plates = order[o].plates + call[p].plates
      /\ order'[o].status = order[o].status /\ order'[o].kind = order[o].kind
      /\ order'[o].paid = order[o].paid /\ order'[o].late = order[o].late
      /\ order'[o].today = order[o].today /\ order'[o].held = order[o].held
  BY <1>1, <1>4 DEF OrderRows
<1>6. GoesOn(order[o], order'[o]) /\ Unpaid(order'[o])
  BY <1>1, <1>5 DEF GoesOn, Unpaid, PlatesInv
<1>7. /\ order[o].plates \in Nat /\ call[p].plates \in Nat
      /\ Promised(call'[p]) = 0 /\ Promised(call[p]) = call[p].plates
      /\ \/ Taken(order'[o]) = 0 /\ Taken(order[o]) = 0
         \/ /\ Taken(order'[o]) = order[o].plates + call[p].plates
            /\ Taken(order[o]) = order[o].plates
  <2>1. Lasts(order'[o]) <=> Lasts(order[o])
    BY <1>5 DEF Lasts, CountedRow
  <2>2. QED
    BY <1>1, <1>3, <1>5, <2>1, PlatesAreCounted DEF Taken, Promised, Promising, OrderRows
<1>8. Taken(order'[o]) + Promised(call'[p]) <= Taken(order[o]) + Promised(call[p])
  BY <1>7
<1>9. QED
  BY <1>1, <1>3, <1>4, <1>6, <1>8, WriteKeepsPlates

\* A status that is written takes no plates that nobody accounts for: an order
\* that goes on after it gave its plates back is late.
LEMMA StatusPlates ==
  ASSUME TypeInv, TypeInv', PlatesInv, NEW p \in Procs,
         MarkPaidManually(p) \/ UpdateStatus(p) \/ MarkPaid(p)
  PROVE  PlatesInv'
<1> DEFINE o == call[p].order
           old == order[o]
           new == order'[o]
<1>1. /\ o \in Orders /\ old \in OrderRows /\ Fit(call[p]) /\ Unpaid(old)
      /\ call[p].phase \in {"settle", "update", "pay"} /\ order \in [Orders -> OrderRows]
  BY DEF MarkPaidManually, UpdateStatus, MarkPaid, In, GoodCall, TypeInv, TypeOK, SlotsOK,
         PlatesInv
<1>2. OnlySlot(p) /\ call'[p].phase = "idle"
  <2>1. Return(p)
    BY DEF MarkPaidManually, UpdateStatus, MarkPaid
  <2>2. QED
    BY <2>1, OneSlotMoves, SlotBecomes DEF NoCall
<1>3. PICK to \in Statuses :
        /\ old.status # "none" /\ to \notin {"none", "PENDING_PAYMENT"}
        /\ \/ order' = [order EXCEPT ![o] = Written(o, to)]
           \/ order' = [order EXCEPT ![o] = [Written(o, to) EXCEPT !.paid = TRUE]]
  <2>1. CASE MarkPaidManually(p)
    <3> DEFINE next == IF call[p].to = "none" THEN old.status ELSE call[p].to
    <3>1. /\ call[p].phase = "settle" /\ call[p].to \in {"none", "CONFIRMED"}
          /\ order' = [order EXCEPT ![o] = [Written(o, next) EXCEPT !.paid = TRUE]]
      BY <2>1 DEF MarkPaidManually, In, GoodCall, TypeInv, SlotsOK
    <3>2. /\ old.status # "none"
          /\ call[p].to = "none" => old.status # "PENDING_PAYMENT"
      BY <1>1, <3>1 DEF Fit
    <3>3. next \in Statuses \ {"none", "PENDING_PAYMENT"}
      BY <1>1, <3>1, <3>2 DEF Statuses, OrderRows
    <3> HIDE DEF next, old, o
    <3>4. QED
      BY <3>1, <3>2, <3>3
  <2>2. CASE UpdateStatus(p)
    <3>1. /\ call[p].phase = "update" /\ call[p].to \in Statuses
          /\ order' = [order EXCEPT ![o] = Written(o, call[p].to)]
      BY <2>2 DEF UpdateStatus, In, GoodCall, TypeInv, SlotsOK
    <3>2. old.status # "none" /\ call[p].to \notin {"none", "PENDING_PAYMENT"}
      BY <1>1, <3>1 DEF Fit
    <3> HIDE DEF old, o
    <3>3. QED
      BY <3>1, <3>2
  <2>3. CASE MarkPaid(p)
    <3>1. /\ call[p].phase = "pay" /\ "CONFIRMED" \in Statuses
          /\ order' = [order EXCEPT ![o] = [Written(o, "CONFIRMED") EXCEPT !.paid = TRUE]]
      BY <2>3 DEF MarkPaid, In, Statuses
    <3>2. old.status # "none"
      BY <1>1, <3>1 DEF Fit
    <3> HIDE DEF old, o
    <3>3. QED
      BY <3>1, <3>2
  <2>4. QED
    BY <2>1, <2>2, <2>3
<1>4. /\ \A x \in Orders \ {o} : order'[x] = order[x]
      /\ new.status = to /\ new.kind = old.kind /\ new.plates = old.plates
      /\ new.held = old.held /\ new.today = old.today
      /\ new.late = (old.late \/ (GaveBack(o) /\ to # "CANCELLED"))
  <2> DEFINE row == Written(o, to)
             paidRow == [row EXCEPT !.paid = TRUE]
  <2>1. row = [old EXCEPT !.status = to,
                          !.late = @ \/ (GaveBack(o) /\ to # "CANCELLED")]
    BY DEF Written
  <2>2. /\ row.status = to /\ row.kind = old.kind /\ row.plates = old.plates
        /\ row.held = old.held /\ row.today = old.today
        /\ row.late = (old.late \/ (GaveBack(o) /\ to # "CANCELLED"))
        /\ row \in OrderRows
    <3>1. row \in OrderRows
      BY <1>1, WrittenIsRow
    <3> HIDE DEF old
    <3>2. QED
      BY <1>1, <2>1, <3>1 DEF OrderRows
  <2> HIDE DEF row
  <2>3. /\ paidRow.status = row.status /\ paidRow.kind = row.kind
        /\ paidRow.plates = row.plates /\ paidRow.held = row.held
        /\ paidRow.today = row.today /\ paidRow.late = row.late
    BY <2>2 DEF OrderRows
  <2>4. order' = [order EXCEPT ![o] = row] \/ order' = [order EXCEPT ![o] = paidRow]
    BY <1>3 DEF row
  <2> HIDE DEF paidRow, o, old
  <2>5. (\A x \in Orders \ {o} : order'[x] = order[x]) /\ order'[o] \in {row, paidRow}
    BY <1>1, <2>4
  <2>6. QED
    BY <2>2, <2>3, <2>5 DEF new
<1> HIDE DEF new, old, o
<1>5. Lasts(new) => Lasts(old)
  BY <1>3, <1>4 DEF Lasts, CountedRow, GaveBack, old
<1>6. GoesOn(old, new) /\ Unpaid(new)
  BY <1>3, <1>4 DEF GoesOn, Unpaid
<1>7. Taken(new) <= Taken(old) /\ Taken(new) \in Nat /\ Taken(old) \in Nat
  <2>1. old.plates \in Nat
    BY <1>1 DEF OrderRows
  <2>2. QED
    BY <1>4, <1>5, <2>1 DEF Taken
<1>8. Promised(call'[p]) = 0 /\ Promised(call[p]) \in Nat
  BY <1>2, PlatesAreCounted DEF Promised, Promising
<1>9. Taken(new) + Promised(call'[p]) <= Taken(old) + Promised(call[p])
  BY <1>7, <1>8
<1>10. QED
  BY <1>1, <1>2, <1>4, <1>6, <1>9, WriteKeepsPlates DEF new, old

\* The other writes of a call, and its faults, leave the plates alone.
LEMMA OtherCallPlates ==
  ASSUME TypeInv, TypeInv', PlatesInv, NEW p \in Procs,
         \/ ClaimForSeating(p) \/ CheckTable(p) \/ MarkSeated(p) \/ ReleaseClaim(p)
         \/ MarkEntryCancelled(p) \/ MoveOrder(p) \/ CloseTable(p)
         \/ Throw(p) \/ Die(p)
  PROVE  PlatesInv'
<1>1. \/ Return(p) \/ Refuse(p)
      \/ \E phase \in {"table", "stock", "move", "release"} : Goto(p, phase)
  BY DEF ClaimForSeating, CheckTable, MarkSeated, ReleaseClaim, MarkEntryCancelled,
         MoveOrder, CloseTable, Throw, Die
<1>2. ASSUME NEW o \in Orders PROVE SameStock(order[o], order'[o])
  <2>1. order \in [Orders -> OrderRows]
    BY DEF TypeInv, TypeOK
  <2>2. CASE order' = order
    BY <2>2 DEF SameStock
  <2>3. ASSUME NEW t, order'[o] = [order[o] EXCEPT !.table = t]
        PROVE  SameStock(order[o], order'[o])
    BY <2>1, <2>3 DEF SameStock, OrderRows
  <2>4. CASE MoveOrder(p)
    <3>1. order' = order \/ order' = [order EXCEPT ![call[p].order] =
                               [order[call[p].order] EXCEPT !.table = call[p].table]]
      BY <2>1, <2>4 DEF MoveOrder
    <3>2. order'[o] = order[o] \/ order'[o] = [order[o] EXCEPT !.table = call[p].table]
      BY <2>1, <3>1
    <3>3. QED
      BY <2>3, <3>2 DEF SameStock
  <2>5. CASE CloseTable(p)
    <3>1. order'[o] = order[o] \/ order'[o] = [order[o] EXCEPT !.table = None]
      BY <2>1, <2>5 DEF CloseTable
    <3>2. QED
      BY <2>3, <3>1 DEF SameStock
  <2>6. QED
    BY <2>2, <2>4, <2>5
    DEF ClaimForSeating, CheckTable, MarkSeated, ReleaseClaim, MarkEntryCancelled,
        Throw, Die
<1>3. QED
  BY <1>1, <1>2, QuietPlates

\* What happens to an order outside the calls: it gives its plates back.
LEMMA OutsidePlates ==
  ASSUME TypeInv, TypeInv', PlatesInv, NEW o \in Orders,
         CancelWithRefund(o) \/ HoldExpires(o)
  PROVE  PlatesInv'
<1>1. order[o] \in OrderRows /\ Unpaid(order[o]) /\ call' = call
      /\ order \in [Orders -> OrderRows]
  BY DEF CancelWithRefund, HoldExpires, TypeInv, TypeOK, PlatesInv
<1>2. PICK p \in Procs : TRUE
  BY SetsAssumption
<1>3. OnlySlot(p) /\ call'[p] = call[p]
  BY <1>1 DEF OnlySlot
<1>4. \A x \in Orders \ {o} : order'[x] = order[x]
  BY <1>1 DEF CancelWithRefund, HoldExpires
<1>5. /\ GoesOn(order[o], order'[o]) /\ Unpaid(order'[o])
      /\ Lasts(order'[o]) => Lasts(order[o])
      /\ order'[o].plates = order[o].plates
  <2>1. CASE CancelWithRefund(o)
    <3>1. order'[o] = [order[o] EXCEPT !.status = "CANCELLED", !.paid = FALSE]
      BY <1>1, <2>1 DEF CancelWithRefund
    <3>2. QED
      BY <1>1, <3>1 DEF OrderRows, GoesOn, Unpaid, Lasts, CountedRow
  <2>2. CASE HoldExpires(o)
    <3>1. order'[o] = [order[o] EXCEPT !.held = FALSE]
      BY <1>1, <2>2 DEF HoldExpires
    <3>2. QED
      BY <1>1, <3>1 DEF OrderRows, GoesOn, Unpaid, Lasts, CountedRow
  <2>3. QED
    BY <2>1, <2>2
<1>6. Taken(order'[o]) <= Taken(order[o]) /\ Taken(order'[o]) \in Nat
      /\ Taken(order[o]) \in Nat /\ Promised(call[p]) \in Nat
  <2>1. order[o].plates \in Nat
    BY <1>1 DEF OrderRows
  <2>2. QED
    BY <1>5, <2>1, PlatesAreCounted DEF Taken
<1>7. Taken(order'[o]) + Promised(call'[p]) <= Taken(order[o]) + Promised(call[p])
  BY <1>3, <1>6
<1>8. QED
  BY <1>3, <1>4, <1>5, <1>7, WriteKeepsPlates

\* Every step keeps the account of the plates.
LEMMA PlatesInvStep == TypeInv /\ TypeInv' /\ PlatesInv /\ [Next]_vars => PlatesInv'
<1> SUFFICES ASSUME TypeInv, TypeInv', PlatesInv, [Next]_vars PROVE PlatesInv'
  OBVIOUS
<1>1. ASSUME NEW p \in Procs, Continue(p) PROVE PlatesInv'
  BY <1>1, CheckStockPlates, CreatePlates, AddPlates, StatusPlates, OtherCallPlates
  DEF Continue
<1>2. CASE Dawn \/ UNCHANGED vars
  <2>1. order' = order /\ call' = call
    BY <1>2 DEF Dawn, vars
  <2>2. QED
    BY <2>1 DEF PlatesInv, Fit, PlatesOf, Lasting, PlatesInFlight
<1>3. QED
  BY <1>1, <1>2, StartPlates, OtherCallPlates, OutsidePlates DEF Next

\* The limit is exceeded by no more than a full cart for each of the other
\* calls in flight, and by the plates of orders that went on after they had
\* given theirs back: paid after the hold, or revived by a stale write or by a
\* confirmation of an order that was cancelled.
THEOREM StockIsShared == Spec => []NotOversold
<1>1. Init => PlatesInv
  <2> SUFFICES ASSUME Init PROVE PlatesInv
    OBVIOUS
  <2>1. (\A o \in Orders : Unpaid(order[o])) /\ \A p \in Procs : Fit(call[p])
    BY DEF Init, NoOrder, NoCall, Unpaid, Fit
  <2>2. Lasting = {} /\ Flying = {}
    BY DEF Init, NoOrder, NoCall, Lasting, Lasts, CountedRow, Flying, Promising
  <2>3. PlatesOf(Lasting) = 0 /\ PlatesInFlight = 0
    BY <2>2, TotalEmpty DEF PlatesOf, PlatesInFlight, Flying, Promising
  <2>4. QED
    BY <2>1, <2>3, CeilingType DEF PlatesInv
<1>2. TypeInv /\ PlatesInv => NotOversold
  <2> SUFFICES ASSUME TypeInv, PlatesInv PROVE NotOversold
    OBVIOUS
  <2> DEFINE S == {o \in Orders : Counted(o)}
             L == {o \in Orders : Counted(o) /\ order[o].late}
  <2>1. S \in SUBSET (Lasting \cup L) /\ Lasting \in SUBSET Orders
        /\ S \in SUBSET Orders /\ L \in SUBSET Orders
    BY DEF Lasting, Lasts, CountedRow, Counted
  <2>2. /\ IsFiniteSet(Lasting) /\ Counts(PlatesOfOrders, Lasting)
        /\ IsFiniteSet(L) /\ Counts(PlatesOfOrders, L)
        /\ PlatesOf(S) \in Nat /\ PlatesOf(L) \in Nat /\ PlatesOf(Lasting) \in Nat
        /\ PlatesInFlight \in Nat
    BY <2>1, PlatesAreCounted
  <2>3. Sold = PlatesOf(S) /\ Unchecked = PlatesOf(L)
    BY DEF Sold, Unchecked
  <2> HIDE DEF S, L
  <2>4. PlatesOf(S) <= PlatesOf(Lasting) + PlatesOf(L)
    <3>1. Total(PlatesOfOrders, S)
            <= Total(PlatesOfOrders, Lasting) + Total(PlatesOfOrders, L)
      BY <2>1, <2>2, TotalCover
    <3>2. QED
      BY <3>1 DEF PlatesOf, PlatesOfOrders
  <2>5. Sold + PlatesInFlight <= Ceiling + Unchecked
    BY <2>2, <2>3, <2>4, CeilingType DEF PlatesInv
  <2>6. QED
    BY <2>5 DEF NotOversold, Ceiling
<1>3. QED
  BY <1>1, <1>2, TypeInvAlways, PlatesInvStep, PTL DEF Spec
=============================================================================
