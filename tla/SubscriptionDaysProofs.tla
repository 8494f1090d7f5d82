----------------------- MODULE SubscriptionDaysProofs -----------------------
(***************************************************************************)
(* Theorems about SubscriptionDays, for every plan, calendar, set of slots *)
(* and choice of handlers and faults.                                      *)
(***************************************************************************)
EXTENDS SubscriptionDays, TotalsProofs

-----------------------------------------------------------------------------
\* Banking.

\* A non-empty set of numbers has a least one.
LEMMA LeastNumber ==
  ASSUME NEW S \in SUBSET Nat, S # {}
  PROVE  \E m \in S : \A k \in S : m <= k
<1>1. PICK m \in S : \A k \in S : ~(<<k, m>> \in OpToRel(<, Nat))
  BY NatLessThanWellFounded, WFMin
<1>2. \A k \in S : ~(k < m)
  BY <1>1 DEF OpToRel
<1>3. QED
  BY <1>2

\* bankExtraDays returns an open day that has exactly n open days up to it,
\* after the end of the cycle and after the end of the pause.
LEMMA BankIsRight ==
  ASSUME NEW cycleEnd \in Nat, NEW n \in Nat \ {0}, NEW after \in Nat
  PROVE  LET base == IF after > cycleEnd THEN after ELSE cycleEnd
             e == Bank(cycleEnd, n, after)
         IN  /\ e \in Nat /\ e > base /\ e \notin Closed
             /\ Cardinality(((base + 1)..e) \ Closed) = n
<1> DEFINE base == IF after > cycleEnd THEN after ELSE cycleEnd
           open(e) == ((base + 1)..e) \ Closed
           top == base + n + Cardinality(Closed)
           enough == {e \in Nat : e >= base /\ Cardinality(open(e)) >= n}
<1>0. base \in Nat /\ Cardinality(Closed) \in Nat /\ top \in Nat
  BY CalendarAssumption, FS_CardinalityType
<1> HIDE DEF base
<1>1. \A e \in Nat : IsFiniteSet(open(e)) /\ Cardinality(open(e)) \in Nat
  <2> SUFFICES ASSUME NEW e \in Nat
               PROVE  IsFiniteSet(open(e)) /\ Cardinality(open(e)) \in Nat
    OBVIOUS
  <2>1. IsFiniteSet((base + 1)..e)
    BY <1>0, FS_Interval
  <2>2. QED
    BY <2>1, FS_Difference, FS_CardinalityType
<1>2. top \in enough
  <2> DEFINE all == (base + 1)..top
  <2>1. IsFiniteSet(all) /\ Cardinality(all) = n + Cardinality(Closed)
    <3>1. base + 1 \in Int /\ top \in Int /\ ~(base + 1 > top)
      BY <1>0
    <3>2. top - (base + 1) + 1 = n + Cardinality(Closed)
      BY <1>0
    <3> HIDE DEF top
    <3>3. QED
      BY <3>1, <3>2, FS_Interval
  <2>2. Cardinality(all \ Closed) = Cardinality(all) - Cardinality(all \cap Closed)
    BY <2>1, FS_Difference
  <2>3. /\ Cardinality(all \cap Closed) <= Cardinality(Closed)
        /\ Cardinality(all \cap Closed) \in Nat
    BY CalendarAssumption, FS_Intersection, FS_CardinalityType
  <2>4. Cardinality(open(top)) >= n
    BY <2>1, <2>2, <2>3, <1>0
  <2>5. QED
    BY <2>4, <1>0
<1> HIDE DEF top
<1>3. PICK e \in enough : \A k \in enough : e <= k
  <2>1. enough \in SUBSET Nat /\ enough # {}
    BY <1>2
  <2> HIDE DEF enough
  <2>2. QED
    BY <2>1, LeastNumber
<1>4. e \in base..top /\ e > base
  <2>1. (base + 1)..base = {}
    BY <1>0
  <2>2. Cardinality(open(base)) = 0
    BY <2>1, FS_EmptySet
  <2>3. e # base
    BY <2>2, <1>3
  <2>4. QED
    BY <2>3, <1>3, <1>2, <1>0 DEF top
<1>5. Cardinality(open(e - 1)) < n
  <2>1. e - 1 \in Nat /\ e - 1 >= base /\ e - 1 \notin enough
    BY <1>3, <1>4, <1>0
  <2>2. QED
    BY <2>1, <1>1
<1>6. e \notin Closed /\ Cardinality(open(e)) = n
  <2>1. open(e) = IF e \in Closed THEN open(e - 1) ELSE open(e - 1) \cup {e}
    BY <1>3, <1>4, <1>0
  <2>2. e \notin open(e - 1)
    BY <1>3, <1>4, <1>0
  <2>3. Cardinality(open(e)) >= n /\ e - 1 \in Nat
    BY <1>3, <1>4, <1>0
  <2> HIDE DEF open
  <2>4. e \notin Closed
    BY <2>1, <2>3, <1>5, <1>1
  <2>5. Cardinality(open(e)) = Cardinality(open(e - 1)) + 1
    BY <2>1, <2>2, <2>3, <2>4, <1>1, FS_AddElement
  <2>6. QED
    BY <2>3, <2>4, <2>5, <1>5, <1>1
<1>7. LET b == Bank(cycleEnd, n, after)
      IN  /\ b \in base..top
          /\ Cardinality(open(b)) = n /\ b \notin Closed
  <2>1. \E b \in base..top : Cardinality(open(b)) = n /\ b \notin Closed
    BY <1>4, <1>6
  <2>2. Bank(cycleEnd, n, after)
          = CHOOSE b \in base..top : Cardinality(open(b)) = n /\ b \notin Closed
    BY DEF Bank, base, top
  <2> HIDE DEF open
  <2>3. QED
    BY <2>1, <2>2
<1>8. Bank(cycleEnd, n, after) # base
  <2>1. (base + 1)..base = {}
    BY <1>0
  <2>2. Cardinality(open(base)) = 0
    BY <2>1, FS_EmptySet
  <2>3. QED
    BY <2>2, <1>7
<1>9. QED
  <2>1. Bank(cycleEnd, n, after) \in Nat /\ Bank(cycleEnd, n, after) > base
    BY <1>7, <1>8, <1>0
  <2>2. QED
    BY <2>1, <1>7 DEF base

-----------------------------------------------------------------------------
\* Types. A call that credits credits at least one day, and one that works on
\* a claimed day has a day of the calendar.

Credits(c) == c.phase \in {"skip", "extend", "bankHeld"} => c.n > 0
HasDay(c) ==
  c.phase \in {"lookup", "hold", "heldSkip", "order", "advance"} => c.day > 0

SlotsOK == /\ call \in [Procs -> Calls]
           /\ \A p \in Procs : Credits(call[p]) /\ HasDay(call[p])

TypeInv == TypeOK /\ SlotsOK

\* A call record that may stand in a slot.
GoodCall(c) == c \in Calls /\ Credits(c) /\ HasDay(c)

\* The slot at rest is one, and a set of days that is not empty counts.
LEMMA RestIsGood == GoodCall(NoCall) /\ NoCall.saw \in Rows
BY CalendarAssumption
   DEF GoodCall, Credits, HasDay, NoCall, Calls, Phases, Rows, Statuses, Days

\* A finite set of days that is not empty counts at least one.
LEMMA DaysCount ==
  ASSUME NEW S, IsFiniteSet(S), S # {}
  PROVE  Cardinality(S) \in Nat \ {0}
BY FS_CardinalityType, FS_EmptySet

\* What a handler puts in its slot as it starts is good.
LEMMA BegunReading ==
  ASSUME NEW saw \in Rows
  PROVE  GoodCall([NoCall EXCEPT !.phase = "materialize", !.saw = saw])
<1>1. NoCall \in Calls
  BY RestIsGood DEF GoodCall
<1>2. QED
  BY <1>1 DEF GoodCall, Credits, HasDay, Calls, Phases

\* So is what it puts there for a customer's request,
LEMMA BegunAsking ==
  ASSUME NEW from \in Nat
  PROVE  GoodCall([NoCall EXCEPT !.phase = "request", !.from = from])
<1>1. NoCall \in Calls
  BY RestIsGood DEF GoodCall
<1>2. QED
  BY <1>1 DEF GoodCall, Credits, HasDay, Calls, Phases

\* the answer to one,
LEMMA BegunAnswering ==
  ASSUME NEW id \in Nat
  PROVE  GoodCall([NoCall EXCEPT !.phase = "findHeld", !.req = id])
<1>1. NoCall \in Calls
  BY RestIsGood DEF GoodCall
<1>2. QED
  BY <1>1 DEF GoodCall, Credits, HasDay, Calls, Phases

\* a pause,
LEMMA BegunPausing ==
  ASSUME NEW from \in Nat, NEW to \in Nat, NEW saw \in Rows
  PROVE  GoodCall([NoCall EXCEPT !.phase = "calendar", !.from = from, !.to = to,
                                 !.after = to, !.saw = saw])
<1> DEFINE c == [NoCall EXCEPT !.phase = "calendar", !.from = from, !.to = to]
<1>1. NoCall \in Calls
  BY RestIsGood DEF GoodCall
<1>2. c \in Calls /\ c.phase = "calendar"
  BY <1>1 DEF Calls, Phases
<1> HIDE DEF c
<1>3. GoodCall([c EXCEPT !.after = to, !.saw = saw])
  BY <1>2 DEF GoodCall, Credits, HasDay, Calls
<1>4. QED
  BY <1>3 DEF c

\* and a disruption.
LEMMA BegunDisrupting ==
  ASSUME NEW d \in Nat, NEW saw \in Rows
  PROVE  GoodCall([NoCall EXCEPT !.phase = "skip", !.from = d, !.to = d,
                                 !.n = 1, !.saw = saw])
<1> DEFINE c == [NoCall EXCEPT !.phase = "skip", !.from = d, !.to = d]
           e == [c EXCEPT !.n = 1]
<1>1. NoCall \in Calls
  BY RestIsGood DEF GoodCall
<1>2. c \in Calls /\ c.phase = "skip"
  BY <1>1 DEF Calls, Phases
<1> HIDE DEF c
<1>3. e \in Calls /\ e.phase = "skip" /\ e.n = 1
  BY <1>2 DEF Calls
<1> HIDE DEF e
<1>4. GoodCall([e EXCEPT !.saw = saw])
  BY <1>3 DEF GoodCall, Credits, HasDay, Calls
<1>5. QED
  BY <1>4 DEF c, e

\* Changing one slot to a good call, or to another phase that needs no more
\* than the call has, keeps all slots good.
LEMMA SlotChange ==
  ASSUME TypeInv, NEW p \in Procs, NEW c, GoodCall(c),
         call' = [call EXCEPT ![p] = c]
  PROVE  SlotsOK'
BY DEF TypeInv, SlotsOK, GoodCall

\* A slot whose call returns is good.
LEMMA ReturnChange ==
  ASSUME TypeInv, NEW p \in Procs, Return(p)
  PROVE  SlotsOK'
BY SlotChange, RestIsGood DEF Return

\* A call that goes on has the days its next phase needs.
LEMMA GotoChange ==
  ASSUME TypeInv, NEW p \in Procs, NEW phase \in Phases, Goto(p, phase),
         phase \in {"skip", "extend", "bankHeld"} => call[p].n > 0,
         phase \in {"lookup", "hold", "heldSkip", "order", "advance"}
           => call[p].day > 0
  PROVE  SlotsOK'
<1> DEFINE c == [call[p] EXCEPT !.phase = phase]
<1>1. GoodCall(c)
  BY DEF GoodCall, TypeInv, SlotsOK, Calls, Credits, HasDay
<1>2. call' = [call EXCEPT ![p] = c]
  BY DEF Goto
<1>3. QED
  BY <1>1, <1>2, SlotChange

\* A row whose cycle end and credits a banking call moved is a row.
LEMMA ExtendedRow ==
  ASSUME TypeInv, NEW p \in Procs, call[p].n > 0
  PROVE  Extended(call[p]) \in Rows
<1>1. /\ call[p].saw.cycleEnd \in Nat /\ call[p].n \in Nat \ {0}
      /\ call[p].after \in Nat
  BY DEF TypeInv, TypeOK, Calls, Rows
<1> DEFINE e == Bank(call[p].saw.cycleEnd, call[p].n, call[p].after)
           b == sub.banked + call[p].n
<1>2. e \in Nat
  BY <1>1, BankIsRight
<1>3. sub \in Rows /\ b \in Nat
  BY <1>1 DEF TypeInv, TypeOK, Rows
<1>4. Extended(call[p]) = [sub EXCEPT !.cycleEnd = e, !.banked = b]
  BY DEF Extended
<1> HIDE DEF e, b
<1>5. QED
  BY <1>2, <1>3, <1>4 DEF Rows

\* Nothing is in flight at the start.
LEMMA InitTypeInv == Init => TypeInv
<1> SUFFICES ASSUME Init PROVE TypeInv
  OBVIOUS
<1>1. \A p \in Procs : GoodCall(call[p])
  BY RestIsGood DEF Init
<1>2. today \in 0..Horizon /\ sub \in Rows
  BY RestIsGood, CalendarAssumption DEF Init
<1>3. QED
  BY <1>1, <1>2, RestIsGood
     DEF Init, TypeInv, TypeOK, SlotsOK, GoodCall, Requests, RequestStatuses

\* The handlers' first steps keep the types.
LEMMA StartTypeInv ==
  ASSUME TypeInv, NEW p \in Procs, Start(p) PROVE TypeInv'
<1> USE DEF rows, bounds
<1>0. /\ EarliestEditableDate \in Nat
      /\ \A d \in Days : d \in Nat
      /\ sub \in Rows
      /\ request \in Requests /\ request.id \in Nat
  BY CalendarAssumption
     DEF TypeInv, TypeOK, EarliestEditableDate, Days, Requests
<1>1. CASE StartMaterialize(p)
  <2> DEFINE c == [NoCall EXCEPT !.phase = "materialize", !.saw = sub]
  <2>1. GoodCall(c)
    BY <1>0, BegunReading
  <2>2. call' = [call EXCEPT ![p] = c]
    BY <1>1 DEF StartMaterialize, Begin
  <2> HIDE DEF c
  <2>3. SlotsOK'
    BY <2>1, <2>2, SlotChange
  <2>4. QED
    BY <1>1, <2>3
       DEF StartMaterialize, TypeInv, TypeOK, SlotsOK
<1>2. ASSUME NEW from \in Days, NEW to \in Days, StartPause(p, from, to)
      PROVE  TypeInv'
  <2> DEFINE c == [NoCall EXCEPT !.phase = "calendar", !.from = from, !.to = to,
                                 !.after = to, !.saw = sub]
  <2>1. GoodCall(c)
    BY <1>0, BegunPausing
  <2>2. call' = [call EXCEPT ![p] = c]
    BY <1>2 DEF StartPause, Begin
  <2> HIDE DEF c
  <2>3. SlotsOK'
    BY <2>1, <2>2, SlotChange
  <2>4. QED
    BY <1>2, <2>3 DEF StartPause, Edit, TypeInv, TypeOK, SlotsOK
<1>3. ASSUME NEW d \in Days, StartDisruption(p, d) PROVE TypeInv'
  <2> DEFINE c == [NoCall EXCEPT !.phase = "skip", !.from = d, !.to = d,
                                 !.n = 1, !.saw = sub]
  <2>1. GoodCall(c)
    BY <1>0, BegunDisrupting
  <2>2. call' = [call EXCEPT ![p] = c]
    BY <1>3 DEF StartDisruption, Begin
  <2> HIDE DEF c
  <2>3. SlotsOK'
    BY <2>1, <2>2, SlotChange
  <2>4. QED
    BY <1>3, <2>3
       DEF StartDisruption, Edit, TypeInv, TypeOK, SlotsOK
<1>4. CASE StartRequest(p)
  <2> DEFINE c == [NoCall EXCEPT !.phase = "request",
                                 !.from = EarliestEditableDate]
  <2>1. GoodCall(c)
    BY <1>0, BegunAsking
  <2>2. call' = [call EXCEPT ![p] = c]
    BY <1>4 DEF StartRequest, Begin
  <2> HIDE DEF c
  <2>3. SlotsOK'
    BY <2>1, <2>2, SlotChange
  <2>4. QED
    BY <1>4, <2>3
       DEF StartRequest, Edit, TypeInv, TypeOK, SlotsOK
<1>5. CASE AnswerRequest(p)
  <2> DEFINE c == [NoCall EXCEPT !.phase = "findHeld", !.req = request.id]
  <2>1. GoodCall(c)
    BY <1>0, BegunAnswering
  <2>2. call' = [call EXCEPT ![p] = c]
    BY <1>5 DEF AnswerRequest, Begin
  <2> HIDE DEF c
  <2>3. SlotsOK'
    BY <2>1, <2>2, SlotChange
  <2>4. request' \in Requests
    BY <1>5, <1>0 DEF AnswerRequest, Requests, RequestStatuses
  <2>5. QED
    BY <1>5, <2>3, <2>4
       DEF AnswerRequest, TypeInv, TypeOK, SlotsOK
<1>6. QED
  BY <1>1, <1>2, <1>3, <1>4, <1>5 DEF Start

\* The steps of a call keep the types.
LEMMA ContinueTypeInv ==
  ASSUME TypeInv, NEW p \in Procs, Continue(p) PROVE TypeInv'
<1> USE DEF rows, bounds
<1>0. /\ call[p] \in Calls /\ Credits(call[p]) /\ HasDay(call[p])
      /\ sub \in Rows /\ request \in Requests
  BY DEF TypeInv, TypeOK, SlotsOK
<1>1. CASE NotDue(p)
  BY <1>1, ReturnChange DEF NotDue, TypeInv, TypeOK, SlotsOK
<1>2. CASE ExpireSubscription(p)
  <2>1. sub' \in Rows
    BY <1>0, <1>2 DEF ExpireSubscription, Rows, Statuses
  <2>2. SlotsOK'
    BY <1>2, ReturnChange DEF ExpireSubscription
  <2>3. QED
    BY <1>2, <2>1, <2>2 DEF ExpireSubscription, TypeInv, TypeOK, SlotsOK
<1>3. CASE ClaimDay(p)
  <2>1. today \in 1..Horizon
    BY <1>0, <1>3, CalendarAssumption DEF ClaimDay, TypeInv, TypeOK, Calls, Rows
  <2>2. sub' \in Rows
    BY <1>0, <1>3, <2>1, CalendarAssumption DEF ClaimDay, Rows
  <2>3. SlotsOK'
    <3> DEFINE c == [call[p] EXCEPT !.phase = "lookup", !.day = today]
    <3>1. today \in 0..Horizon /\ today > 0
      BY <2>1, CalendarAssumption
    <3>2. c \in Calls /\ c.phase = "lookup" /\ c.day = today
      BY <1>0, <3>1 DEF Calls, Phases
    <3>3. GoodCall(c)
      BY <3>1, <3>2 DEF GoodCall, Credits, HasDay
    <3>4. Return(p) \/ call' = [call EXCEPT ![p] = c]
      BY <1>3 DEF ClaimDay, TypeInv, SlotsOK
    <3> HIDE DEF c
    <3>5. QED
      BY <3>3, <3>4, SlotChange, ReturnChange
  <2>4. QED
    BY <1>3, <2>2, <2>3 DEF ClaimDay, TypeInv, TypeOK, SlotsOK
<1>4. CASE LookupSkip(p)
  <2> DEFINE d == call[p].day
             c == [call[p] EXCEPT !.phase = "skip", !.n = 1, !.from = d, !.to = d]
  <2>1. d \in Nat /\ d > 0
    BY <1>0, <1>4, CalendarAssumption DEF LookupSkip, In, HasDay, Calls
  <2>2. GoodCall(c)
    <3> DEFINE b == [call[p] EXCEPT !.phase = "skip", !.n = 1]
    <3>1. b \in Calls /\ b.phase = "skip" /\ b.n = 1
      BY <1>0 DEF Calls, Phases
    <3> HIDE DEF b, d
    <3>2. [b EXCEPT !.from = d, !.to = d] \in Calls
      BY <2>1, <3>1 DEF Calls
    <3>3. [b EXCEPT !.from = d, !.to = d].phase = "skip"
          /\ [b EXCEPT !.from = d, !.to = d].n = 1
      BY <3>1 DEF Calls
    <3>4. GoodCall([b EXCEPT !.from = d, !.to = d])
      BY <3>2, <3>3 DEF GoodCall, Credits, HasDay
    <3>5. QED
      BY <3>4 DEF b
  <2>3. Return(p) \/ call' = [call EXCEPT ![p] = c] \/ Goto(p, "hold")
    BY <1>4 DEF LookupSkip, TypeInv, SlotsOK
  <2> HIDE DEF c
  <2>4. SlotsOK'
    BY <2>1, <2>2, <2>3, SlotChange, ReturnChange, GotoChange DEF Phases
  <2>5. QED
    BY <1>4, <2>4 DEF LookupSkip, TypeInv, TypeOK, SlotsOK
<1>5. CASE LookupHold(p)
  <2> DEFINE c == [call[p] EXCEPT !.phase = "heldSkip", !.req = request.id]
  <2>1. call[p].day > 0
    BY <1>0, <1>5 DEF LookupHold, In, HasDay
  <2>2. GoodCall(c)
    BY <1>0, <2>1 DEF GoodCall, Calls, Phases, Credits, HasDay, Requests
  <2>3. call' = [call EXCEPT ![p] = c] \/ Goto(p, "order")
    BY <1>5 DEF LookupHold, TypeInv, SlotsOK
  <2> HIDE DEF c
  <2>4. SlotsOK'
    BY <2>1, <2>2, <2>3, SlotChange, GotoChange DEF Phases
  <2>5. QED
    BY <1>5, <2>4 DEF LookupHold, TypeInv, TypeOK, SlotsOK
<1>6. CASE CreateHeldSkip(p)
  <2>1. call[p].day \in Days /\ call[p].req \in Nat
    BY <1>0, <1>6, CalendarAssumption
       DEF CreateHeldSkip, In, HasDay, Calls, Days
  <2>2. SlotsOK'
    BY <1>6, ReturnChange DEF CreateHeldSkip
  <2>3. skipped' \subseteq Nat
    <3>1. call[p].day \in Nat /\ skipped \subseteq Nat
      BY <2>1 DEF Days, TypeInv, TypeOK
    <3>2. QED
      BY <1>6, <3>1 DEF CreateHeldSkip
  <2>4. held' \subseteq (Days \X Nat)
    BY <1>6, <2>1 DEF CreateHeldSkip, TypeInv, TypeOK
  <2>5. QED
    BY <1>6, <2>2, <2>3, <2>4 DEF CreateHeldSkip, TypeInv, TypeOK, SlotsOK
<1>7. CASE CreateOrder(p)
  <2>1. call[p].day > 0 /\ call[p].day \in Days
    BY <1>0, <1>7, CalendarAssumption DEF CreateOrder, In, HasDay, Calls, Days
  <2>2. SlotsOK'
    BY <1>7, <2>1, GotoChange DEF CreateOrder, Phases
  <2>3. delivered' \in [Days -> Nat]
    BY <1>7, <2>1 DEF CreateOrder, TypeInv, TypeOK
  <2>4. QED
    BY <1>7, <2>2, <2>3 DEF CreateOrder, TypeInv, TypeOK, SlotsOK
<1>8. CASE AdvanceSubscriptionDay(p)
  <2>1. sub' \in Rows
    BY <1>0, <1>8 DEF AdvanceSubscriptionDay, Rows, Calls
  <2>2. SlotsOK'
    BY <1>8, ReturnChange DEF AdvanceSubscriptionDay
  <2>3. QED
    BY <1>8, <2>1, <2>2 DEF AdvanceSubscriptionDay, TypeInv, TypeOK, SlotsOK
<1>9. CASE ReleaseMaterializationDate(p)
  <2>1. sub' \in Rows
    BY <1>0, <1>9 DEF ReleaseMaterializationDate, Rows, Calls
  <2>2. SlotsOK'
    BY <1>9, ReturnChange DEF ReleaseMaterializationDate
  <2>3. QED
    BY <1>9, <2>1, <2>2 DEF ReleaseMaterializationDate, TypeInv, TypeOK, SlotsOK
<1>10. CASE CreateSkip(p)
  <2>1. call[p].n \in Nat /\ call[p].n > 0
        /\ (call[p].from..call[p].to) \subseteq Nat
    BY <1>0, <1>10 DEF CreateSkip, In, Credits, Calls
  <2>2. SlotsOK'
    BY <1>10, <2>1, GotoChange DEF CreateSkip, Phases
  <2>3. skipped' \subseteq Nat
    BY <1>10, <2>1 DEF CreateSkip, TypeInv, TypeOK
  <2>4. granted' \in Nat
    BY <1>10, <2>1 DEF CreateSkip, TypeInv, TypeOK
  <2>5. QED
    BY <1>10, <2>2, <2>3, <2>4 DEF CreateSkip, TypeInv, TypeOK, SlotsOK
<1>11. CASE ExtendCycleEnd(p)
  <2>1. sub' \in Rows
    BY <1>0, <1>11, ExtendedRow DEF ExtendCycleEnd, In, Credits
  <2>2. SlotsOK'
    BY <1>11, ReturnChange DEF ExtendCycleEnd
  <2>3. QED
    BY <1>11, <2>1, <2>2 DEF ExtendCycleEnd, TypeInv, TypeOK, SlotsOK
<1>12. CASE CreateIfNonePending(p)
  <2>1. request' \in Requests
    BY <1>0, <1>12 DEF CreateIfNonePending, Requests, RequestStatuses, Calls
  <2>2. SlotsOK'
    BY <1>12, ReturnChange DEF CreateIfNonePending
  <2>3. QED
    BY <1>12, <2>1, <2>2 DEF CreateIfNonePending, TypeInv, TypeOK, SlotsOK
<1>13. CASE FindUnbankedHeldSkips(p)
  <2> DEFINE found == {d \in Days : <<d, call[p].req>> \in held}
             n == Cardinality(found)
             c == [call[p] EXCEPT !.phase = "bankHeld", !.found = found,
                                  !.n = n, !.saw = sub]
  <2>1. found # {} => n \in Nat \ {0}
    <3>1. IsFiniteSet(Days)
      BY CalendarAssumption, FS_Interval DEF Days
    <3>2. found \in SUBSET Days
      OBVIOUS
    <3> HIDE DEF found
    <3>3. QED
      BY <3>1, <3>2, FS_Subset, DaysCount
  <2>2. Return(p) \/ (found # {} /\ call' = [call EXCEPT ![p] = c])
    BY <1>13 DEF FindUnbankedHeldSkips, TypeInv, SlotsOK
  <2>3. found \in SUBSET Days
    OBVIOUS
  <2> HIDE DEF found, n
  <2>4. found # {} => GoodCall(c)
    <3> DEFINE b == [call[p] EXCEPT !.phase = "bankHeld", !.found = found]
    <3> SUFFICES ASSUME found # {} PROVE GoodCall(c)
      OBVIOUS
    <3>1. b \in Calls /\ b.phase = "bankHeld"
      BY <1>0, <2>3 DEF Calls, Phases
    <3> HIDE DEF b
    <3> DEFINE e == [b EXCEPT !.n = n]
    <3>2. e \in Calls /\ e.phase = "bankHeld" /\ e.n = n
      BY <2>1, <3>1 DEF Calls
    <3> HIDE DEF e
    <3>3. GoodCall([e EXCEPT !.saw = sub])
      BY <1>0, <2>1, <3>2 DEF GoodCall, Calls, Credits, HasDay
    <3>4. QED
      BY <3>3 DEF b, e
  <2> HIDE DEF c
  <2>5. SlotsOK'
    BY <2>2, <2>4, SlotChange, ReturnChange
  <2>6. QED
    BY <1>13, <2>5 DEF FindUnbankedHeldSkips, TypeInv, TypeOK, SlotsOK
<1>14. CASE BankHeldDays(p)
  <2>1. call[p].n > 0
    BY <1>0, <1>14 DEF BankHeldDays, In, Credits
  <2>2. sub' \in Rows
    BY <1>14, <2>1, ExtendedRow DEF BankHeldDays
  <2>3. SlotsOK'
    BY <1>14, GotoChange DEF BankHeldDays, Phases
  <2>4. QED
    BY <1>14, <2>2, <2>3 DEF BankHeldDays, TypeInv, TypeOK, SlotsOK
<1>15. CASE MarkHeldSkipsBanked(p)
  <2>1. granted' \in Nat /\ held' \subseteq (Days \X Nat)
    BY <1>0, <1>15 DEF MarkHeldSkipsBanked, TypeInv, TypeOK, Calls
  <2>2. SlotsOK'
    BY <1>15, GotoChange, ReturnChange DEF MarkHeldSkipsBanked, Phases
  <2>3. QED
    BY <1>15, <2>1, <2>2 DEF MarkHeldSkipsBanked, TypeInv, TypeOK, SlotsOK
<1>16. CASE ReactivateSubscription(p)
  <2>1. sub' \in Rows
    BY <1>0, <1>16 DEF ReactivateSubscription, Rows, Statuses
  <2>2. SlotsOK'
    BY <1>16, ReturnChange DEF ReactivateSubscription
  <2>3. QED
    BY <1>16, <2>1, <2>2 DEF ReactivateSubscription, TypeInv, TypeOK, SlotsOK
<1>17. CASE BuildDeliveryCalendar(p)
  <2> DEFINE stopped ==
               PausedDeliveryDays(call[p].saw.cycleEnd, call[p].from, call[p].to)
             n == Cardinality(stopped)
             c == [call[p] EXCEPT !.phase = "skip", !.n = n]
  <2>1. stopped # {} => n \in Nat \ {0}
    <3>1. IsFiniteSet(call[p].from..call[p].to)
      BY <1>0, FS_Interval DEF Calls
    <3>2. stopped \in SUBSET (call[p].from..call[p].to)
      BY DEF PausedDeliveryDays
    <3> HIDE DEF stopped
    <3>3. QED
      BY <3>1, <3>2, FS_Subset, DaysCount
  <2>2. Return(p) \/ (stopped # {} /\ call' = [call EXCEPT ![p] = c])
    BY <1>17 DEF BuildDeliveryCalendar, TypeInv, SlotsOK
  <2> HIDE DEF stopped, n
  <2>3. stopped # {} => GoodCall(c)
    <3> SUFFICES ASSUME stopped # {} PROVE GoodCall(c)
      OBVIOUS
    <3>1. c \in Calls /\ c.phase = "skip" /\ c.n = n
      BY <1>0, <2>1 DEF Calls, Phases
    <3>2. QED
      BY <2>1, <3>1 DEF GoodCall, Credits, HasDay
  <2> HIDE DEF c
  <2>4. SlotsOK'
    BY <2>2, <2>3, SlotChange, ReturnChange
  <2>5. QED
    BY <1>17, <2>4 DEF BuildDeliveryCalendar, TypeInv, TypeOK, SlotsOK
<1>18. QED
  BY <1>1, <1>2, <1>3, <1>4, <1>5, <1>6, <1>7, <1>8, <1>9, <1>10, <1>11,
     <1>12, <1>13, <1>14, <1>15, <1>16, <1>17 DEF Continue

\* Every step keeps the types.
LEMMA TypeInvStep == TypeInv /\ [Next]_vars => TypeInv'
<1> USE DEF rows, bounds
<1> SUFFICES ASSUME TypeInv, [Next]_vars PROVE TypeInv'
  OBVIOUS
<1>1. ASSUME NEW p \in Procs, Start(p) \/ Continue(p) PROVE TypeInv'
  BY <1>1, StartTypeInv, ContinueTypeInv
<1>2. ASSUME NEW p \in Procs, Throw(p) PROVE TypeInv'
  <2>1. SlotsOK'
    BY <1>2, ReturnChange, GotoChange DEF Throw, Phases
  <2>2. QED
    BY <1>2, <2>1, BoundsAssumption DEF Throw, TypeInv, TypeOK, SlotsOK
<1>3. ASSUME NEW p \in Procs, Die(p) PROVE TypeInv'
  <2>1. SlotsOK'
    BY <1>3, ReturnChange DEF Die
  <2>2. QED
    BY <1>3, <2>1, BoundsAssumption DEF Die, TypeInv, TypeOK, SlotsOK
<1>4. CASE CancelWithRefund
  <2>1. sub' \in Rows /\ request' \in Requests
    BY <1>4 DEF CancelWithRefund, TypeInv, TypeOK, Rows, Statuses, Requests,
                RequestStatuses
  <2>2. QED
    BY <1>4, <2>1 DEF CancelWithRefund, TypeInv, TypeOK, SlotsOK
<1>5. CASE NextDay
  BY <1>5, CalendarAssumption DEF NextDay, TypeInv, TypeOK, SlotsOK
<1>6. CASE UNCHANGED vars
  BY <1>6 DEF vars, TypeInv, TypeOK, SlotsOK
<1>7. QED
  BY <1>1, <1>2, <1>3, <1>4, <1>5, <1>6 DEF Next

\* Every variable keeps its type: above all, whatever is banked, in whatever
\* order, leaves a cycle end and a count of days in the row.
THEOREM TypeCorrect == Spec => []TypeOK
<1>1. TypeInv => TypeOK
  BY DEF TypeInv
<1>2. QED
  BY InitTypeInv, TypeInvStep, <1>1, PTL DEF Spec

-----------------------------------------------------------------------------
\* One order per day. The claim guards it: an order of today's, and a call on
\* its way to one, exist only while the row says that today is claimed, and no
\* two calls are on the way to the same day.

Working(p) == call[p].phase \in {"lookup", "hold", "order"}

OrdersInv ==
  \A d \in Days : /\ delivered[d] <= 1
                  /\ delivered[d] > 0 => d <= today
                  /\ delivered[d] > 0 /\ d = today => sub.claimed = today

WorkInv ==
  \A p \in Procs :
    /\ call[p].phase # "release"
    /\ Working(p) => /\ call[p].day \in Days /\ call[p].day <= today
                     /\ delivered[call[p].day] = 0
                     /\ call[p].day = today => sub.claimed = today
                     /\ \A q \in Procs \ {p} :
                          Working(q) => call[q].day # call[p].day

OneInv == throws = 0 => OrdersInv /\ WorkInv

\* At the start nothing is ordered and nothing is on its way.
LEMMA InitOneInv == Init => OneInv
BY DEF Init, OneInv, OrdersInv, WorkInv, Working, NoCall

\* A step that brings no slot on the way to a day, orders nothing and leaves
\* the claim alone keeps the invariant.
LEMMA OneFrame ==
  ASSUME OneInv, NEW p \in Procs, throws' = throws,
         today' = today, delivered' = delivered, sub'.claimed = sub.claimed,
         \A q \in Procs \ {p} : call'[q] = call[q],
         call'[p].phase # "release",
         Working(p)' => Working(p) /\ call'[p].day = call[p].day
  PROVE  OneInv'
<1> SUFFICES ASSUME throws = 0 PROVE OrdersInv' /\ WorkInv'
  BY DEF OneInv
<1>1. OrdersInv /\ WorkInv
  BY DEF OneInv
<1>2. OrdersInv'
  BY <1>1 DEF OrdersInv
<1>3. \A q \in Procs : /\ call'[q].phase # "release"
                       /\ Working(q)' => Working(q) /\ call'[q].day = call[q].day
  BY <1>1 DEF WorkInv, Working
<1>4. WorkInv'
  BY <1>1, <1>3 DEF WorkInv
<1>5. QED
  BY <1>2, <1>4

\* A step leaves the other slots alone.
Others(p) == \A q \in Procs \ {p} : call'[q] = call[q]

\* A handler that begins changes its own slot only.
LEMMA SlotAfterBegin ==
  ASSUME TypeInv, NEW p \in Procs, NEW c, Begin(p, c)
  PROVE  call'[p] = c /\ Others(p)
BY DEF TypeInv, SlotsOK, Others, Begin

\* So does a call that returns,
LEMMA SlotAfterReturn ==
  ASSUME TypeInv, NEW p \in Procs, Return(p)
  PROVE  call'[p].phase = "idle" /\ Others(p)
BY DEF TypeInv, SlotsOK, Return, NoCall, Others

\* and one that goes on, which keeps its day.
LEMMA SlotAfterGoto ==
  ASSUME TypeInv, NEW p \in Procs, NEW phase, Goto(p, phase)
  PROVE  /\ call'[p].phase = phase /\ call'[p].day = call[p].day
         /\ Others(p)
BY DEF TypeInv, SlotsOK, Calls, Goto, Others

\* The frame, for a slot that ends up in a given phase.
LEMMA OneLeaves ==
  ASSUME OneInv, NEW p \in Procs, throws' = throws,
         today' = today, delivered' = delivered, sub'.claimed = sub.claimed,
         Others(p),
         call'[p].phase \notin {"lookup", "hold", "order", "release"}
  PROVE  OneInv'
BY OneFrame DEF Working, Others

\* No handler begins on its way to a day.
LEMMA StartOneInv ==
  ASSUME TypeInv, OneInv, NEW p \in Procs, Start(p) PROVE OneInv'
<1> USE DEF rows, bounds
<1>1. CASE StartMaterialize(p)
  <2> DEFINE c == [NoCall EXCEPT !.phase = "materialize", !.saw = sub]
  <2>1. Begin(p, c)
    BY <1>1 DEF StartMaterialize
  <2>2. c.phase = "materialize"
    BY DEF NoCall
  <2> HIDE DEF c
  <2>3. call'[p] = c /\ Others(p)
    BY <2>1, SlotAfterBegin
  <2>4. QED
    BY <1>1, <2>2, <2>3, OneLeaves DEF StartMaterialize
<1>2. ASSUME NEW from \in Days, NEW to \in Days, StartPause(p, from, to)
      PROVE  OneInv'
  <2> DEFINE c == [NoCall EXCEPT !.phase = "calendar", !.from = from, !.to = to,
                                 !.after = to, !.saw = sub]
  <2>1. Begin(p, c)
    BY <1>2 DEF StartPause
  <2>2. c.phase = "calendar"
    BY DEF NoCall
  <2> HIDE DEF c
  <2>3. call'[p] = c /\ Others(p)
    BY <2>1, SlotAfterBegin
  <2>4. QED
    BY <1>2, <2>2, <2>3, OneLeaves DEF StartPause
<1>3. ASSUME NEW d \in Days, StartDisruption(p, d) PROVE OneInv'
  <2> DEFINE c == [NoCall EXCEPT !.phase = "skip", !.from = d, !.to = d,
                                 !.n = 1, !.saw = sub]
  <2>1. Begin(p, c)
    BY <1>3 DEF StartDisruption
  <2>2. c.phase = "skip"
    BY DEF NoCall
  <2> HIDE DEF c
  <2>3. call'[p] = c /\ Others(p)
    BY <2>1, SlotAfterBegin
  <2>4. QED
    BY <1>3, <2>2, <2>3, OneLeaves DEF StartDisruption
<1>4. CASE StartRequest(p)
  <2> DEFINE c == [NoCall EXCEPT !.phase = "request",
                                 !.from = EarliestEditableDate]
  <2>1. Begin(p, c)
    BY <1>4 DEF StartRequest
  <2>2. c.phase = "request"
    BY DEF NoCall
  <2> HIDE DEF c
  <2>3. call'[p] = c /\ Others(p)
    BY <2>1, SlotAfterBegin
  <2>4. QED
    BY <1>4, <2>2, <2>3, OneLeaves DEF StartRequest
<1>5. CASE AnswerRequest(p)
  <2> DEFINE c == [NoCall EXCEPT !.phase = "findHeld", !.req = request.id]
  <2>1. Begin(p, c)
    BY <1>5 DEF AnswerRequest
  <2>2. c.phase = "findHeld"
    BY DEF NoCall
  <2> HIDE DEF c
  <2>3. call'[p] = c /\ Others(p)
    BY <2>1, SlotAfterBegin
  <2>4. QED
    BY <1>5, <2>2, <2>3, OneLeaves DEF AnswerRequest
<1>6. QED
  BY <1>1, <1>2, <1>3, <1>4, <1>5 DEF Start

\* A claim is taken only when the row names another day, so no order of
\* today's and no call on its way to one exists.
LEMMA ClaimOneInv ==
  ASSUME TypeInv, OneInv, NEW p \in Procs, ClaimDay(p) PROVE OneInv'
<1> USE DEF rows, bounds
<1>1. CASE sub.claimed = today
  <2>1. Return(p) /\ sub' = sub
    BY <1>1 DEF ClaimDay
  <2>2. QED
    BY <2>1, SlotAfterReturn, OneLeaves DEF ClaimDay
<1>2. CASE sub.claimed # today
  <2> SUFFICES ASSUME throws' = 0 PROVE OrdersInv' /\ WorkInv'
    BY DEF OneInv
  <2>1. OrdersInv /\ WorkInv
    BY DEF OneInv, ClaimDay
  <2>2. /\ today' = today /\ delivered' = delivered
        /\ sub'.claimed = today
        /\ call'[p].phase = "lookup" /\ call'[p].day = today
        /\ Others(p)
    BY <1>2 DEF ClaimDay, TypeInv, TypeOK, SlotsOK, Calls, Rows, Others
  <2>3. today \in Days
    BY CalendarAssumption DEF ClaimDay, TypeInv, TypeOK, SlotsOK, Calls, Rows, Days
  <2>4. delivered[today] = 0
    <3>1. delivered[today] \in Nat /\ ~(delivered[today] > 0)
      BY <1>2, <2>1, <2>3 DEF OrdersInv, TypeInv, TypeOK
    <3>2. QED
      BY <3>1
  <2>5. \A q \in Procs : Working(q) => call[q].day # today
    BY <1>2, <2>1 DEF WorkInv
  <2>6. OrdersInv'
    BY <2>1, <2>2 DEF OrdersInv
  <2>7. WorkInv'
    <3> SUFFICES ASSUME NEW q \in Procs
                 PROVE /\ call'[q].phase # "release"
                       /\ Working(q)' =>
                            /\ call'[q].day \in Days /\ call'[q].day <= today
                            /\ delivered[call'[q].day] = 0
                            /\ \A r \in Procs \ {q} :
                                 Working(r)' => call'[r].day # call'[q].day
      BY <2>2 DEF WorkInv
    <3>1. CASE q = p
      BY <2>2, <2>3, <2>4, <2>5, <3>1 DEF Working, Others, Days
    <3>2. CASE q # p
      BY <2>1, <2>2, <2>5, <3>2 DEF Working, Others, WorkInv
    <3>3. QED
      BY <3>1, <3>2
  <2>8. QED
    BY <2>6, <2>7
<1>3. QED
  BY <1>1, <1>2

\* The order uses up the day of the one call that was on its way to it.
LEMMA OrderOneInv ==
  ASSUME TypeInv, OneInv, NEW p \in Procs, CreateOrder(p) PROVE OneInv'
<1> DEFINE d == call[p].day
<1> SUFFICES ASSUME throws' = 0 PROVE OrdersInv' /\ WorkInv'
  BY DEF OneInv
<1>1. OrdersInv /\ WorkInv /\ Working(p)
  BY DEF OneInv, CreateOrder, bounds, Working, In
<1>2. /\ d \in Days /\ d <= today /\ delivered[d] = 0
      /\ d = today => sub.claimed = today
      /\ \A q \in Procs \ {p} : Working(q) => call[q].day # d
  BY <1>1 DEF WorkInv
<1>3. /\ today' = today /\ sub' = sub
      /\ delivered' = [delivered EXCEPT ![d] = 1]
      /\ call'[p].phase = "advance" /\ Others(p)
  BY <1>2, SlotAfterGoto DEF CreateOrder
<1> HIDE DEF d
<1>4. OrdersInv'
  BY <1>1, <1>2, <1>3 DEF OrdersInv, TypeInv, TypeOK
<1>5. WorkInv'
  <2>1. \A q \in Procs : /\ call'[q].phase # "release"
                         /\ Working(q)' => q # p /\ Working(q) /\ call'[q] = call[q]
    BY <1>1, <1>3 DEF WorkInv, Working, Others
  <2>2. \A q \in Procs : Working(q)' => delivered'[call[q].day] = 0
    BY <1>1, <1>2, <1>3, <2>1 DEF WorkInv, TypeInv, TypeOK
  <2>3. QED
    BY <1>1, <1>3, <2>1, <2>2 DEF WorkInv
<1>6. QED
  BY <1>4, <1>5

\* Every step of a call keeps the invariant.
LEMMA ContinueOneInv ==
  ASSUME TypeInv, OneInv, NEW p \in Procs, Continue(p) PROVE OneInv'
<1> USE DEF rows, bounds
<1>1. CASE NotDue(p)
  BY <1>1, SlotAfterReturn, OneLeaves DEF NotDue
<1>2. CASE ExpireSubscription(p)
  BY <1>2, SlotAfterReturn, OneLeaves
     DEF ExpireSubscription, TypeInv, TypeOK, Rows
<1>3. CASE ClaimDay(p)
  BY <1>3, ClaimOneInv
<1>4. CASE LookupSkip(p)
  <2>1. Working(p) /\ Others(p)
        /\ (\/ call'[p].phase \in {"idle", "skip"}
            \/ call'[p].phase = "hold" /\ call'[p].day = call[p].day)
    <3>1. CASE Return(p)
      BY <1>4, <3>1, SlotAfterReturn DEF LookupSkip, In, Working
    <3>2. CASE Goto(p, "hold")
      BY <1>4, <3>2, SlotAfterGoto DEF LookupSkip, In, Working
    <3>3. CASE ~Return(p) /\ ~Goto(p, "hold")
      BY <1>4, <3>3
         DEF LookupSkip, In, Working, Others, TypeInv, SlotsOK, Calls
    <3>4. QED
      BY <3>1, <3>2, <3>3
  <2>2. QED
    BY <1>4, <2>1, OneFrame DEF LookupSkip, Working, Others
<1>5. CASE LookupHold(p)
  <2>1. Working(p) /\ Others(p)
        /\ (\/ call'[p].phase = "heldSkip"
            \/ call'[p].phase = "order" /\ call'[p].day = call[p].day)
    <3>1. CASE Goto(p, "order")
      BY <1>5, <3>1, SlotAfterGoto DEF LookupHold, In, Working
    <3>2. CASE ~Goto(p, "order")
      BY <1>5, <3>2
         DEF LookupHold, In, Working, Others, TypeInv, SlotsOK, Calls
    <3>3. QED
      BY <3>1, <3>2
  <2>2. QED
    BY <1>5, <2>1, OneFrame DEF LookupHold, Working, Others
<1>6. CASE CreateHeldSkip(p)
  BY <1>6, SlotAfterReturn, OneLeaves DEF CreateHeldSkip
<1>7. CASE CreateOrder(p)
  BY <1>7, OrderOneInv
<1>8. CASE AdvanceSubscriptionDay(p)
  BY <1>8, SlotAfterReturn, OneLeaves
     DEF AdvanceSubscriptionDay, TypeInv, TypeOK, Rows
<1>9. CASE ReleaseMaterializationDate(p)
  BY <1>9 DEF ReleaseMaterializationDate, In, OneInv, WorkInv
<1>10. CASE CreateSkip(p)
  BY <1>10, SlotAfterGoto, OneLeaves DEF CreateSkip
<1>11. CASE ExtendCycleEnd(p)
  <2>1. sub'.claimed = sub.claimed
    BY <1>11 DEF ExtendCycleEnd, Extended, TypeInv, TypeOK, Rows
  <2>2. QED
    BY <1>11, <2>1, SlotAfterReturn, OneLeaves DEF ExtendCycleEnd
<1>12. CASE CreateIfNonePending(p)
  BY <1>12, SlotAfterReturn, OneLeaves DEF CreateIfNonePending
<1>13. CASE FindUnbankedHeldSkips(p)
  <2>1. call'[p].phase \in {"idle", "bankHeld"} /\ Others(p)
    <3>1. CASE Return(p)
      BY <3>1, SlotAfterReturn
    <3>2. CASE ~Return(p)
      <4> DEFINE found == {d \in Days : <<d, call[p].req>> \in held}
                 n == Cardinality(found)
                 c == [call[p] EXCEPT !.phase = "bankHeld", !.found = found,
                                      !.n = n, !.saw = sub]
      <4>1. call' = [call EXCEPT ![p] = c]
        BY <1>13, <3>2 DEF FindUnbankedHeldSkips, TypeInv, SlotsOK
      <4> HIDE DEF found, n
      <4>2. c.phase = "bankHeld"
        BY DEF TypeInv, SlotsOK, Calls
      <4> HIDE DEF c
      <4>3. QED
        BY <4>1, <4>2 DEF Others, TypeInv, SlotsOK
    <3>3. QED
      BY <3>1, <3>2
  <2>2. QED
    BY <1>13, <2>1, OneLeaves DEF FindUnbankedHeldSkips
<1>14. CASE BankHeldDays(p)
  <2>1. sub'.claimed = sub.claimed
    BY <1>14 DEF BankHeldDays, Extended, TypeInv, TypeOK, Rows
  <2>2. QED
    BY <1>14, <2>1, SlotAfterGoto, OneLeaves DEF BankHeldDays
<1>15. CASE MarkHeldSkipsBanked(p)
  BY <1>15, SlotAfterGoto, SlotAfterReturn, OneLeaves DEF MarkHeldSkipsBanked
<1>16. CASE ReactivateSubscription(p)
  BY <1>16, SlotAfterReturn, OneLeaves
     DEF ReactivateSubscription, TypeInv, TypeOK, Rows
<1>17. CASE BuildDeliveryCalendar(p)
  <2>1. call'[p].phase \in {"idle", "skip"} /\ Others(p)
    <3>1. CASE Return(p)
      BY <3>1, SlotAfterReturn
    <3>2. CASE ~Return(p)
      BY <1>17, <3>2
         DEF BuildDeliveryCalendar, Others, TypeInv, SlotsOK, Calls
    <3>3. QED
      BY <3>1, <3>2
  <2>2. QED
    BY <1>17, <2>1, OneLeaves DEF BuildDeliveryCalendar
<1>18. QED
  BY <1>1, <1>2, <1>3, <1>4, <1>5, <1>6, <1>7, <1>8, <1>9, <1>10, <1>11,
     <1>12, <1>13, <1>14, <1>15, <1>16, <1>17 DEF Continue

\* Every step keeps the invariant: a throw ends what it promises.
LEMMA OneInvStep == TypeInv /\ OneInv /\ [Next]_vars => OneInv'
<1> USE DEF rows, bounds
<1> SUFFICES ASSUME TypeInv, OneInv, [Next]_vars PROVE OneInv'
  OBVIOUS
<1>1. ASSUME NEW p \in Procs, Start(p) \/ Continue(p) PROVE OneInv'
  BY <1>1, StartOneInv, ContinueOneInv
<1>2. ASSUME NEW p \in Procs, Throw(p) PROVE OneInv'
  BY <1>2 DEF Throw, OneInv, TypeInv, TypeOK
<1>3. ASSUME NEW p \in Procs, Die(p) PROVE OneInv'
  BY <1>3, SlotAfterReturn, OneLeaves DEF Die
<1>4. CASE CancelWithRefund
  <2>1. sub'.claimed = sub.claimed
    BY <1>4 DEF CancelWithRefund, TypeInv, TypeOK, Rows
  <2>2. QED
    BY <1>4, <2>1 DEF CancelWithRefund, OneInv, OrdersInv, WorkInv, Working
<1>5. CASE NextDay
  <2>1. today \in Nat /\ today' = today + 1
    BY <1>5, CalendarAssumption DEF NextDay, TypeInv, TypeOK
  <2>2. \A d \in Days : d \in Nat
    BY DEF Days
  <2>3. OrdersInv => OrdersInv'
    BY <1>5, <2>1, <2>2 DEF NextDay, OrdersInv
  <2>4. WorkInv => WorkInv'
    BY <1>5, <2>1, <2>2 DEF NextDay, WorkInv, Working
  <2>5. QED
    BY <1>5, <2>3, <2>4 DEF NextDay, OneInv
<1>6. CASE UNCHANGED vars
  BY <1>6 DEF vars, OneInv, OrdersInv, WorkInv, Working
<1>7. QED
  BY <1>1, <1>2, <1>3, <1>4, <1>5, <1>6 DEF Next

\* However many runs of the materializer overlap, with each other, with the
\* customer's edits and across midnight, and wherever a server dies, a day
\* gets one order, as long as no error was thrown.
THEOREM OneOrderPerDayHolds == Spec => []OneOrderPerDay
<1>1. TypeInv /\ OneInv => OneOrderPerDay
  BY DEF OneInv, OrdersInv, OneOrderPerDay
<1>2. QED
  BY InitTypeInv, TypeInvStep, InitOneInv, OneInvStep, <1>1, PTL DEF Spec

-----------------------------------------------------------------------------
\* What each step leaves in its slot, field by field.

Carries(p) ==
  /\ call'[p].from = call[p].from /\ call'[p].to = call[p].to
  /\ call'[p].n = call[p].n /\ call'[p].after = call[p].after
  /\ call'[p].req = call[p].req /\ call'[p].found = call[p].found
  /\ call'[p].saw = call[p].saw

LEMMA AfterReturn ==
  ASSUME TypeInv, NEW p \in Procs, Return(p)
  PROVE  call'[p] = NoCall /\ Others(p)
BY DEF TypeInv, SlotsOK, Return, Others

LEMMA AfterGoto ==
  ASSUME TypeInv, NEW p \in Procs, NEW phase, Goto(p, phase)
  PROVE  /\ call'[p].phase = phase /\ call'[p].day = call[p].day
         /\ Carries(p) /\ Others(p)
BY DEF TypeInv, SlotsOK, Calls, Goto, Others, Carries

\* The fields of a slot at rest.
LEMMA AtRest ==
  /\ NoCall.phase = "idle" /\ NoCall.day = 0 /\ NoCall.n = 0 /\ NoCall.after = 0
  /\ NoCall.req = 0 /\ NoCall.found = {} /\ NoCall.from = 0 /\ NoCall.to = 0
  /\ NoCall.saw.cycleEnd = Duration /\ NoCall.saw.next = 1
  /\ NoCall.saw.status = "ACTIVE" /\ NoCall.saw.banked = 0 /\ NoCall.saw.claimed = 0
BY DEF NoCall

LEMMA AfterStartMaterialize ==
  ASSUME TypeInv, NEW p \in Procs, StartMaterialize(p)
  PROVE  /\ call[p].phase = "idle" /\ Others(p)
         /\ call'[p].phase = "materialize" /\ call'[p].day = 0
         /\ call'[p].saw = sub /\ call'[p].n = 0 /\ call'[p].after = 0
         /\ call'[p].req = 0 /\ call'[p].found = {}
<1> DEFINE c == [NoCall EXCEPT !.phase = "materialize", !.saw = sub]
<1>1. Begin(p, c)
  BY DEF StartMaterialize
<1>2. /\ c.phase = "materialize" /\ c.day = 0 /\ c.saw = sub /\ c.n = 0
      /\ c.after = 0 /\ c.req = 0 /\ c.found = {}
  BY DEF NoCall
<1> HIDE DEF c
<1>3. QED
  BY <1>1, <1>2, SlotAfterBegin DEF Begin, Idle

LEMMA AfterStartPause ==
  ASSUME TypeInv, NEW p \in Procs, NEW from \in Days, NEW to \in Days,
         StartPause(p, from, to)
  PROVE  /\ call[p].phase = "idle" /\ Others(p)
         /\ call'[p].phase = "calendar" /\ call'[p].day = 0
         /\ call'[p].from = from /\ call'[p].to = to /\ call'[p].after = to
         /\ call'[p].saw = sub /\ call'[p].n = 0
         /\ call'[p].req = 0 /\ call'[p].found = {}
<1> DEFINE c == [NoCall EXCEPT !.phase = "calendar", !.from = from, !.to = to,
                               !.after = to, !.saw = sub]
<1>1. Begin(p, c)
  BY DEF StartPause
<1>2. /\ c.phase = "calendar" /\ c.day = 0 /\ c.saw = sub /\ c.n = 0
      /\ c.from = from /\ c.to = to /\ c.after = to /\ c.req = 0 /\ c.found = {}
  BY DEF NoCall
<1> HIDE DEF c
<1>3. QED
  BY <1>1, <1>2, SlotAfterBegin DEF Begin, Idle

LEMMA AfterStartDisruption ==
  ASSUME TypeInv, NEW p \in Procs, NEW d \in Days, StartDisruption(p, d)
  PROVE  /\ call[p].phase = "idle" /\ Others(p)
         /\ call'[p].phase = "skip" /\ call'[p].day = 0
         /\ call'[p].from = d /\ call'[p].to = d /\ call'[p].after = 0
         /\ call'[p].saw = sub /\ call'[p].n = 1
         /\ call'[p].req = 0 /\ call'[p].found = {}
<1> DEFINE c == [NoCall EXCEPT !.phase = "skip", !.from = d, !.to = d, !.n = 1,
                               !.saw = sub]
<1>1. Begin(p, c)
  BY DEF StartDisruption
<1>2. /\ c.phase = "skip" /\ c.day = 0 /\ c.saw = sub /\ c.n = 1
      /\ c.from = d /\ c.to = d /\ c.after = 0 /\ c.req = 0 /\ c.found = {}
  BY DEF NoCall
<1> HIDE DEF c
<1>3. QED
  BY <1>1, <1>2, SlotAfterBegin DEF Begin, Idle

LEMMA AfterStartRequest ==
  ASSUME TypeInv, NEW p \in Procs, StartRequest(p)
  PROVE  /\ call[p].phase = "idle" /\ Others(p)
         /\ call'[p].phase = "request" /\ call'[p].day = 0
         /\ call'[p].from = EarliestEditableDate /\ call'[p].n = 0
         /\ call'[p].after = 0 /\ call'[p].saw = NoCall.saw
         /\ call'[p].req = 0 /\ call'[p].found = {}
<1> DEFINE c == [NoCall EXCEPT !.phase = "request", !.from = EarliestEditableDate]
<1>1. Begin(p, c)
  BY DEF StartRequest
<1>2. /\ c.phase = "request" /\ c.day = 0 /\ c.n = 0
      /\ c.after = 0 /\ c.saw = NoCall.saw
      /\ c.from = EarliestEditableDate /\ c.req = 0 /\ c.found = {}
  BY DEF NoCall
<1> HIDE DEF c
<1>3. QED
  BY <1>1, <1>2, SlotAfterBegin DEF Begin, Idle

LEMMA AfterAnswerRequest ==
  ASSUME TypeInv, NEW p \in Procs, AnswerRequest(p)
  PROVE  /\ call[p].phase = "idle" /\ Others(p)
         /\ call'[p].phase = "findHeld" /\ call'[p].day = 0 /\ call'[p].n = 0
         /\ call'[p].after = 0 /\ call'[p].saw = NoCall.saw
         /\ call'[p].req = request.id /\ call'[p].found = {}
<1> DEFINE c == [NoCall EXCEPT !.phase = "findHeld", !.req = request.id]
<1>1. Begin(p, c)
  BY DEF AnswerRequest
<1>2. /\ c.phase = "findHeld" /\ c.day = 0 /\ c.n = 0
      /\ c.after = 0 /\ c.saw = NoCall.saw
      /\ c.req = request.id /\ c.found = {}
  BY DEF NoCall
<1> HIDE DEF c
<1>3. QED
  BY <1>1, <1>2, SlotAfterBegin DEF Begin, Idle

LEMMA AfterClaimDay ==
  ASSUME TypeInv, NEW p \in Procs, ClaimDay(p)
  PROVE  /\ call[p].phase = "materialize" /\ Others(p)
         /\ \/ sub.claimed = today /\ sub' = sub /\ call'[p] = NoCall
            \/ /\ sub.claimed # today /\ sub' = [sub EXCEPT !.claimed = today]
               /\ call'[p].phase = "lookup" /\ call'[p].day = today /\ Carries(p)
<1>1. CASE sub.claimed = today
  BY <1>1, AfterReturn DEF ClaimDay, In
<1>2. CASE sub.claimed # today
  BY <1>2 DEF ClaimDay, In, TypeInv, SlotsOK, Calls, Others, Carries
<1>3. QED
  BY <1>1, <1>2

LEMMA AfterLookupSkip ==
  ASSUME TypeInv, NEW p \in Procs, LookupSkip(p)
  PROVE  /\ call[p].phase = "lookup" /\ Others(p)
         /\ \/ call[p].day \in skipped /\ call'[p] = NoCall
            \/ /\ call[p].day \in Closed \ skipped
               /\ call'[p].phase = "skip" /\ call'[p].day = call[p].day
               /\ call'[p].from = call[p].day /\ call'[p].to = call[p].day
               /\ call'[p].n = 1 /\ call'[p].after = call[p].after
               /\ call'[p].saw = call[p].saw
               /\ call'[p].req = call[p].req /\ call'[p].found = call[p].found
            \/ /\ call[p].day \notin Closed \cup skipped
               /\ call'[p].phase = "hold" /\ call'[p].day = call[p].day /\ Carries(p)
<1>1. CASE call[p].day \in skipped /\ Return(p)
  BY <1>1, AfterReturn DEF LookupSkip, In
<1>2. CASE /\ call[p].day \in Closed \ skipped
           /\ call' = [call EXCEPT ![p].phase = "skip", ![p].n = 1,
                                   ![p].from = call[p].day, ![p].to = call[p].day]
  BY <1>2 DEF LookupSkip, In, TypeInv, SlotsOK, Calls, Others
<1>3. CASE call[p].day \notin Closed \cup skipped /\ Goto(p, "hold")
  BY <1>3, AfterGoto DEF LookupSkip, In
<1>4. QED
  BY <1>1, <1>2, <1>3 DEF LookupSkip

LEMMA AfterLookupHold ==
  ASSUME TypeInv, NEW p \in Procs, LookupHold(p)
  PROVE  /\ call[p].phase = "hold" /\ Others(p) /\ call'[p].day = call[p].day
         /\ call'[p].saw = call[p].saw /\ call'[p].n = call[p].n
         /\ call'[p].after = call[p].after /\ call'[p].found = call[p].found
         /\ \/ /\ request.status = "PENDING" /\ request.from <= call[p].day
               /\ call'[p].phase = "heldSkip" /\ call'[p].req = request.id
            \/ /\ ~(request.status = "PENDING" /\ request.from <= call[p].day)
               /\ call'[p].phase = "order" /\ call'[p].req = call[p].req
<1>1. CASE request.status = "PENDING" /\ request.from <= call[p].day
  BY <1>1 DEF LookupHold, In, TypeInv, SlotsOK, Calls, Others
<1>2. CASE ~(request.status = "PENDING" /\ request.from <= call[p].day)
  <2>1. Goto(p, "order")
    BY <1>2 DEF LookupHold
  <2>2. QED
    BY <1>2, <2>1, AfterGoto DEF LookupHold, In, Carries
<1>3. QED
  BY <1>1, <1>2

LEMMA AfterCalendar ==
  ASSUME TypeInv, NEW p \in Procs, BuildDeliveryCalendar(p)
  PROVE  LET stopped == PausedDeliveryDays(call[p].saw.cycleEnd, call[p].from, call[p].to)
         IN  /\ call[p].phase = "calendar" /\ Others(p)
             /\ \/ call'[p] = NoCall
                \/ /\ ~OnHold(call[p].to) /\ stopped # {}
                   /\ call'[p].phase = "skip" /\ call'[p].n = Cardinality(stopped)
                   /\ call'[p].day = call[p].day
                   /\ call'[p].from = call[p].from /\ call'[p].to = call[p].to
                   /\ call'[p].after = call[p].after /\ call'[p].saw = call[p].saw
                   /\ call'[p].req = call[p].req /\ call'[p].found = call[p].found
<1> DEFINE stopped == PausedDeliveryDays(call[p].saw.cycleEnd, call[p].from, call[p].to)
           n == Cardinality(stopped)
<1>1. CASE OnHold(call[p].to) \/ stopped = {}
  BY <1>1, AfterReturn DEF BuildDeliveryCalendar, In
<1>2. CASE ~(OnHold(call[p].to) \/ stopped = {})
  <2>1. call' = [call EXCEPT ![p].phase = "skip", ![p].n = n] /\ call[p].phase = "calendar"
    BY <1>2 DEF BuildDeliveryCalendar, In
  <2> HIDE DEF stopped, n
  <2>2. /\ call'[p].phase = "skip" /\ call'[p].n = n /\ Others(p)
        /\ call'[p].day = call[p].day
        /\ call'[p].from = call[p].from /\ call'[p].to = call[p].to
        /\ call'[p].after = call[p].after /\ call'[p].saw = call[p].saw
        /\ call'[p].req = call[p].req /\ call'[p].found = call[p].found
    BY <2>1 DEF TypeInv, SlotsOK, Calls, Others
  <2>3. QED
    BY <1>2, <2>1, <2>2 DEF stopped, n
<1>3. QED
  BY <1>1, <1>2

LEMMA AfterFindHeld ==
  ASSUME TypeInv, NEW p \in Procs, FindUnbankedHeldSkips(p)
  PROVE  LET found == {d \in Days : <<d, call[p].req>> \in held}
         IN  /\ call[p].phase = "findHeld" /\ Others(p)
             /\ \/ (found = {} \/ sub.status = "CANCELLED") /\ call'[p] = NoCall
                \/ /\ found # {} /\ call'[p].phase = "bankHeld"
                   /\ call'[p].found = found /\ call'[p].n = Cardinality(found)
                   /\ call'[p].saw = sub /\ call'[p].day = call[p].day
                   /\ call'[p].req = call[p].req /\ call'[p].after = call[p].after
<1> DEFINE found == {d \in Days : <<d, call[p].req>> \in held}
           n == Cardinality(found)
<1>1. CASE found = {} \/ sub.status = "CANCELLED"
  BY <1>1, AfterReturn DEF FindUnbankedHeldSkips, In
<1>2. CASE ~(found = {} \/ sub.status = "CANCELLED")
  <2>1. /\ call' = [call EXCEPT ![p].phase = "bankHeld", ![p].found = found,
                                ![p].n = n, ![p].saw = sub]
        /\ call[p].phase = "findHeld"
    BY <1>2 DEF FindUnbankedHeldSkips, In
  <2> HIDE DEF found, n
  <2>2. /\ call'[p].phase = "bankHeld" /\ call'[p].found = found
        /\ call'[p].n = n /\ call'[p].saw = sub /\ Others(p)
        /\ call'[p].day = call[p].day
        /\ call'[p].req = call[p].req /\ call'[p].after = call[p].after
    BY <2>1 DEF TypeInv, SlotsOK, Calls, Others
  <2>3. QED
    BY <1>2, <2>1, <2>2 DEF found, n
<1>3. QED
  BY <1>1, <1>2

-----------------------------------------------------------------------------
\* Credits. What the skip rows grant and what the row has banked differ by
\* the calls that are between the two writes.

InFlight(phase) ==
  Total([p \in Procs |-> call[p].n], {p \in Procs : In(p, phase)})
Own(p, phase) == IF In(p, phase) THEN call[p].n ELSE 0

\* One call's step changes what is in flight by that call's own credit.
LEMMA InFlightChange ==
  ASSUME TypeInv, TypeInv', NEW p \in Procs, Others(p), NEW phase
  PROVE  /\ InFlight(phase) \in Nat /\ InFlight(phase)' \in Nat
         /\ Own(p, phase) \in Nat /\ Own(p, phase)' \in Nat
         /\ InFlight(phase)' + Own(p, phase) = InFlight(phase) + Own(p, phase)'
<1> DEFINE f == [q \in Procs |-> call[q].n]
           g == [q \in Procs |-> call'[q].n]
           S == {q \in Procs : call[q].phase = phase}
           T == {q \in Procs : call'[q].phase = phase}
<1>1. IsFiniteSet(S) /\ IsFiniteSet(T)
  BY ProcsAssumption, FS_Subset
<1>2. Counts(f, S) /\ Counts(g, T)
  BY DEF Counts, TypeInv, TypeOK, Calls
<1>3. S \ {p} = T \ {p} /\ \A y \in S \ {p} : f[y] = g[y]
  BY DEF Others
<1>4. /\ InFlight(phase) = Total(f, S) /\ InFlight(phase)' = Total(g, T)
      /\ Own(p, phase) = Part(f, S, p) /\ Own(p, phase)' = Part(g, T, p)
  BY DEF InFlight, Own, Part, In
<1>5. Part(f, S, p) \in Nat /\ Part(g, T, p) \in Nat
  BY <1>2 DEF Part, Counts
<1> HIDE DEF f, g, S, T
<1>6. Total(f, S) \in Nat /\ Total(g, T) \in Nat
  BY <1>1, <1>2, TotalType
<1>7. Total(g, T) + Part(f, S, p) = Total(f, S) + Part(g, T, p)
  BY <1>1, <1>2, <1>3, TotalChange
<1>8. QED
  BY <1>4, <1>5, <1>6, <1>7

CreditsInv ==
  throws + deaths = 0 => granted + InFlight("mark") = sub.banked + InFlight("extend")

LEMMA CreditsBalance ==
  \A a, b, c, d, x, y, z, w, a2, b2, c2, d2, x2, w2 \in Nat :
    /\ a + b = c + d
    /\ b2 + x = b + x2 /\ d2 + w = d + w2
    /\ a2 + x2 + c + w = a + x + c2 + w2
    => a2 + b2 = c2 + d2
OBVIOUS

\* A step keeps the balance when what it grants, banks and carries does.
LEMMA CreditsMove ==
  ASSUME TypeInv, TypeInv', CreditsInv, NEW p \in Procs, Others(p),
         throws' = throws /\ deaths' = deaths,
         granted' + Own(p, "mark")' + sub.banked + Own(p, "extend")
           = granted + Own(p, "mark") + sub'.banked + Own(p, "extend")'
  PROVE  CreditsInv'
<1>1. /\ granted \in Nat /\ granted' \in Nat
      /\ sub.banked \in Nat /\ sub'.banked \in Nat
  BY DEF TypeInv, TypeOK, Rows
<1>2. /\ InFlight("mark") \in Nat /\ InFlight("mark")' \in Nat
      /\ Own(p, "mark") \in Nat /\ Own(p, "mark")' \in Nat
      /\ InFlight("mark")' + Own(p, "mark") = InFlight("mark") + Own(p, "mark")'
  BY InFlightChange
<1>3. /\ InFlight("extend") \in Nat /\ InFlight("extend")' \in Nat
      /\ Own(p, "extend") \in Nat /\ Own(p, "extend")' \in Nat
      /\ InFlight("extend")' + Own(p, "extend") = InFlight("extend") + Own(p, "extend")'
  BY InFlightChange
<1>4. SUFFICES ASSUME granted + InFlight("mark") = sub.banked + InFlight("extend")
               PROVE  granted' + InFlight("mark")' = sub'.banked + InFlight("extend")'
  BY DEF CreditsInv
<1>5. QED
  BY <1>1, <1>2, <1>3, <1>4, CreditsBalance

\* Most calls are elsewhere.
LEMMA CreditsStay ==
  ASSUME TypeInv, TypeInv', CreditsInv, NEW p \in Procs, Others(p),
         throws' = throws /\ deaths' = deaths,
         granted' = granted, sub'.banked = sub.banked,
         call[p].phase \notin {"mark", "extend"},
         call'[p].phase \notin {"mark", "extend"}
  PROVE  CreditsInv'
<1>1. /\ Own(p, "mark") = 0 /\ Own(p, "mark")' = 0
      /\ Own(p, "extend") = 0 /\ Own(p, "extend")' = 0
  BY DEF Own, In
<1>2. QED
  BY <1>1, CreditsMove DEF TypeInv, TypeOK, Rows

\* No handler begins between the two writes.
LEMMA StartCreditsInv ==
  ASSUME TypeInv, TypeInv', CreditsInv, NEW p \in Procs, Start(p)
  PROVE  CreditsInv'
<1> USE DEF rows, bounds
<1>1. /\ call[p].phase = "idle"
      /\ UNCHANGED <<sub, granted, throws, deaths>>
  BY DEF Start, StartMaterialize, StartPause, StartDisruption, StartRequest,
     AnswerRequest, Begin, Idle
<1>2. /\ Others(p)
      /\ call'[p].phase \in {"materialize", "calendar", "skip", "request", "findHeld"}
  BY AfterStartMaterialize, AfterStartPause, AfterStartDisruption,
     AfterStartRequest, AfterAnswerRequest DEF Start
<1>3. QED
  BY <1>1, <1>2, CreditsStay

\* The writes of a skip row and of its credit, and their counterparts for what
\* a hold kept back, move the balance together.
LEMMA CreateSkipCreditsInv ==
  ASSUME TypeInv, TypeInv', CreditsInv, NEW p \in Procs, CreateSkip(p)
  PROVE  CreditsInv'
<1>1. /\ In(p, "skip") /\ granted' = granted + call[p].n
      /\ UNCHANGED <<sub, throws, deaths>>
      /\ call[p].n \in Nat /\ granted \in Nat /\ sub.banked \in Nat
  BY DEF CreateSkip, bounds, TypeInv, TypeOK, Calls, Rows
<1>2. call'[p].phase = "extend" /\ call'[p].n = call[p].n /\ Others(p)
  BY AfterGoto DEF CreateSkip, Carries
<1>3. /\ Own(p, "mark") = 0 /\ Own(p, "mark")' = 0
      /\ Own(p, "extend") = 0 /\ Own(p, "extend")' = call[p].n
  BY <1>1, <1>2 DEF Own, In
<1>4. QED
  BY <1>1, <1>2, <1>3, CreditsMove

LEMMA ExtendedBanks ==
  ASSUME TypeInv, NEW c
  PROVE  Extended(c).banked = sub.banked + c.n
BY DEF Extended, TypeInv, TypeOK, Rows

LEMMA ExtendCycleEndCreditsInv ==
  ASSUME TypeInv, TypeInv', CreditsInv, NEW p \in Procs, ExtendCycleEnd(p)
  PROVE  CreditsInv'
<1>1. /\ In(p, "extend") /\ sub'.banked = sub.banked + call[p].n
      /\ UNCHANGED <<granted, throws, deaths>>
      /\ call[p].n \in Nat /\ granted \in Nat /\ sub.banked \in Nat
  BY ExtendedBanks DEF ExtendCycleEnd, bounds, TypeInv, TypeOK, Calls, Rows
<1>2. call'[p].phase = "idle" /\ Others(p)
  BY SlotAfterReturn DEF ExtendCycleEnd
<1>3. /\ Own(p, "mark") = 0 /\ Own(p, "mark")' = 0
      /\ Own(p, "extend") = call[p].n /\ Own(p, "extend")' = 0
  BY <1>1, <1>2 DEF Own, In
<1>4. QED
  BY <1>1, <1>2, <1>3, CreditsMove

LEMMA BankHeldDaysCreditsInv ==
  ASSUME TypeInv, TypeInv', CreditsInv, NEW p \in Procs, BankHeldDays(p)
  PROVE  CreditsInv'
<1>1. /\ In(p, "bankHeld") /\ sub'.banked = sub.banked + call[p].n
      /\ UNCHANGED <<granted, throws, deaths>>
      /\ call[p].n \in Nat /\ granted \in Nat /\ sub.banked \in Nat
  BY ExtendedBanks DEF BankHeldDays, bounds, TypeInv, TypeOK, Calls, Rows
<1>2. call'[p].phase = "mark" /\ call'[p].n = call[p].n /\ Others(p)
  BY AfterGoto DEF BankHeldDays, Carries
<1>3. /\ Own(p, "mark") = 0 /\ Own(p, "mark")' = call[p].n
      /\ Own(p, "extend") = 0 /\ Own(p, "extend")' = 0
  BY <1>1, <1>2 DEF Own, In
<1>4. QED
  BY <1>1, <1>2, <1>3, CreditsMove

LEMMA MarkHeldCreditsInv ==
  ASSUME TypeInv, TypeInv', CreditsInv, NEW p \in Procs, MarkHeldSkipsBanked(p)
  PROVE  CreditsInv'
<1>1. /\ In(p, "mark") /\ granted' = granted + call[p].n
      /\ UNCHANGED <<sub, throws, deaths>>
      /\ call[p].n \in Nat /\ granted \in Nat /\ sub.banked \in Nat
  BY DEF MarkHeldSkipsBanked, bounds, TypeInv, TypeOK, Calls, Rows
<1>2. call'[p].phase \in {"idle", "reactivate"} /\ Others(p)
  BY SlotAfterGoto, SlotAfterReturn DEF MarkHeldSkipsBanked
<1>3. /\ Own(p, "mark") = call[p].n /\ Own(p, "mark")' = 0
      /\ Own(p, "extend") = 0 /\ Own(p, "extend")' = 0
  BY <1>1, <1>2 DEF Own, In
<1>4. QED
  BY <1>1, <1>2, <1>3, CreditsMove

LEMMA ContinueCreditsInv ==
  ASSUME TypeInv, TypeInv', CreditsInv, NEW p \in Procs, Continue(p)
  PROVE  CreditsInv'
<1> USE DEF rows, bounds
<1>0. sub \in Rows
  BY DEF TypeInv, TypeOK
<1>1. CASE CreateSkip(p)
  BY <1>1, CreateSkipCreditsInv
<1>2. CASE ExtendCycleEnd(p)
  BY <1>2, ExtendCycleEndCreditsInv
<1>3. CASE BankHeldDays(p)
  BY <1>3, BankHeldDaysCreditsInv
<1>4. CASE MarkHeldSkipsBanked(p)
  BY <1>4, MarkHeldCreditsInv
<1>5. CASE NotDue(p) \/ ExpireSubscription(p) \/ CreateHeldSkip(p)
           \/ AdvanceSubscriptionDay(p) \/ ReleaseMaterializationDate(p)
           \/ CreateIfNonePending(p) \/ ReactivateSubscription(p)
  <2>1. /\ call[p].phase \notin {"mark", "extend"} /\ Return(p)
        /\ UNCHANGED <<granted, throws, deaths>>
    BY <1>5 DEF NotDue, ExpireSubscription, CreateHeldSkip,
       AdvanceSubscriptionDay, ReleaseMaterializationDate,
       CreateIfNonePending, ReactivateSubscription, In
  <2>2. sub'.banked = sub.banked
    BY <1>0, <1>5 DEF NotDue, ExpireSubscription, CreateHeldSkip,
       AdvanceSubscriptionDay, ReleaseMaterializationDate,
       CreateIfNonePending, ReactivateSubscription, Rows
  <2>3. QED
    BY <2>1, <2>2, AfterReturn, AtRest, CreditsStay
<1>6. CASE CreateOrder(p)
  BY <1>6, AfterGoto, CreditsStay DEF CreateOrder, In
<1>7. CASE ClaimDay(p)
  <2>1. sub'.banked = sub.banked
    BY <1>0, <1>7, AfterClaimDay DEF Rows
  <2>2. QED
    BY <1>7, <2>1, AfterClaimDay, AtRest, CreditsStay DEF ClaimDay
<1>8. CASE LookupSkip(p)
  BY <1>8, AfterLookupSkip, AtRest, CreditsStay DEF LookupSkip
<1>9. CASE LookupHold(p)
  BY <1>9, AfterLookupHold, CreditsStay DEF LookupHold
<1>10. CASE BuildDeliveryCalendar(p)
  BY <1>10, AfterCalendar, AtRest, CreditsStay DEF BuildDeliveryCalendar
<1>11. CASE FindUnbankedHeldSkips(p)
  BY <1>11, AfterFindHeld, AtRest, CreditsStay DEF FindUnbankedHeldSkips
<1>12. QED
  BY <1>1, <1>2, <1>3, <1>4, <1>5, <1>6, <1>7, <1>8, <1>9, <1>10, <1>11
     DEF Continue

LEMMA CreditsInvStep == TypeInv /\ TypeInv' /\ CreditsInv /\ [Next]_vars => CreditsInv'
<1> USE DEF rows, bounds
<1> SUFFICES ASSUME TypeInv, TypeInv', CreditsInv, [Next]_vars PROVE CreditsInv'
  OBVIOUS
<1>1. ASSUME NEW p \in Procs, Start(p) \/ Continue(p) PROVE CreditsInv'
  BY <1>1, StartCreditsInv, ContinueCreditsInv
<1>2. ASSUME NEW p \in Procs, Throw(p) \/ Die(p) PROVE CreditsInv'
  <2>1. throws' + deaths' # 0
    <3>1. throws \in Nat /\ deaths \in Nat
      BY DEF TypeInv, TypeOK
    <3>2. \/ throws' = throws + 1 /\ deaths' = deaths
          \/ throws' = throws /\ deaths' = deaths + 1
      BY <1>2 DEF Throw, Die
    <3>3. QED
      BY <3>1, <3>2
  <2>2. QED
    BY <2>1 DEF CreditsInv
<1>3. CASE CancelWithRefund \/ NextDay \/ UNCHANGED vars
  <2>1. UNCHANGED <<granted, call, throws, deaths>> /\ sub'.banked = sub.banked
    BY <1>3 DEF CancelWithRefund, NextDay, vars, TypeInv, TypeOK, Rows
  <2>2. InFlight("mark")' = InFlight("mark") /\ InFlight("extend")' = InFlight("extend")
    BY <2>1 DEF InFlight, In
  <2>3. QED
    BY <2>1, <2>2 DEF CreditsInv
<1>4. QED
  BY <1>1, <1>2, <1>3 DEF Next

\* However edits, closures, holds and their answers interleave, the row's
\* banked days are what its skip rows grant, while nothing fails: neither of
\* the two writes is ever lost to the other's stale read.
THEOREM CreditsAreNeverLost == Spec => []CreditsAreBanked
<1>1. Init => CreditsInv
  <2> SUFFICES ASSUME Init PROVE CreditsInv
    OBVIOUS
  <2>1. \A p \in Procs : call[p].phase = "idle"
    BY AtRest DEF Init
  <2>2. {p \in Procs : In(p, "mark")} = {} /\ {p \in Procs : In(p, "extend")} = {}
    BY <2>1 DEF In
  <2>3. InFlight("mark") = 0 /\ InFlight("extend") = 0
    BY <2>2, TotalEmpty DEF InFlight
  <2>4. granted = 0 /\ sub.banked = 0
    BY AtRest DEF Init
  <2>5. QED
    BY <2>3, <2>4 DEF CreditsInv
<1>2. CreditsInv => CreditsAreBanked
  BY DEF CreditsInv, CreditsAreBanked, InFlight
<1>3. QED
  BY InitTypeInv, TypeInvStep, CreditsInvStep, <1>1, <1>2, PTL DEF Spec

-----------------------------------------------------------------------------
\* The menu. Between the claim of a day and the write of the menu's next day
\* one call at most is on its way, and the row it read at its start is not
\* stale: it began before anybody claimed the day, so after the last advance.
\* A call that crossed midnight would break that.

Busy(p) == call[p].phase \in {"lookup", "hold", "order", "advance"}
Advancing == {p \in Procs : In(p, "advance")}

MenuInv ==
  QuietNights /\ throws + deaths = 0 =>
    /\ \A p \in Procs :
         Busy(p) => /\ sub.claimed = today /\ call[p].saw.next = sub.next
                    /\ \A q \in Procs \ {p} : ~Busy(q)
    /\ \A p \in Procs :
         In(p, "materialize") => sub.claimed = today \/ call[p].saw.next = sub.next
    /\ sub.next + Cardinality(Advancing) = 1 + Cardinality(DeliveredDays)

\* A step off the way from a claim to the menu.
LEMMA MenuFrame ==
  ASSUME TypeInv, MenuInv, NEW p \in Procs, Others(p),
         UNCHANGED <<today, delivered, throws, deaths>>,
         sub'.next = sub.next, sub'.claimed = sub.claimed,
         call[p].phase # "advance", call'[p].phase # "advance",
         call'[p].phase = "materialize" => call'[p].saw.next = sub.next,
         Busy(p)' => Busy(p) /\ call'[p].saw = call[p].saw
  PROVE  MenuInv'
<1>1. SUFFICES ASSUME QuietNights, throws + deaths = 0 PROVE MenuInv'
  BY DEF MenuInv
<1>2. \A q \in Procs : /\ Busy(q)' => Busy(q) /\ call'[q].saw = call[q].saw
                       /\ In(q, "advance")' <=> In(q, "advance")
                       /\ In(q, "materialize")' =>
                            \/ q = p /\ call'[q].saw.next = sub.next
                            \/ In(q, "materialize") /\ call'[q] = call[q]
  BY DEF Others, Busy, In
<1>3. Advancing' = Advancing /\ DeliveredDays' = DeliveredDays
  BY <1>2 DEF Advancing, DeliveredDays
<1>4. QED
  BY <1>1, <1>2, <1>3 DEF MenuInv

LEMMA MenuCounts ==
  ASSUME TypeInv
  PROVE  /\ IsFiniteSet(Advancing) /\ Cardinality(Advancing) \in Nat
         /\ IsFiniteSet(DeliveredDays) /\ Cardinality(DeliveredDays) \in Nat
<1>1. IsFiniteSet(Days)
  BY CalendarAssumption, FS_Interval DEF Days
<1>2. Advancing \in SUBSET Procs /\ DeliveredDays \in SUBSET Days
  BY DEF Advancing, DeliveredDays
<1>3. QED
  BY <1>1, <1>2, ProcsAssumption, FS_Subset, FS_CardinalityType

\* Who claims the day began before it was claimed.
LEMMA ClaimMenuInv ==
  ASSUME TypeInv, MenuInv, NEW p \in Procs, ClaimDay(p)
  PROVE  MenuInv'
<1> USE DEF rows, bounds
<1>0. sub \in Rows /\ UNCHANGED <<today, delivered, throws, deaths>>
  BY DEF TypeInv, TypeOK, ClaimDay
<1>1. CASE sub.claimed = today
  BY <1>0, <1>1, AfterClaimDay, AtRest, MenuFrame DEF Busy
<1>2. CASE sub.claimed # today
  <2>1. SUFFICES ASSUME QuietNights, throws + deaths = 0 PROVE MenuInv'
    BY <1>0 DEF MenuInv
  <2>2. /\ call[p].phase = "materialize" /\ Others(p)
        /\ sub'.claimed = today /\ sub'.next = sub.next
        /\ call'[p].phase = "lookup" /\ call'[p].saw = call[p].saw
    BY <1>0, <1>2, AfterClaimDay DEF Rows, Carries
  <2>3. /\ \A q \in Procs : ~Busy(q)
        /\ call[p].saw.next = sub.next
        /\ sub.next + Cardinality(Advancing) = 1 + Cardinality(DeliveredDays)
    BY <1>2, <2>1, <2>2 DEF MenuInv, In
  <2>4. Advancing' = Advancing /\ DeliveredDays' = DeliveredDays
    BY <1>0, <2>2 DEF Advancing, DeliveredDays, Others, In
  <2>5. \A q \in Procs \ {p} : ~Busy(q)'
    BY <2>2, <2>3 DEF Others, Busy
  <2>6. QED
    BY <1>0, <2>2, <2>3, <2>4, <2>5 DEF MenuInv
<1>3. QED
  BY <1>1, <1>2

\* The order of the day is the first, and the menu has yet to follow,
LEMMA OrderMenuInv ==
  ASSUME TypeInv, TypeInv', OneInv, MenuInv, NEW p \in Procs, CreateOrder(p)
  PROVE  MenuInv'
<1> DEFINE d == call[p].day
<1>0. /\ UNCHANGED <<today, sub, throws, deaths>>
      /\ call[p].phase = "order" /\ call'[p].phase = "advance"
      /\ call'[p].saw = call[p].saw /\ Others(p)
  BY AfterGoto DEF CreateOrder, In, Carries, bounds
<1>1. SUFFICES ASSUME QuietNights, throws + deaths = 0 PROVE MenuInv'
  BY <1>0 DEF MenuInv
<1>2. throws = 0
  BY <1>1 DEF TypeInv, TypeOK
<1>3. d \in Days /\ delivered[d] = 0
  BY <1>0, <1>2 DEF OneInv, WorkInv, Working
<1>4. DeliveredDays' = DeliveredDays \cup {d} /\ d \notin DeliveredDays
  BY <1>3 DEF CreateOrder, DeliveredDays, TypeInv, TypeOK
<1>5. /\ sub.claimed = today /\ call[p].saw.next = sub.next
      /\ \A q \in Procs \ {p} : ~Busy(q)
      /\ sub.next + Cardinality(Advancing) = 1 + Cardinality(DeliveredDays)
  BY <1>0, <1>1 DEF MenuInv, Busy
<1>6. Advancing' = Advancing \cup {p} /\ p \notin Advancing
  BY <1>0 DEF Advancing, Others, In
<1>7. /\ Cardinality(DeliveredDays') = Cardinality(DeliveredDays) + 1
      /\ Cardinality(Advancing') = Cardinality(Advancing) + 1
  BY <1>4, <1>6, MenuCounts, FS_AddElement
<1>8. sub'.next + Cardinality(Advancing') = 1 + Cardinality(DeliveredDays')
  <2>1. sub.next \in Nat
    BY DEF TypeInv, TypeOK, Rows
  <2>2. QED
    BY <1>0, <1>5, <1>7, <2>1, MenuCounts
<1>9. /\ \A q \in Procs \ {p} : ~Busy(q)'
      /\ \A q \in Procs : In(q, "materialize")' => sub'.claimed = today'
  BY <1>0, <1>5 DEF Others, Busy
<1>10. QED
  BY <1>0, <1>5, <1>8, <1>9 DEF MenuInv

\* which it does once, from the day it was at.
LEMMA AdvanceMenuInv ==
  ASSUME TypeInv, MenuInv, NEW p \in Procs, AdvanceSubscriptionDay(p)
  PROVE  MenuInv'
<1>0. /\ UNCHANGED <<today, delivered, throws, deaths>>
      /\ call[p].phase = "advance" /\ call'[p].phase = "idle" /\ Others(p)
      /\ sub'.next = call[p].saw.next + 1 /\ sub'.claimed = sub.claimed
  BY AfterReturn, AtRest
     DEF AdvanceSubscriptionDay, In, bounds, TypeInv, TypeOK, Rows
<1>1. SUFFICES ASSUME QuietNights, throws + deaths = 0 PROVE MenuInv'
  BY <1>0 DEF MenuInv
<1>2. /\ sub.claimed = today /\ call[p].saw.next = sub.next
      /\ \A q \in Procs \ {p} : ~Busy(q)
      /\ sub.next + Cardinality(Advancing) = 1 + Cardinality(DeliveredDays)
  BY <1>0, <1>1 DEF MenuInv, Busy
<1>3. DeliveredDays' = DeliveredDays
  BY <1>0 DEF DeliveredDays
<1>4. Advancing' = Advancing \ {p} /\ p \in Advancing
  BY <1>0 DEF Advancing, Others, In
<1>5. Cardinality(Advancing') = Cardinality(Advancing) - 1
  BY <1>4, MenuCounts, FS_RemoveElement
<1>6. sub'.next + Cardinality(Advancing') = 1 + Cardinality(DeliveredDays')
  <2>1. sub.next \in Nat
    BY DEF TypeInv, TypeOK, Rows
  <2>2. QED
    BY <1>0, <1>2, <1>3, <1>5, <2>1, MenuCounts
<1>7. /\ \A q \in Procs : ~Busy(q)'
      /\ sub'.claimed = today'
  BY <1>0, <1>2 DEF Others, Busy
<1>8. QED
  BY <1>6, <1>7 DEF MenuInv

LEMMA StartMenuInv ==
  ASSUME TypeInv, MenuInv, NEW p \in Procs, Start(p)
  PROVE  MenuInv'
<1> USE DEF rows, bounds
<1>1. UNCHANGED <<sub, today, delivered, throws, deaths>>
  BY DEF Start, StartMaterialize, StartPause, StartDisruption, StartRequest,
     AnswerRequest
<1>2. CASE StartMaterialize(p)
  BY <1>1, <1>2, AfterStartMaterialize, MenuFrame DEF Busy
<1>3. CASE ~StartMaterialize(p)
  <2>1. /\ Others(p) /\ call[p].phase = "idle"
        /\ call'[p].phase \in {"calendar", "skip", "request", "findHeld"}
    BY <1>3, AfterStartPause, AfterStartDisruption, AfterStartRequest,
       AfterAnswerRequest DEF Start
  <2>2. QED
    BY <1>1, <2>1, MenuFrame DEF Busy
<1>4. QED
  BY <1>2, <1>3

LEMMA ExtendedKeeps ==
  ASSUME TypeInv, NEW c
  PROVE  /\ Extended(c).next = sub.next /\ Extended(c).claimed = sub.claimed
         /\ Extended(c).status = sub.status
BY DEF Extended, TypeInv, TypeOK, Rows

LEMMA ContinueMenuInv ==
  ASSUME TypeInv, TypeInv', OneInv, MenuInv, NEW p \in Procs, Continue(p)
  PROVE  MenuInv'
<1> USE DEF rows, bounds
<1>0. sub \in Rows
  BY DEF TypeInv, TypeOK
<1>1. CASE ClaimDay(p)
  BY <1>1, ClaimMenuInv
<1>2. CASE CreateOrder(p)
  BY <1>2, OrderMenuInv
<1>3. CASE AdvanceSubscriptionDay(p)
  BY <1>3, AdvanceMenuInv
<1>4. CASE NotDue(p) \/ ExpireSubscription(p) \/ CreateHeldSkip(p)
           \/ ExtendCycleEnd(p) \/ CreateIfNonePending(p) \/ ReactivateSubscription(p)
  <2>1. /\ call[p].phase # "advance" /\ Return(p)
        /\ UNCHANGED <<today, delivered, throws, deaths>>
    BY <1>4 DEF NotDue, ExpireSubscription, CreateHeldSkip, ExtendCycleEnd,
       CreateIfNonePending, ReactivateSubscription, In
  <2>2. sub'.next = sub.next /\ sub'.claimed = sub.claimed
    BY <1>0, <1>4, ExtendedKeeps DEF NotDue, ExpireSubscription, CreateHeldSkip,
       ExtendCycleEnd, CreateIfNonePending, ReactivateSubscription, Rows
  <2>3. QED
    BY <2>1, <2>2, AfterReturn, AtRest, MenuFrame DEF Busy
<1>5. CASE ReleaseMaterializationDate(p)
  <2>1. throws # 0 /\ throws' = throws /\ deaths' = deaths
    BY <1>5 DEF ReleaseMaterializationDate, In, OneInv, WorkInv
  <2>2. throws + deaths # 0
    BY <2>1 DEF TypeInv, TypeOK
  <2>3. QED
    BY <2>1, <2>2 DEF MenuInv
<1>6. CASE CreateSkip(p)
  BY <1>6, AfterGoto, MenuFrame DEF CreateSkip, In, Busy
<1>7. CASE BankHeldDays(p)
  BY <1>7, AfterGoto, ExtendedKeeps, MenuFrame DEF BankHeldDays, In, Busy
<1>8. CASE MarkHeldSkipsBanked(p)
  <2>1. /\ call[p].phase = "mark" /\ call'[p].phase \in {"reactivate", "idle"}
        /\ Others(p) /\ UNCHANGED <<sub, today, delivered, throws, deaths>>
    BY <1>8, AfterGoto, AfterReturn, AtRest DEF MarkHeldSkipsBanked, In
  <2>2. QED
    BY <2>1, MenuFrame DEF Busy
<1>9. CASE LookupSkip(p)
  BY <1>9, AfterLookupSkip, AtRest, MenuFrame DEF LookupSkip, Busy, Carries
<1>10. CASE LookupHold(p)
  BY <1>10, AfterLookupHold, MenuFrame DEF LookupHold, Busy
<1>11. CASE BuildDeliveryCalendar(p)
  BY <1>11, AfterCalendar, AtRest, MenuFrame DEF BuildDeliveryCalendar, Busy
<1>12. CASE FindUnbankedHeldSkips(p)
  BY <1>12, AfterFindHeld, AtRest, MenuFrame DEF FindUnbankedHeldSkips, Busy
<1>13. QED
  BY <1>1, <1>2, <1>3, <1>4, <1>5, <1>6, <1>7, <1>8, <1>9, <1>10, <1>11, <1>12
     DEF Continue

LEMMA MenuInvStep ==
  TypeInv /\ TypeInv' /\ OneInv /\ MenuInv /\ [Next]_vars => MenuInv'
<1> USE DEF rows, bounds
<1> SUFFICES ASSUME TypeInv, TypeInv', OneInv, MenuInv, [Next]_vars PROVE MenuInv'
  OBVIOUS
<1>1. ASSUME NEW p \in Procs, Start(p) \/ Continue(p) PROVE MenuInv'
  BY <1>1, StartMenuInv, ContinueMenuInv
<1>2. ASSUME NEW p \in Procs, Throw(p) \/ Die(p) PROVE MenuInv'
  <2>1. throws' + deaths' # 0
    <3>1. throws \in Nat /\ deaths \in Nat
      BY DEF TypeInv, TypeOK
    <3>2. \/ throws' = throws + 1 /\ deaths' = deaths
          \/ throws' = throws /\ deaths' = deaths + 1
      BY <1>2 DEF Throw, Die
    <3>3. QED
      BY <3>1, <3>2
  <2>2. QED
    BY <2>1 DEF MenuInv
<1>3. CASE NextDay
  <2>1. SUFFICES ASSUME QuietNights, throws + deaths = 0 PROVE MenuInv'
    BY <1>3 DEF NextDay, MenuInv
  <2>2. \A p \in Procs : call[p].phase = "idle"
    BY <1>3, <2>1 DEF NextDay, Idle
  <2>3. UNCHANGED <<sub, call, delivered>>
    BY <1>3 DEF NextDay
  <2>4. Advancing' = Advancing /\ DeliveredDays' = DeliveredDays
    BY <2>3 DEF Advancing, DeliveredDays, In
  <2>5. QED
    BY <2>1, <2>2, <2>3, <2>4 DEF MenuInv, Busy, In
<1>4. CASE CancelWithRefund \/ UNCHANGED vars
  <2>1. /\ UNCHANGED <<today, call, delivered, throws, deaths>>
        /\ sub'.next = sub.next /\ sub'.claimed = sub.claimed
    BY <1>4 DEF CancelWithRefund, vars, TypeInv, TypeOK, Rows
  <2>2. Advancing' = Advancing /\ DeliveredDays' = DeliveredDays
    BY <2>1 DEF Advancing, DeliveredDays, In
  <2>3. QED
    BY <2>1, <2>2 DEF MenuInv, Busy, In
<1>5. QED
  BY <1>1, <1>2, <1>3, <1>4 DEF Next

\* When no run of the materializer crosses midnight, each delivery moves the
\* menu on by one day, however many runs overlap and whatever holds a day back.
THEOREM MenuFollows == Spec => [](QuietNights => MenuFollowsDeliveries)
<1>1. Init => MenuInv
  <2> SUFFICES ASSUME Init PROVE MenuInv
    OBVIOUS
  <2>1. \A p \in Procs : call[p].phase = "idle"
    BY AtRest DEF Init
  <2>2. Advancing = {} /\ DeliveredDays = {}
    BY <2>1 DEF Advancing, DeliveredDays, In, Init
  <2>3. Cardinality(Advancing) = 0 /\ Cardinality(DeliveredDays) = 0
    BY <2>2, FS_EmptySet
  <2>4. sub.next = 1
    BY AtRest DEF Init
  <2>5. QED
    BY <2>1, <2>3, <2>4 DEF MenuInv, Busy, In
<1>2. MenuInv => (QuietNights => MenuFollowsDeliveries)
  BY DEF MenuInv, MenuFollowsDeliveries, Advancing
<1>3. QED
  BY InitTypeInv, TypeInvStep, InitOneInv, OneInvStep, MenuInvStep, <1>1, <1>2,
     PTL DEF Spec

-----------------------------------------------------------------------------
\* The days bought, in a calendar whose closures lie inside the plan and whose
\* nights are quiet, with at least one day of notice.

Calm == QuietNights /\ Notice >= 1 /\ Closed \subseteq 0..Duration

Disruption(c) == c.phase \in {"skip", "extend"} /\ c.day = 0 /\ c.after = 0
Crediting(c) == c.phase \in {"skip", "extend"} /\ ~Disruption(c)
OnTheWay(c) == c.phase \in {"hold", "heldSkip", "order"}
Answering(c) == c.phase \in {"findHeld", "bankHeld", "mark"}

\* The shape of a call: what it knows of its days when it gets to a phase.
Shape(c) ==
  /\ c.saw.cycleEnd >= Duration
  /\ c.phase \in {"idle", "findHeld"} => c.day = 0
  /\ c.phase = "request" => c.from > today
  /\ OnTheWay(c) => c.day \notin Closed
  /\ c.phase = "calendar" => c.after > 0
  /\ c.after > 0 => /\ c.phase \in {"calendar", "skip", "extend"}
                    /\ c.day = 0 /\ c.to = c.after
                    /\ today < c.from /\ c.from <= c.saw.cycleEnd
  /\ c.phase \in {"skip", "extend"} /\ c.day # 0 =>
       c.from = c.day /\ c.to = c.day /\ c.day \in Closed
  /\ Disruption(c) => c.n = 1
  /\ c.phase = "extend" /\ ~Disruption(c) => c.from..c.to \subseteq skipped
  /\ c.phase = "bankHeld" => c.n = Cardinality(c.found)

ShapeInv ==
  /\ sub.cycleEnd >= Duration
  /\ \A p \in Procs : Shape(call[p])

\* A step of p leaves the other calls in shape.
LEMMA ShapeFrame ==
  ASSUME ShapeInv, NEW p \in Procs, Others(p), today' = today,
         skipped \subseteq skipped', sub'.cycleEnd >= Duration, Shape(call[p])'
  PROVE  ShapeInv'
<1>1. \A q \in Procs \ {p} : Shape(call[q])'
  BY DEF ShapeInv, Shape, Others, Disruption, OnTheWay
<1>2. QED
  BY <1>1 DEF ShapeInv

\* A slot at rest needs nothing.
LEMMA RestShape ==
  ASSUME NEW p \in Procs, call'[p] = NoCall
  PROVE  Shape(call[p])'
<1>1. Duration >= Duration
  BY CalendarAssumption
<1>2. QED
  BY <1>1, AtRest DEF Shape, Disruption, OnTheWay

\* What banking adds comes after what was there.
LEMMA ExtendedGrows ==
  ASSUME TypeInv, NEW p \in Procs, call[p].n > 0
  PROVE  Extended(call[p]).cycleEnd >= call[p].saw.cycleEnd
<1>1. /\ call[p].saw.cycleEnd \in Nat /\ call[p].n \in Nat \ {0}
      /\ call[p].after \in Nat /\ sub \in Rows
  BY DEF TypeInv, TypeOK, Calls, Rows
<1> DEFINE S == call[p].saw.cycleEnd
           a == call[p].after
           e == Bank(S, call[p].n, a)
<1>2. e \in Nat /\ e >= S
  <2>1. e \in Nat /\ e > (IF a > S THEN a ELSE S)
    BY <1>1, BankIsRight
  <2>2. S \in Nat /\ a \in Nat
    BY <1>1
  <2> HIDE DEF e, S, a
  <2>3. QED
    BY <2>1, <2>2
<1>3. Extended(call[p]).cycleEnd = e
  BY <1>1 DEF Extended, Rows
<1> HIDE DEF e
<1>4. QED
  BY <1>2, <1>3

\* A call starts in shape,
LEMMA StartShape ==
  ASSUME Calm, TypeInv, ShapeInv, NEW p \in Procs, Start(p)
  PROVE  ShapeInv'
<1> USE DEF rows, bounds
<1>0. /\ today' = today /\ skipped' = skipped /\ sub' = sub
      /\ sub.cycleEnd >= Duration /\ Duration >= Duration
      /\ today \in Nat /\ Notice \in Nat /\ sub.cycleEnd \in Nat
  <2>1. today' = today /\ skipped' = skipped /\ sub' = sub
    BY DEF Start, StartMaterialize, StartPause, StartDisruption, StartRequest,
       AnswerRequest
  <2>2. today \in Nat /\ sub.cycleEnd \in Nat
    BY CalendarAssumption DEF TypeInv, TypeOK, Rows
  <2>3. QED
    BY <2>1, <2>2, CalendarAssumption DEF ShapeInv
<1>1. CASE StartMaterialize(p)
  BY <1>0, <1>1, AfterStartMaterialize, ShapeFrame DEF Shape, Disruption, OnTheWay
<1>2. ASSUME NEW from \in Days, NEW to \in Days, StartPause(p, from, to)
      PROVE  ShapeInv'
  <2>1. from \in Nat /\ to \in Nat /\ today < from /\ from <= sub.cycleEnd
    BY <1>0, <1>2 DEF Calm, Days, StartPause, EarliestEditableDate
  <2>2. to > 0
    BY <1>2 DEF Days
  <2>3. /\ call'[p].phase = "calendar" /\ call'[p].day = 0 /\ Others(p)
        /\ call'[p].from = from /\ call'[p].to = to /\ call'[p].after = to
        /\ call'[p].saw = sub
    BY <1>2, AfterStartPause
  <2>4. Shape(call[p])'
    BY <1>0, <2>1, <2>2, <2>3 DEF Shape, Disruption, OnTheWay
  <2>5. QED
    BY <1>0, <2>3, <2>4, ShapeFrame
<1>3. ASSUME NEW d \in Days, StartDisruption(p, d) PROVE ShapeInv'
  BY <1>0, <1>3, AfterStartDisruption, ShapeFrame DEF Shape, Disruption, OnTheWay
<1>4. CASE StartRequest(p)
  <2>1. EarliestEditableDate > today
    BY <1>0 DEF Calm, EarliestEditableDate
  <2>2. QED
    BY <1>0, <1>4, <2>1, AfterStartRequest, AtRest, ShapeFrame DEF Shape, Disruption, OnTheWay
<1>5. CASE AnswerRequest(p)
  BY <1>0, <1>5, AfterAnswerRequest, AtRest, ShapeFrame DEF Shape, Disruption, OnTheWay
<1>6. QED
  BY <1>1, <1>2, <1>3, <1>4, <1>5 DEF Start

\* A call that returns.
LEMMA ReturnShape ==
  ASSUME TypeInv, ShapeInv, NEW p \in Procs, Return(p), today' = today,
         skipped \subseteq skipped', sub'.cycleEnd >= Duration
  PROVE  ShapeInv'
BY AfterReturn, RestShape, ShapeFrame

\* keeps it from phase to phase,
LEMMA ContinueShape ==
  ASSUME Calm, TypeInv, ShapeInv, NEW p \in Procs, Continue(p)
  PROVE  ShapeInv'
<1> USE DEF rows, bounds
<1>0. /\ sub \in Rows /\ call[p] \in Calls /\ Credits(call[p]) /\ HasDay(call[p])
      /\ Shape(call[p]) /\ sub.cycleEnd >= Duration
      /\ sub.cycleEnd \in Nat /\ call[p].saw.cycleEnd \in Nat /\ Duration \in Nat
      /\ call[p].n \in Nat /\ call[p].after \in Nat /\ call[p].day \in Nat
  BY CalendarAssumption DEF TypeInv, TypeOK, SlotsOK, Calls, Rows, ShapeInv
<1>1. CASE NotDue(p) \/ ExpireSubscription(p) \/ CreateHeldSkip(p)
           \/ AdvanceSubscriptionDay(p) \/ ReleaseMaterializationDate(p)
           \/ CreateIfNonePending(p) \/ ReactivateSubscription(p)
  <2>1. Return(p) /\ today' = today /\ skipped \subseteq skipped'
    BY <1>1 DEF NotDue, ExpireSubscription, CreateHeldSkip,
       AdvanceSubscriptionDay, ReleaseMaterializationDate,
       CreateIfNonePending, ReactivateSubscription
  <2>2. sub'.cycleEnd = sub.cycleEnd
    BY <1>0, <1>1 DEF NotDue, ExpireSubscription, CreateHeldSkip,
       AdvanceSubscriptionDay, ReleaseMaterializationDate,
       CreateIfNonePending, ReactivateSubscription, Rows
  <2>3. QED
    BY <1>0, <2>1, <2>2, ReturnShape
<1>2. CASE ExtendCycleEnd(p)
  <2>1. sub' = Extended(call[p]) /\ call[p].n > 0
    BY <1>0, <1>2 DEF ExtendCycleEnd, In, Credits
  <2>2. Extended(call[p]).cycleEnd >= call[p].saw.cycleEnd
        /\ Extended(call[p]).cycleEnd \in Nat
    BY <2>1, ExtendedGrows, ExtendedRow DEF Rows
  <2>3. sub'.cycleEnd >= Duration
    BY <1>0, <2>1, <2>2 DEF Shape
  <2>4. QED
    BY <1>2, <2>3, ReturnShape DEF ExtendCycleEnd
<1>3. CASE BankHeldDays(p)
  <2>1. sub' = Extended(call[p]) /\ call[p].n > 0
    BY <1>0, <1>3 DEF BankHeldDays, In, Credits
  <2>2. Extended(call[p]).cycleEnd >= call[p].saw.cycleEnd
        /\ Extended(call[p]).cycleEnd \in Nat
    BY <2>1, ExtendedGrows, ExtendedRow DEF Rows
  <2>3. sub'.cycleEnd >= Duration
    BY <1>0, <2>1, <2>2 DEF Shape
  <2>4. /\ call[p].phase = "bankHeld" /\ call'[p].phase = "mark" /\ Others(p)
        /\ Carries(p) /\ call'[p].day = call[p].day
        /\ today' = today /\ skipped' = skipped
    BY <1>3, AfterGoto DEF BankHeldDays, In
  <2>5. Shape(call[p])'
    BY <1>0, <2>4 DEF Shape, Disruption, OnTheWay, Carries
  <2>6. QED
    BY <2>3, <2>4, <2>5, ShapeFrame
<1>4. CASE CreateSkip(p)
  <2>1. /\ call[p].phase = "skip" /\ call'[p].phase = "extend" /\ Others(p)
        /\ Carries(p) /\ call'[p].day = call[p].day
        /\ today' = today /\ sub' = sub
        /\ skipped' = skipped \cup (call[p].from..call[p].to)
    BY <1>4, AfterGoto DEF CreateSkip, In
  <2>2. Shape(call[p])'
    BY <1>0, <2>1 DEF Shape, Disruption, OnTheWay, Carries
  <2>3. QED
    BY <1>0, <2>1, <2>2, ShapeFrame
<1>5. CASE CreateOrder(p)
  <2>1. /\ call[p].phase = "order" /\ call'[p].phase = "advance" /\ Others(p)
        /\ Carries(p) /\ call'[p].day = call[p].day
        /\ today' = today /\ sub' = sub /\ skipped' = skipped
    BY <1>5, AfterGoto DEF CreateOrder, In
  <2>2. Shape(call[p])'
    BY <1>0, <2>1 DEF Shape, Disruption, OnTheWay, Carries
  <2>3. QED
    BY <1>0, <2>1, <2>2, ShapeFrame
<1>6. CASE MarkHeldSkipsBanked(p)
  <2>1. today' = today /\ sub' = sub /\ skipped' = skipped /\ call[p].phase = "mark"
    BY <1>6 DEF MarkHeldSkipsBanked, In
  <2>2. CASE Return(p)
    BY <1>0, <2>1, <2>2, ReturnShape
  <2>3. CASE Goto(p, "reactivate")
    <3>1. /\ call'[p].phase = "reactivate" /\ Others(p)
          /\ Carries(p) /\ call'[p].day = call[p].day
      BY <2>3, AfterGoto
    <3>2. Shape(call[p])'
      BY <1>0, <2>1, <3>1 DEF Shape, Disruption, OnTheWay, Carries
    <3>3. QED
      BY <1>0, <2>1, <3>1, <3>2, ShapeFrame
  <2>4. QED
    BY <1>6, <2>2, <2>3 DEF MarkHeldSkipsBanked
<1>7. CASE ClaimDay(p)
  <2>1. /\ today' = today /\ skipped' = skipped /\ sub'.cycleEnd = sub.cycleEnd
        /\ call[p].phase = "materialize"
    BY <1>0, <1>7, AfterClaimDay DEF ClaimDay, Rows
  <2>2. Others(p) /\ Shape(call[p])'
    <3>1. CASE call'[p] = NoCall
      BY <1>7, <3>1, AfterClaimDay, RestShape
    <3>2. CASE call'[p] # NoCall
      BY <1>0, <1>7, <3>2, <2>1, AfterClaimDay DEF Shape, Disruption, OnTheWay, Carries
    <3>3. QED
      BY <3>1, <3>2
  <2>3. QED
    BY <1>0, <2>1, <2>2, ShapeFrame
<1>8. CASE LookupSkip(p)
  <2>1. today' = today /\ skipped' = skipped /\ sub' = sub
    BY <1>8 DEF LookupSkip
  <2>2. Others(p) /\ Shape(call[p])'
    <3>1. CASE call'[p] = NoCall
      BY <1>8, <3>1, AfterLookupSkip, RestShape
    <3>2. CASE call'[p] # NoCall
      BY <1>0, <1>8, <3>2, <2>1, AfterLookupSkip
         DEF Shape, Disruption, OnTheWay, Carries, HasDay
    <3>3. QED
      BY <3>1, <3>2
  <2>3. QED
    BY <1>0, <2>1, <2>2, ShapeFrame
<1>9. CASE LookupHold(p)
  <2>1. today' = today /\ skipped' = skipped /\ sub' = sub
    BY <1>9 DEF LookupHold
  <2>2. Others(p) /\ Shape(call[p])'
    BY <1>0, <1>9, <2>1, AfterLookupHold DEF Shape, Disruption, OnTheWay
  <2>3. QED
    BY <1>0, <2>1, <2>2, ShapeFrame
<1>10. CASE BuildDeliveryCalendar(p)
  <2>1. today' = today /\ skipped' = skipped /\ sub' = sub
    BY <1>10 DEF BuildDeliveryCalendar
  <2>2. Others(p) /\ Shape(call[p])'
    <3>1. CASE call'[p] = NoCall
      BY <1>10, <3>1, AfterCalendar, RestShape
    <3>2. CASE call'[p] # NoCall
      BY <1>0, <1>10, <3>2, <2>1, AfterCalendar DEF Shape, Disruption, OnTheWay
    <3>3. QED
      BY <3>1, <3>2
  <2>3. QED
    BY <1>0, <2>1, <2>2, ShapeFrame
<1>11. CASE FindUnbankedHeldSkips(p)
  <2>1. today' = today /\ skipped' = skipped /\ sub' = sub
    BY <1>11 DEF FindUnbankedHeldSkips
  <2>2. Others(p) /\ Shape(call[p])'
    <3>1. CASE call'[p] = NoCall
      BY <1>11, <3>1, AfterFindHeld, RestShape
    <3>2. CASE call'[p] # NoCall
      BY <1>0, <1>11, <3>2, <2>1, AfterFindHeld DEF Shape, Disruption, OnTheWay
    <3>3. QED
      BY <3>1, <3>2
  <2>3. QED
    BY <1>0, <2>1, <2>2, ShapeFrame
<1>12. QED
  BY <1>1, <1>2, <1>3, <1>4, <1>5, <1>6, <1>7, <1>8, <1>9, <1>10, <1>11
     DEF Continue

\* and every step keeps it.
LEMMA ShapeInvStep ==
  Calm /\ TypeInv /\ ShapeInv /\ [Next]_vars => ShapeInv'
<1> USE DEF rows, bounds
<1> SUFFICES ASSUME Calm, TypeInv, ShapeInv, [Next]_vars PROVE ShapeInv'
  OBVIOUS
<1>0. sub.cycleEnd >= Duration
  BY DEF ShapeInv
<1>1. ASSUME NEW p \in Procs, Start(p) \/ Continue(p) PROVE ShapeInv'
  BY <1>1, StartShape, ContinueShape
<1>2. ASSUME NEW p \in Procs, Throw(p) \/ Die(p) PROVE ShapeInv'
  <2>1. today' = today /\ skipped' = skipped /\ sub' = sub
    BY <1>2 DEF Throw, Die
  <2>2. CASE Return(p)
    BY <1>0, <2>1, <2>2, ReturnShape
  <2>3. CASE call[p].day # 0 /\ Goto(p, "release")
    <3>1. /\ call'[p].phase = "release" /\ call'[p].day = call[p].day
          /\ Carries(p) /\ Others(p)
      BY <2>3, AfterGoto
    <3>2. call[p].after \in Nat /\ Shape(call[p])
      BY DEF TypeInv, TypeOK, Calls, ShapeInv
    <3>3. Shape(call[p])'
      BY <2>1, <2>3, <3>1, <3>2 DEF Shape, Disruption, OnTheWay, Carries
    <3>4. QED
      BY <1>0, <2>1, <3>1, <3>3, ShapeFrame
  <2>4. QED
    BY <1>2, <2>2, <2>3 DEF Throw, Die
<1>3. CASE NextDay
  <2>1. \A p \in Procs : call[p].phase = "idle"
    BY <1>3 DEF NextDay, Calm, Idle
  <2>2. UNCHANGED <<sub, call, skipped>>
    BY <1>3 DEF NextDay
  <2>3. QED
    BY <2>1, <2>2 DEF ShapeInv, Shape, Disruption, OnTheWay
<1>4. CASE CancelWithRefund \/ UNCHANGED vars
  <2>1. UNCHANGED <<today, call, skipped>> /\ sub'.cycleEnd = sub.cycleEnd
    BY <1>4 DEF CancelWithRefund, vars, TypeInv, TypeOK, Rows
  <2>2. QED
    BY <2>1 DEF ShapeInv, Shape, Disruption, OnTheWay
<1>5. QED
  BY <1>1, <1>2, <1>3, <1>4 DEF Next

-----------------------------------------------------------------------------
\* Who works on a day has claimed it, alone, on that very day; what was
\* delivered was open, and not on hold.

Claim(p) ==
  /\ call[p].day # 0 => /\ call[p].day = today /\ sub.claimed = today
                        /\ call[p].day <= call[p].saw.cycleEnd
                        /\ \A q \in Procs \ {p} : call[q].day = 0
  /\ In(p, "order") => ~OnHold(today)
  /\ In(p, "heldSkip") => delivered[call[p].day] = 0

ClaimInv ==
  /\ DeliveredDays \subseteq 1..today
  /\ DeliveredDays \cap Closed = {}
  /\ today \in DeliveredDays => ~OnHold(today)
  /\ \A p \in Procs : Claim(p)

\* A step that neither claims a day nor delivers one.
LEMMA ClaimFrame ==
  ASSUME ClaimInv, NEW p \in Procs, Others(p),
         today' = today, delivered' = delivered, sub'.claimed = sub.claimed,
         OnHold(today)' => OnHold(today),
         call'[p].day # 0 => call'[p].day = call[p].day /\ call'[p].saw = call[p].saw,
         In(p, "order")' => ~OnHold(today),
         In(p, "heldSkip")' => delivered[call'[p].day] = 0
  PROVE  ClaimInv'
<1>1. DeliveredDays' = DeliveredDays
  BY DEF DeliveredDays
<1>2. Claim(p)'
  BY DEF ClaimInv, Claim, Others, In
<1>3. \A q \in Procs \ {p} : Claim(q)'
  <2> SUFFICES ASSUME NEW q \in Procs \ {p} PROVE Claim(q)'
    OBVIOUS
  <2>1. call'[q] = call[q] /\ Claim(q)
    BY DEF Others, ClaimInv
  <2>2. \A r \in Procs : call[r].day = 0 => call'[r].day = 0
    BY DEF Others
  <2>3. QED
    BY <2>1, <2>2 DEF Claim, In
<1>4. QED
  BY <1>1, <1>2, <1>3 DEF ClaimInv

\* A call that returns has given its day back or delivered it.
LEMMA ReturnClaim ==
  ASSUME TypeInv, ClaimInv, NEW p \in Procs, Return(p),
         today' = today, delivered' = delivered, sub'.claimed = sub.claimed,
         OnHold(today)' => OnHold(today)
  PROVE  ClaimInv'
BY AfterReturn, AtRest, ClaimFrame DEF In

\* The conditional write lets one call through a day.
LEMMA ClaimDayClaim ==
  ASSUME TypeInv, ClaimInv, NEW p \in Procs, ClaimDay(p)
  PROVE  ClaimInv'
<1> USE DEF rows, bounds
<1>0. UNCHANGED <<today, delivered, request>>
  BY DEF ClaimDay
<1>1. CASE sub.claimed = today
  BY <1>0, <1>1, ReturnClaim DEF ClaimDay, OnHold
<1>2. CASE sub.claimed # today
  <2>1. /\ call'[p].phase = "lookup" /\ call'[p].day = today /\ Others(p)
        /\ call'[p].saw = call[p].saw /\ sub'.claimed = today
    BY <1>2, AfterClaimDay DEF Carries, TypeInv, TypeOK, Rows
  <2>2. today <= call[p].saw.cycleEnd
    BY DEF ClaimDay, TypeInv, TypeOK, Calls, Rows
  <2>3. \A q \in Procs : call[q].day = 0
    BY <1>2 DEF ClaimInv, Claim
  <2>4. \A q \in Procs \ {p} : call'[q] = call[q]
    BY <2>1 DEF Others
  <2>5. Claim(p)'
    BY <1>0, <2>1, <2>2, <2>3, <2>4 DEF Claim, In
  <2>6. \A q \in Procs \ {p} : Claim(q)'
    BY <1>0, <2>3, <2>4 DEF Claim, In, ClaimInv, OnHold
  <2>7. QED
    BY <1>0, <2>5, <2>6 DEF ClaimInv, DeliveredDays, OnHold
<1>3. QED
  BY <1>1, <1>2

\* An order delivers the claimed day, today, once.
LEMMA CreateOrderClaim ==
  ASSUME TypeInv, ShapeInv, ClaimInv, NEW p \in Procs, CreateOrder(p)
  PROVE  ClaimInv'
<1> USE DEF rows, bounds
<1>1. /\ call[p].phase = "order" /\ call'[p].phase = "advance" /\ Others(p)
      /\ call'[p].saw = call[p].saw /\ call'[p].day = call[p].day
      /\ UNCHANGED <<today, sub, request>>
  BY AfterGoto DEF CreateOrder, In, Carries
<1>2. call[p].day \in Days /\ call[p].day # 0
  BY <1>1, CalendarAssumption DEF TypeInv, TypeOK, SlotsOK, Calls, HasDay, Days
<1>3. /\ call[p].day = today /\ sub.claimed = today
      /\ call[p].day <= call[p].saw.cycleEnd
      /\ \A q \in Procs \ {p} : call[q].day = 0
      /\ ~OnHold(today)
  BY <1>1, <1>2 DEF ClaimInv, Claim, In
<1>4. DeliveredDays' = DeliveredDays \cup {today}
  BY <1>2, <1>3 DEF CreateOrder, DeliveredDays, TypeInv, TypeOK
<1>5. today \notin Closed
  BY <1>1, <1>3 DEF ShapeInv, Shape, OnTheWay
<1>6. today \in 1..today
  BY <1>2, <1>3 DEF Days
<1>7. \A q \in Procs \ {p} : call'[q] = call[q] /\ call[q].phase # "heldSkip"
  <2>1. \A q \in Procs \ {p} : HasDay(call[q]) /\ call[q].day = 0
    BY <1>3 DEF TypeInv, SlotsOK
  <2>2. QED
    BY <1>1, <2>1 DEF Others, HasDay
<1>8. Claim(p)'
  BY <1>1, <1>3, <1>7 DEF Claim, In
<1>9. \A q \in Procs \ {p} : Claim(q)'
  BY <1>1, <1>3, <1>7 DEF Claim, In, OnHold
<1>10. QED
  BY <1>1, <1>3, <1>4, <1>5, <1>6, <1>8, <1>9 DEF ClaimInv, OnHold

\* A day handed back was nobody else's.
LEMMA ReleaseClaim ==
  ASSUME TypeInv, ClaimInv, NEW p \in Procs, ReleaseMaterializationDate(p)
  PROVE  ClaimInv'
<1> USE DEF rows, bounds
<1>1. /\ call'[p] = NoCall /\ Others(p)
      /\ UNCHANGED <<today, delivered, request>>
  BY AfterReturn DEF ReleaseMaterializationDate
<1>2. CASE call[p].day = 0 /\ sub.claimed # 0
  <2>1. sub' = sub
    BY <1>2 DEF ReleaseMaterializationDate
  <2>2. QED
    BY <1>1, <2>1, AtRest, ClaimFrame DEF In, OnHold
<1>3. CASE call[p].day # 0 \/ sub.claimed = 0
  <2>1. \A q \in Procs \ {p} : call[q].day = 0
    BY <1>3 DEF ClaimInv, Claim
  <2>2. \A q \in Procs : call'[q].day = 0
    BY <1>1, <2>1, AtRest DEF Others
  <2>3. \A q \in Procs : Claim(q)'
    BY <1>1, <2>1, <2>2, AtRest DEF ClaimInv, Claim, In, Others, OnHold
  <2>4. QED
    BY <1>1, <2>3 DEF ClaimInv, DeliveredDays, OnHold
<1>4. QED
  BY <1>2, <1>3

\* No call starts with a day,
LEMMA StartClaim ==
  ASSUME TypeInv, ClaimInv, NEW p \in Procs, Start(p)
  PROVE  ClaimInv'
<1> USE DEF rows, bounds
<1>1. /\ UNCHANGED <<today, delivered, sub>>
      /\ OnHold(today)' => OnHold(today)
  <2>1. UNCHANGED <<today, delivered, sub>>
    BY DEF Start, StartMaterialize, StartPause, StartDisruption, StartRequest,
       AnswerRequest
  <2>2. request' = request \/ request'.status = "WITHDRAWN"
    BY DEF Start, StartMaterialize, StartPause, StartDisruption, StartRequest,
       AnswerRequest, TypeInv, TypeOK, Requests
  <2>3. QED
    BY <2>1, <2>2 DEF OnHold
<1>2. /\ Others(p) /\ call'[p].day = 0
      /\ call'[p].phase \in {"materialize", "calendar", "skip", "request", "findHeld"}
  BY AfterStartMaterialize, AfterStartPause, AfterStartDisruption,
     AfterStartRequest, AfterAnswerRequest DEF Start
<1>3. QED
  BY <1>1, <1>2, ClaimFrame DEF In

\* a call that got one keeps it until it returns,
LEMMA ContinueClaim ==
  ASSUME TypeInv, ShapeInv, ClaimInv, NEW p \in Procs, Continue(p)
  PROVE  ClaimInv'
<1> USE DEF rows, bounds
<1>0. sub \in Rows /\ HasDay(call[p]) /\ Claim(p)
  BY DEF TypeInv, TypeOK, SlotsOK, ClaimInv
<1>1. CASE NotDue(p) \/ ExpireSubscription(p) \/ CreateHeldSkip(p)
           \/ ExtendCycleEnd(p) \/ AdvanceSubscriptionDay(p)
           \/ ReactivateSubscription(p)
  <2>1. Return(p) /\ UNCHANGED <<today, delivered, request>>
    BY <1>1 DEF NotDue, ExpireSubscription, CreateHeldSkip, ExtendCycleEnd,
       AdvanceSubscriptionDay, ReactivateSubscription
  <2>2. sub'.claimed = sub.claimed
    BY <1>0, <1>1, ExtendedKeeps DEF NotDue, ExpireSubscription, CreateHeldSkip,
       ExtendCycleEnd, AdvanceSubscriptionDay, ReactivateSubscription, Rows
  <2>3. QED
    BY <2>1, <2>2, ReturnClaim DEF OnHold
<1>2. CASE CreateIfNonePending(p)
  <2>1. call[p].from > today /\ Return(p) /\ UNCHANGED <<today, sub, delivered>>
    BY <1>2 DEF CreateIfNonePending, In, ShapeInv, Shape
  <2>2. OnHold(today)' => OnHold(today)
    <3>1. call[p].from \in Nat /\ today \in Nat
      BY CalendarAssumption DEF TypeInv, TypeOK, Calls
    <3>2. QED
      BY <1>2, <2>1, <3>1 DEF CreateIfNonePending, OnHold
  <2>3. QED
    BY <2>1, <2>2, ReturnClaim
<1>3. CASE ClaimDay(p)
  BY <1>3, ClaimDayClaim
<1>4. CASE CreateOrder(p)
  BY <1>4, CreateOrderClaim
<1>5. CASE ReleaseMaterializationDate(p)
  BY <1>5, ReleaseClaim
<1>6. CASE LookupHold(p)
  <2>1. UNCHANGED <<today, delivered, sub, request>>
    BY <1>6 DEF LookupHold
  <2>2. /\ call[p].phase = "hold" /\ Others(p) /\ call'[p].day = call[p].day
        /\ call'[p].saw = call[p].saw
        /\ \/ call'[p].phase = "heldSkip" /\ OnHold(call[p].day)
           \/ call'[p].phase = "order" /\ ~OnHold(call[p].day)
    <3>1. request.from \in Nat /\ call[p].day \in Nat
      BY CalendarAssumption DEF TypeInv, TypeOK, Requests, Calls
    <3>2. OnHold(call[p].day) <=> request.status = "PENDING" /\ request.from <= call[p].day
      BY <3>1 DEF OnHold
    <3>3. QED
      BY <1>6, <3>2, AfterLookupHold
  <2>3. call[p].day # 0 /\ call[p].day = today
    BY <1>0, <2>2 DEF HasDay, Claim
  <2>4. call'[p].phase = "heldSkip" => delivered[call[p].day] = 0
    <3>1. call[p].day \in Days
      BY <2>3, CalendarAssumption DEF TypeInv, TypeOK, Calls, Days
    <3>2. delivered[call[p].day] \in Nat
      BY <3>1 DEF TypeInv, TypeOK
    <3>3. call'[p].phase = "heldSkip" => today \notin DeliveredDays
      BY <2>2, <2>3 DEF ClaimInv
    <3>4. QED
      BY <2>3, <3>1, <3>2, <3>3 DEF DeliveredDays
  <2>5. QED
    BY <2>1, <2>2, <2>3, <2>4, ClaimFrame DEF In, OnHold
<1>7. CASE CreateSkip(p)
  BY <1>7, AfterGoto, ClaimFrame DEF CreateSkip, In, Carries, OnHold
<1>8. CASE BankHeldDays(p)
  BY <1>8, AfterGoto, ExtendedKeeps, ClaimFrame DEF BankHeldDays, In, Carries, OnHold
<1>9. CASE MarkHeldSkipsBanked(p)
  <2>1. UNCHANGED <<today, delivered, sub, request>>
    BY <1>9 DEF MarkHeldSkipsBanked
  <2>2. CASE Return(p)
    BY <2>1, <2>2, ReturnClaim DEF OnHold
  <2>3. CASE Goto(p, "reactivate")
    BY <2>1, <2>3, AfterGoto, ClaimFrame DEF In, Carries, OnHold
  <2>4. QED
    BY <1>9, <2>2, <2>3 DEF MarkHeldSkipsBanked
<1>10. CASE LookupSkip(p)
  BY <1>10, AfterLookupSkip, AtRest, ClaimFrame DEF LookupSkip, In, Carries, OnHold
<1>11. CASE BuildDeliveryCalendar(p)
  BY <1>11, AfterCalendar, AtRest, ClaimFrame DEF BuildDeliveryCalendar, In, OnHold
<1>12. CASE FindUnbankedHeldSkips(p)
  <2>1. UNCHANGED <<today, delivered, sub, request>>
    BY <1>12 DEF FindUnbankedHeldSkips
  <2>2. call[p].day = 0
    <3>1. call[p].phase = "findHeld"
      BY <1>12, AfterFindHeld
    <3>2. QED
      BY <3>1 DEF ShapeInv, Shape
  <2>3. QED
    BY <1>12, <2>1, <2>2, AfterFindHeld, AtRest, ClaimFrame DEF In, OnHold
<1>13. QED
  BY <1>1, <1>2, <1>3, <1>4, <1>5, <1>6, <1>7, <1>8, <1>9, <1>10, <1>11, <1>12
     DEF Continue

\* and every step keeps the claims.
LEMMA ClaimInvStep ==
  Calm /\ TypeInv /\ ShapeInv /\ ClaimInv /\ [Next]_vars => ClaimInv'
<1> USE DEF rows, bounds
<1> SUFFICES ASSUME Calm, TypeInv, ShapeInv, ClaimInv, [Next]_vars PROVE ClaimInv'
  OBVIOUS
<1>1. ASSUME NEW p \in Procs, Start(p) \/ Continue(p) PROVE ClaimInv'
  BY <1>1, StartClaim, ContinueClaim
<1>2. ASSUME NEW p \in Procs, Throw(p) \/ Die(p) PROVE ClaimInv'
  <2>1. UNCHANGED <<today, delivered, sub, request>>
    BY <1>2 DEF Throw, Die
  <2>2. CASE Return(p)
    BY <2>1, <2>2, ReturnClaim DEF OnHold
  <2>3. CASE Goto(p, "release")
    BY <2>1, <2>3, AfterGoto, ClaimFrame DEF In, Carries, OnHold
  <2>4. QED
    BY <1>2, <2>2, <2>3 DEF Throw, Die
<1>3. CASE NextDay
  <2>1. \A p \in Procs : call[p].phase = "idle" /\ call[p].day = 0
    BY <1>3 DEF NextDay, Calm, Idle, ShapeInv, Shape
  <2>2. UNCHANGED <<delivered, call>> /\ today' = today + 1 /\ today \in Nat
    BY <1>3, CalendarAssumption DEF NextDay, TypeInv, TypeOK
  <2>3. DeliveredDays' = DeliveredDays
    BY <2>2 DEF DeliveredDays
  <2>4. DeliveredDays' \subseteq 1..today' /\ today' \notin DeliveredDays'
    BY <2>2, <2>3 DEF ClaimInv
  <2>5. QED
    BY <2>1, <2>2, <2>3, <2>4 DEF ClaimInv, Claim, In
<1>4. CASE CancelWithRefund \/ UNCHANGED vars
  <2>1. /\ UNCHANGED <<today, call, delivered>> /\ sub'.claimed = sub.claimed
        /\ OnHold(today)' => OnHold(today)
    BY <1>4 DEF CancelWithRefund, vars, TypeInv, TypeOK, Rows, Requests, OnHold
  <2>2. DeliveredDays' = DeliveredDays
    BY <2>1 DEF DeliveredDays
  <2>3. \A p \in Procs : Claim(p)'
    BY <2>1 DEF ClaimInv, Claim, In
  <2>4. QED
    BY <2>1, <2>2, <2>3 DEF ClaimInv
<1>5. QED
  BY <1>1, <1>2, <1>3, <1>4 DEF Next

-----------------------------------------------------------------------------
\* A request is answered by one call, and what was held for it stays held
\* until that call has banked it.

Answer(p) ==
  /\ call[p].phase = "heldSkip" => call[p].req <= request.id
  /\ Answering(call[p]) =>
       /\ call[p].req <= request.id
       /\ request.status = "PENDING" => call[p].req # request.id
       /\ \A q \in Procs \ {p} : Answering(call[q]) => call[q].req # call[p].req
  /\ call[p].phase = "bankHeld" =>
       \A d \in call[p].found : <<d, call[p].req>> \in held

AnswerInv ==
  /\ IsFiniteSet(held)
  /\ \A h \in held : h[2] <= request.id
  /\ \A p \in Procs : Answer(p)

\* A step that neither holds, asks nor answers.
LEMMA AnswerFrame ==
  ASSUME AnswerInv, NEW p \in Procs, Others(p), held' = held,
         request'.id = request.id,
         request'.status = "PENDING" => request.status = "PENDING",
         call'[p].phase = "heldSkip" => call'[p].req <= request.id,
         Answering(call[p])' => Answering(call[p]) /\ call'[p].req = call[p].req,
         call'[p].phase = "bankHeld" =>
           \A d \in call'[p].found : <<d, call'[p].req>> \in held
  PROVE  AnswerInv'
<1>1. \A q \in Procs : Answering(call[q])' => Answering(call[q]) /\ call'[q].req = call[q].req
  BY DEF Others, Answering
<1>2. Answer(p)'
  BY <1>1 DEF AnswerInv, Answer
<1>3. \A q \in Procs \ {p} : Answer(q)'
  <2> SUFFICES ASSUME NEW q \in Procs \ {p} PROVE Answer(q)'
    OBVIOUS
  <2>1. call'[q] = call[q] /\ Answer(q)
    BY DEF Others, AnswerInv
  <2>2. QED
    BY <1>1, <2>1 DEF Answer
<1>4. QED
  BY <1>2, <1>3 DEF AnswerInv

\* A call that returns answers nothing.
LEMMA ReturnAnswer ==
  ASSUME TypeInv, AnswerInv, NEW p \in Procs, Return(p), held' = held,
         request'.id = request.id,
         request'.status = "PENDING" => request.status = "PENDING"
  PROVE  AnswerInv'
BY AfterReturn, AtRest, AnswerFrame DEF Answering

\* The answer closes the request, so nobody else is answering it,
LEMMA AnswerRequestAnswer ==
  ASSUME TypeInv, AnswerInv, NEW p \in Procs, AnswerRequest(p)
  PROVE  AnswerInv'
<1>1. /\ call'[p].phase = "findHeld" /\ call'[p].req = request.id /\ Others(p)
      /\ held' = held /\ request.status = "PENDING"
  BY AfterAnswerRequest DEF AnswerRequest
<1>2. request'.id = request.id /\ request'.status = "WITHDRAWN" /\ request.id \in Nat
  BY DEF AnswerRequest, TypeInv, TypeOK, Requests
<1>3. \A q \in Procs \ {p} : /\ call'[q] = call[q]
                             /\ Answering(call[q]) => call[q].req # request.id
  BY <1>1 DEF Others, AnswerInv, Answer
<1>4. Answer(p)'
  BY <1>1, <1>2, <1>3 DEF Answer, Answering
<1>5. \A q \in Procs \ {p} : Answer(q)'
  <2> SUFFICES ASSUME NEW q \in Procs \ {p} PROVE Answer(q)'
    OBVIOUS
  <2>1. Answer(q)
    BY DEF AnswerInv
  <2>2. QED
    BY <1>1, <1>2, <1>3, <2>1 DEF Answer, Answering
<1>6. QED
  BY <1>1, <1>2, <1>4, <1>5 DEF AnswerInv

\* a new one has an id of its own,
LEMMA AskAnswer ==
  ASSUME TypeInv, AnswerInv, NEW p \in Procs, CreateIfNonePending(p)
  PROVE  AnswerInv'
<1>1. Return(p) /\ held' = held
  BY DEF CreateIfNonePending
<1>2. CASE request.status = "PENDING"
  BY <1>1, <1>2, ReturnAnswer DEF CreateIfNonePending
<1>3. CASE request.status # "PENDING"
  <2>1. request.id \in Nat /\ request'.id = request.id + 1
    BY <1>3 DEF CreateIfNonePending, TypeInv, TypeOK, Requests
  <2>2. call'[p] = NoCall /\ Others(p)
    BY <1>1, AfterReturn
  <2>3. \A q \in Procs : call[q].req \in Nat
    BY DEF TypeInv, TypeOK, Calls
  <2>4. Answer(p)'
    BY <2>2, AtRest DEF Answer, Answering
  <2>5. \A q \in Procs \ {p} : Answer(q)'
    <3> SUFFICES ASSUME NEW q \in Procs \ {p} PROVE Answer(q)'
      OBVIOUS
    <3>1. call'[q] = call[q] /\ Answer(q) /\ call[q].req \in Nat
      BY <2>2, <2>3 DEF Others, AnswerInv
    <3>2. \A r \in Procs : Answering(call[r])' => call'[r] = call[r]
      BY <2>2, AtRest DEF Others, Answering
    <3>3. call[q].req <= request.id => call[q].req <= request'.id /\ call[q].req # request'.id
      BY <2>1, <3>1
    <3>4. QED
      BY <1>1, <3>1, <3>2, <3>3 DEF Answer, Answering
  <2>6. \A h \in held : h[2] <= request'.id
    <3>1. \A h \in held : h[2] \in Nat /\ h[2] <= request.id
      BY DEF TypeInv, TypeOK, AnswerInv
    <3>2. QED
      BY <2>1, <3>1
  <2>7. QED
    BY <1>1, <2>4, <2>5, <2>6 DEF AnswerInv
<1>4. QED
  BY <1>2, <1>3

\* a day held adds to what some request holds,
LEMMA HoldAnswer ==
  ASSUME TypeInv, AnswerInv, NEW p \in Procs, CreateHeldSkip(p)
  PROVE  AnswerInv'
<1>1. /\ call[p].phase = "heldSkip" /\ request' = request
      /\ held' = held \cup {<<call[p].day, call[p].req>>}
      /\ call'[p] = NoCall /\ Others(p)
  BY AfterReturn DEF CreateHeldSkip, In
<1>2. IsFiniteSet(held')
  BY <1>1, FS_AddElement DEF AnswerInv
<1>3. \A h \in held' : h[2] <= request.id
  BY <1>1 DEF AnswerInv, Answer
<1>4. Answer(p)'
  BY <1>1, AtRest DEF Answer, Answering
<1>5. \A q \in Procs \ {p} : Answer(q)'
  <2> SUFFICES ASSUME NEW q \in Procs \ {p} PROVE Answer(q)'
    OBVIOUS
  <2>1. call'[q] = call[q] /\ Answer(q)
    BY <1>1 DEF Others, AnswerInv
  <2>2. \A r \in Procs : Answering(call[r])' => call'[r] = call[r]
    BY <1>1, AtRest DEF Others, Answering
  <2>3. QED
    BY <1>1, <2>1, <2>2 DEF Answer, Answering
<1>6. QED
  BY <1>1, <1>2, <1>3, <1>4, <1>5 DEF AnswerInv

\* and what is marked as banked was held for the request of this call alone.
LEMMA MarkAnswer ==
  ASSUME TypeInv, AnswerInv, NEW p \in Procs, MarkHeldSkipsBanked(p)
  PROVE  AnswerInv'
<1>1. /\ call[p].phase = "mark" /\ request' = request
      /\ held' = held \ {<<d, call[p].req>> : d \in call[p].found}
  BY DEF MarkHeldSkipsBanked, In
<1>2. Others(p) /\ call'[p].phase \in {"reactivate", "idle"}
  BY AfterGoto, AfterReturn, AtRest DEF MarkHeldSkipsBanked
<1>3. IsFiniteSet(held')
  BY <1>1, FS_Difference DEF AnswerInv
<1>4. \A h \in held' : h[2] <= request.id
  BY <1>1 DEF AnswerInv
<1>5. Answer(p)'
  BY <1>2 DEF Answer, Answering
<1>6. \A q \in Procs \ {p} : Answer(q)'
  <2> SUFFICES ASSUME NEW q \in Procs \ {p} PROVE Answer(q)'
    OBVIOUS
  <2>1. call'[q] = call[q] /\ Answer(q)
    BY <1>2 DEF Others, AnswerInv
  <2>2. \A r \in Procs : Answering(call[r])' => call'[r] = call[r]
    BY <1>2 DEF Others, Answering
  <2>3. call[q].phase = "bankHeld" => call[q].req # call[p].req
    BY <1>1 DEF AnswerInv, Answer, Answering
  <2>4. \A d : call[q].req # call[p].req /\ <<d, call[q].req>> \in held
                 => <<d, call[q].req>> \in held'
    BY <1>1
  <2>5. QED
    BY <1>1, <2>1, <2>2, <2>3, <2>4 DEF Answer, Answering
<1>7. QED
  BY <1>1, <1>3, <1>4, <1>5, <1>6 DEF AnswerInv

\* Starting keeps requests answered by one call each,
LEMMA StartAnswer ==
  ASSUME TypeInv, AnswerInv, NEW p \in Procs, Start(p)
  PROVE  AnswerInv'
<1> USE DEF rows, bounds
<1>1. CASE AnswerRequest(p)
  BY <1>1, AnswerRequestAnswer
<1>2. CASE ~AnswerRequest(p)
  <2>1. UNCHANGED <<held, request>>
    BY <1>2 DEF Start, StartMaterialize, StartPause, StartDisruption, StartRequest
  <2>2. /\ Others(p)
        /\ call'[p].phase \in {"materialize", "calendar", "skip", "request"}
    BY <1>2, AfterStartMaterialize, AfterStartPause, AfterStartDisruption,
       AfterStartRequest DEF Start
  <2>3. QED
    BY <2>1, <2>2, AnswerFrame DEF Answering
<1>3. QED
  BY <1>1, <1>2

\* continuing does,
LEMMA ContinueAnswer ==
  ASSUME TypeInv, AnswerInv, NEW p \in Procs, Continue(p)
  PROVE  AnswerInv'
<1> USE DEF rows, bounds
<1>1. CASE NotDue(p) \/ ExpireSubscription(p) \/ ExtendCycleEnd(p)
           \/ AdvanceSubscriptionDay(p) \/ ReleaseMaterializationDate(p)
           \/ ReactivateSubscription(p)
  <2>1. Return(p) /\ UNCHANGED <<held, request>>
    BY <1>1 DEF NotDue, ExpireSubscription, ExtendCycleEnd,
       AdvanceSubscriptionDay, ReleaseMaterializationDate, ReactivateSubscription
  <2>2. QED
    BY <2>1, ReturnAnswer
<1>2. CASE CreateIfNonePending(p)
  BY <1>2, AskAnswer
<1>3. CASE CreateHeldSkip(p)
  BY <1>3, HoldAnswer
<1>4. CASE MarkHeldSkipsBanked(p)
  BY <1>4, MarkAnswer
<1>5. CASE ClaimDay(p)
  BY <1>5, AfterClaimDay, AtRest, AnswerFrame DEF ClaimDay, Answering
<1>6. CASE LookupSkip(p)
  BY <1>6, AfterLookupSkip, AtRest, AnswerFrame DEF LookupSkip, Answering
<1>7. CASE LookupHold(p)
  <2>1. UNCHANGED <<held, request>> /\ request.id <= request.id
    BY <1>7 DEF LookupHold, TypeInv, TypeOK, Requests
  <2>2. QED
    BY <1>7, <2>1, AfterLookupHold, AnswerFrame DEF Answering
<1>8. CASE CreateOrder(p)
  BY <1>8, AfterGoto, AnswerFrame DEF CreateOrder, Answering
<1>9. CASE CreateSkip(p)
  BY <1>9, AfterGoto, AnswerFrame DEF CreateSkip, Answering
<1>10. CASE BuildDeliveryCalendar(p)
  BY <1>10, AfterCalendar, AtRest, AnswerFrame DEF BuildDeliveryCalendar, Answering
<1>11. CASE FindUnbankedHeldSkips(p)
  BY <1>11, AfterFindHeld, AtRest, AnswerFrame DEF FindUnbankedHeldSkips, Answering
<1>12. CASE BankHeldDays(p)
  BY <1>12, AfterGoto, AnswerFrame DEF BankHeldDays, In, Carries, Answering
<1>13. QED
  BY <1>1, <1>2, <1>3, <1>4, <1>5, <1>6, <1>7, <1>8, <1>9, <1>10, <1>11, <1>12
     DEF Continue

\* and every step does.
LEMMA AnswerInvStep == TypeInv /\ AnswerInv /\ [Next]_vars => AnswerInv'
<1> USE DEF rows, bounds
<1> SUFFICES ASSUME TypeInv, AnswerInv, [Next]_vars PROVE AnswerInv'
  OBVIOUS
<1>1. ASSUME NEW p \in Procs, Start(p) \/ Continue(p) PROVE AnswerInv'
  BY <1>1, StartAnswer, ContinueAnswer
<1>2. ASSUME NEW p \in Procs, Throw(p) \/ Die(p) PROVE AnswerInv'
  <2>1. UNCHANGED <<held, request>>
    BY <1>2 DEF Throw, Die
  <2>2. CASE Return(p)
    BY <2>1, <2>2, ReturnAnswer
  <2>3. CASE Goto(p, "release")
    BY <2>1, <2>3, AfterGoto, AnswerFrame DEF Answering
  <2>4. QED
    BY <1>2, <2>2, <2>3 DEF Throw, Die
<1>3. CASE NextDay \/ CancelWithRefund \/ UNCHANGED vars
  <2>1. /\ UNCHANGED <<held, call>> /\ request'.id = request.id
        /\ request'.status = "PENDING" => request.status = "PENDING"
    BY <1>3 DEF NextDay, CancelWithRefund, vars, TypeInv, TypeOK, Requests
  <2>2. QED
    BY <2>1 DEF AnswerInv, Answer, Answering
<1>4. QED
  BY <1>1, <1>2, <1>3 DEF Next

-----------------------------------------------------------------------------
\* The bound. Reserved(E) is what is promised if the plan ends on day E: the
\* days to come, those delivered, and those on their way. It fits in the room
\* the plan, the disruptions and what is held leave, not only for the row's
\* cycleEnd but for every older one a call has read and may still start from:
\* so whatever a call writes over another's credit, no day is promised twice.

WorkDays == {d \in Days : \E p \in Procs : OnTheWay(call[p]) /\ call[p].day = d}
Reserved(E) == ((1..E) \ skipped) \cup DeliveredDays \cup WorkDays
Granting == {p \in Procs : Disruption(call[p])}
Room == Duration + disrupted - Cardinality(ToBank) - Cardinality(Granting)

Reading(c) == \/ c.phase \in {"materialize", "lookup", "calendar", "bankHeld"}
              \/ Disruption(c)
Fits(E) == Cardinality(Reserved(E)) <= Room
FitsWith(E, from, to, n) ==
  Cardinality(Reserved(E) \ (from..to)) + n <= Room
CreditFits(c) == FitsWith(c.saw.cycleEnd, c.from, c.to, c.n)

BoundInv ==
  /\ Fits(sub.cycleEnd)
  /\ \A p \in Procs : /\ Reading(call[p]) => Fits(call[p].saw.cycleEnd)
                      /\ Crediting(call[p]) => CreditFits(call[p])

\* A subset of a finite set is finite and no larger.
LEMMA SmallerCounts ==
  ASSUME NEW S, IsFiniteSet(S), NEW T, T \subseteq S
  PROVE  /\ IsFiniteSet(T)
         /\ Cardinality(T) \in Nat /\ Cardinality(S) \in Nat
         /\ Cardinality(T) <= Cardinality(S)
BY FS_Subset, FS_CardinalityType

Counted ==
  /\ \A E \in Nat : IsFiniteSet(Reserved(E)) /\ Cardinality(Reserved(E)) \in Nat
  /\ IsFiniteSet(ToBank) /\ Cardinality(ToBank) \in Nat
  /\ IsFiniteSet(Granting) /\ Cardinality(Granting) \in Nat
  /\ Room \in Int

\* Everything the bound counts is finite.
LEMMA BoundCounts == TypeInv /\ AnswerInv => Counted
<1> SUFFICES ASSUME TypeInv, AnswerInv PROVE Counted
  OBVIOUS
<1>1. \A E \in Nat : IsFiniteSet(Reserved(E)) /\ Cardinality(Reserved(E)) \in Nat
  <2> SUFFICES ASSUME NEW E \in Nat
               PROVE  IsFiniteSet(Reserved(E)) /\ Cardinality(Reserved(E)) \in Nat
    OBVIOUS
  <2>1. IsFiniteSet(1..E) /\ IsFiniteSet(Days)
    BY CalendarAssumption, FS_Interval DEF Days
  <2>2. IsFiniteSet((1..E) \cup Days)
    BY <2>1, FS_Union
  <2>3. Reserved(E) \subseteq (1..E) \cup Days
    BY DEF Reserved, DeliveredDays, WorkDays
  <2>4. QED
    BY <2>2, <2>3, SmallerCounts
<1>2. IsFiniteSet(ToBank) /\ Cardinality(ToBank) \in Nat
  <2>1. ToBank \subseteq held /\ IsFiniteSet(held)
    BY DEF ToBank, AnswerInv
  <2>2. QED
    BY <2>1, SmallerCounts
<1>3. IsFiniteSet(Granting) /\ Cardinality(Granting) \in Nat
  <2>1. Granting \subseteq Procs
    BY DEF Granting
  <2>2. QED
    BY <2>1, ProcsAssumption, SmallerCounts
<1>4. Room \in Int
  <2>1. disrupted \in Nat /\ Duration \in Nat
    BY CalendarAssumption DEF TypeInv, TypeOK
  <2>2. QED
    BY <1>2, <1>3, <2>1 DEF Room
<1>5. QED
  BY <1>1, <1>2, <1>3, <1>4 DEF Counted

\* So it is after a step.
LEMMA BoundCountsNext == (TypeInv /\ AnswerInv => Counted)'
BY BoundCounts, PTL

\* How room changes with what it is counted from.
LEMMA RoomBalance ==
  \A a, d, b, g, d2, b2, g2 \in Nat :
    /\ b2 + g2 + d <= b + g + d2 => a + d2 - b2 - g2 >= a + d - b - g
    /\ b2 + g2 + d + 1 <= b + g + d2 => a + d2 - b2 - g2 >= a + d - b - g + 1
OBVIOUS

\* Room does not shrink unless more is held, or granted before it is declared.
LEMMA RoomKeeps ==
  ASSUME TypeInv, TypeInv', AnswerInv, AnswerInv', disrupted' = disrupted,
         ToBank' \subseteq ToBank, Granting' \subseteq Granting
  PROVE  Room' >= Room
<1>1. /\ IsFiniteSet(ToBank) /\ IsFiniteSet(Granting)
      /\ Cardinality(ToBank) \in Nat /\ Cardinality(ToBank)' \in Nat
      /\ Cardinality(Granting) \in Nat /\ Cardinality(Granting)' \in Nat
  BY BoundCounts, BoundCountsNext DEF Counted
<1>2. /\ Cardinality(ToBank)' <= Cardinality(ToBank)
      /\ Cardinality(Granting)' <= Cardinality(Granting)
  BY <1>1, SmallerCounts
<1>3. disrupted \in Nat /\ disrupted' \in Nat /\ Duration \in Nat
  BY CalendarAssumption DEF TypeInv, TypeOK
<1> DEFINE b == Cardinality(ToBank)
           g == Cardinality(Granting)
           b2 == Cardinality(ToBank)'
           g2 == Cardinality(Granting)'
<1>4. /\ Room = Duration + disrupted - b - g
      /\ Room' = Duration + disrupted' - b2 - g2
  BY DEF Room
<1>5. b2 + g2 + disrupted <= b + g + disrupted'
  <2>1. b \in Nat /\ g \in Nat /\ b2 \in Nat /\ g2 \in Nat /\ b2 <= b /\ g2 <= g
    BY <1>1, <1>2
  <2> HIDE DEF b, g, b2, g2
  <2>2. QED
    BY <1>3, <2>1
<1>6. b \in Nat /\ g \in Nat /\ b2 \in Nat /\ g2 \in Nat
  BY <1>1
<1> HIDE DEF b, g, b2, g2
<1>7. QED
  BY <1>3, <1>4, <1>5, <1>6, RoomBalance

\* What fits still does when fewer days are promised and room does not shrink.
LEMMA FitsKeeps ==
  ASSUME TypeInv, TypeInv', AnswerInv, AnswerInv', Room' >= Room,
         NEW E \in Nat, Reserved(E)' \subseteq Reserved(E)
  PROVE  /\ Fits(E) => Fits(E)'
         /\ \A from, to, n \in Nat :
              FitsWith(E, from, to, n) => FitsWith(E, from, to, n)'
<1> DEFINE S == Reserved(E)
           T == Reserved(E)'
<1>1. IsFiniteSet(S) /\ Room \in Int /\ Room' \in Int
  BY BoundCounts, BoundCountsNext DEF Counted
<1>2. \A X : Cardinality(T \ X) \in Nat /\ Cardinality(S \ X) \in Nat
             /\ Cardinality(T \ X) <= Cardinality(S \ X)
  <2> SUFFICES ASSUME NEW X
               PROVE  Cardinality(T \ X) \in Nat /\ Cardinality(S \ X) \in Nat
                      /\ Cardinality(T \ X) <= Cardinality(S \ X)
    OBVIOUS
  <2>1. T \ X \subseteq S \ X
    OBVIOUS
  <2>2. IsFiniteSet(S \ X)
    BY <1>1, FS_Difference
  <2> HIDE DEF S, T
  <2>3. QED
    BY <2>1, <2>2, SmallerCounts
<1>3. /\ Cardinality(T) \in Nat /\ Cardinality(S) \in Nat
      /\ Cardinality(T) <= Cardinality(S)
  BY <1>1, SmallerCounts
<1>4. Fits(E) => Fits(E)'
  <2>1. (Fits(E) <=> Cardinality(S) <= Room) /\ (Fits(E)' <=> Cardinality(T) <= Room')
    BY DEF Fits
  <2> HIDE DEF S, T
  <2>2. QED
    BY <1>1, <1>3, <2>1
<1>5. ASSUME NEW from \in Nat, NEW to \in Nat, NEW n \in Nat
      PROVE  FitsWith(E, from, to, n) => FitsWith(E, from, to, n)'
  <2> DEFINE s == Cardinality(S \ (from..to))
             t == Cardinality(T \ (from..to))
  <2>1. /\ FitsWith(E, from, to, n) <=> s + n <= Room
        /\ FitsWith(E, from, to, n)' <=> t + n <= Room'
    BY DEF FitsWith
  <2>2. s \in Nat /\ t \in Nat /\ t <= s
    BY <1>2
  <2> HIDE DEF s, t
  <2>3. QED
    BY <1>1, <2>1, <2>2
<1>6. QED
  BY <1>4, <1>5

\* A step that keeps what fits.
LEMMA BoundSplit ==
  ASSUME TypeInv, BoundInv, NEW p \in Procs, Others(p),
         sub'.cycleEnd = sub.cycleEnd \/ Fits(sub.cycleEnd)',
         \A E \in Nat : Fits(E) => Fits(E)',
         Reading(call[p])' =>
           \/ call'[p].saw.cycleEnd = sub.cycleEnd
           \/ Reading(call[p]) /\ call'[p].saw = call[p].saw,
         Crediting(call[p])' => CreditFits(call[p])',
         \A q \in Procs \ {p} : Crediting(call[q]) => CreditFits(call[q])'
  PROVE  BoundInv'
<1>1. /\ sub.cycleEnd \in Nat
      /\ \A q \in Procs : call[q].saw.cycleEnd \in Nat
  BY DEF TypeInv, TypeOK, Rows, Calls
<1>2. Fits(sub.cycleEnd)'
  <2>1. CASE sub'.cycleEnd = sub.cycleEnd
    <3>1. PICK E \in Nat : E = sub.cycleEnd
      BY <1>1
    <3>2. Fits(E)'
      BY <3>1 DEF BoundInv
    <3>3. QED
      BY <2>1, <3>1, <3>2 DEF Fits, Reserved
  <2>2. QED
    BY <2>1
<1>3. ASSUME NEW q \in Procs, Reading(call[q])' PROVE Fits(call[q].saw.cycleEnd)'
  <2>1. \/ call'[q].saw.cycleEnd = sub.cycleEnd
        \/ Reading(call[q]) /\ call'[q].saw = call[q].saw
    BY <1>3 DEF Others, Reading, Disruption
  <2>2. PICK E \in Nat : E = call'[q].saw.cycleEnd /\ Fits(E)
    BY <1>1, <2>1 DEF BoundInv
  <2>3. Fits(E)'
    BY <2>2
  <2>4. QED
    BY <2>2, <2>3 DEF Fits, Reserved
<1>4. ASSUME NEW q \in Procs, Crediting(call[q])' PROVE CreditFits(call[q])'
  BY <1>4 DEF Others, Crediting, Disruption
<1>5. QED
  BY <1>2, <1>3, <1>4 DEF BoundInv

\* A credit that fits still does, when nothing was added to what it may use.
LEMMA CreditKeeps ==
  ASSUME TypeInv, TypeInv', AnswerInv, AnswerInv', Room' >= Room,
         NEW q \in Procs, CreditFits(call[q]),
         Reserved(call[q].saw.cycleEnd)' \subseteq Reserved(call[q].saw.cycleEnd),
         call'[q].saw = call[q].saw, call'[q].n = call[q].n,
         call'[q].from = call[q].from, call'[q].to = call[q].to
  PROVE  CreditFits(call[q])'
<1>1. /\ call[q].saw.cycleEnd \in Nat /\ call[q].n \in Nat
      /\ call[q].from \in Nat /\ call[q].to \in Nat
  BY DEF TypeInv, TypeOK, Rows, Calls
<1>2. PICK E \in Nat : E = call[q].saw.cycleEnd
  BY <1>1
<1>3. PICK n \in Nat : n = call[q].n
  BY <1>1
<1>4. PICK from \in Nat : from = call[q].from
  BY <1>1
<1>5. PICK to \in Nat : to = call[q].to
  BY <1>1
<1>6. FitsWith(E, from, to, n)
  BY <1>2, <1>3, <1>4, <1>5 DEF CreditFits
<1>7. Reserved(E)' \subseteq Reserved(E)
  BY <1>2 DEF Reserved
<1>8. FitsWith(E, from, to, n)'
  BY <1>6, <1>7, FitsKeeps
<1>9. QED
  BY <1>2, <1>3, <1>4, <1>5, <1>8 DEF CreditFits, FitsWith, Reserved

\* A step that promises no more days, in no less room.
LEMMA BoundMove ==
  ASSUME TypeInv, TypeInv', AnswerInv, AnswerInv', BoundInv,
         NEW p \in Procs, Others(p),
         sub'.cycleEnd = sub.cycleEnd \/ Fits(sub.cycleEnd)',
         \A E \in Nat : Reserved(E)' \subseteq Reserved(E), Room' >= Room,
         Reading(call[p])' =>
           \/ call'[p].saw.cycleEnd = sub.cycleEnd
           \/ Reading(call[p]) /\ call'[p].saw = call[p].saw,
         Crediting(call[p])' =>
           \/ CreditFits(call[p])'
           \/ /\ Crediting(call[p]) /\ call'[p].saw = call[p].saw
              /\ call'[p].from = call[p].from /\ call'[p].to = call[p].to
              /\ call'[p].n = call[p].n
  PROVE  BoundInv'
<1>1. \A E \in Nat : Fits(E) => Fits(E)'
  BY FitsKeeps
<1>2. ASSUME NEW q \in Procs, Crediting(call[q]), call'[q].saw = call[q].saw,
             call'[q].from = call[q].from, call'[q].to = call[q].to,
             call'[q].n = call[q].n
      PROVE  CreditFits(call[q])'
  <2>1. CreditFits(call[q])
    BY <1>2 DEF BoundInv
  <2>2. PICK E \in Nat : E = call[q].saw.cycleEnd
    BY DEF TypeInv, TypeOK, Rows, Calls
  <2>3. Reserved(E)' \subseteq Reserved(E)
    OBVIOUS
  <2>4. Reserved(call[q].saw.cycleEnd)' \subseteq Reserved(call[q].saw.cycleEnd)
    BY <1>2, <2>2, <2>3 DEF Reserved
  <2>5. QED
    BY <1>2, <2>1, <2>4, CreditKeeps
<1>3. \A q \in Procs \ {p} : Crediting(call[q]) => CreditFits(call[q])'
  BY <1>2 DEF Others
<1>4. Crediting(call[p])' => CreditFits(call[p])'
  BY <1>2
<1>5. QED
  BY <1>1, <1>3, <1>4, BoundSplit

\* A step that delivers nothing and sets no day out promises no more,
LEMMA ReservedKeeps ==
  ASSUME skipped \subseteq skipped', delivered' = delivered,
         NEW p \in Procs, Others(p),
         OnTheWay(call[p])' => OnTheWay(call[p]) /\ call'[p].day = call[p].day
  PROVE  \A E \in Nat : Reserved(E)' \subseteq Reserved(E)
<1>1. DeliveredDays' = DeliveredDays
  BY DEF DeliveredDays
<1>2. WorkDays' \subseteq WorkDays
  BY DEF WorkDays, Others, OnTheWay
<1>3. QED
  BY <1>1, <1>2 DEF Reserved

\* A call that has still to bank what was held.
Banking(c) == c.phase \in {"findHeld", "bankHeld"}

\* one that holds nothing leaves no more to be banked,
LEMMA ToBankKeeps ==
  ASSUME held' \subseteq held, NEW p \in Procs, Others(p),
         request'.status = "PENDING" =>
           request.status = "PENDING" /\ request'.id = request.id,
         Banking(call[p])' => Banking(call[p]) /\ call'[p].req = call[p].req
  PROVE  ToBank' \subseteq ToBank
BY DEF ToBank, Others, Banking

\* and one that declares nothing grants no more.
LEMMA GrantingKeeps ==
  ASSUME NEW p \in Procs, Others(p), Disruption(call[p])' => Disruption(call[p])
  PROVE  Granting' \subseteq Granting
BY DEF Granting, Others, Disruption

\* The common case of a step that promises nothing.
LEMMA BoundQuiet ==
  ASSUME TypeInv, TypeInv', AnswerInv, AnswerInv', BoundInv,
         NEW p \in Procs, Others(p), sub'.cycleEnd = sub.cycleEnd,
         skipped \subseteq skipped', delivered' = delivered,
         disrupted' = disrupted, held' \subseteq held,
         request'.status = "PENDING" =>
           request.status = "PENDING" /\ request'.id = request.id,
         OnTheWay(call[p])' => OnTheWay(call[p]) /\ call'[p].day = call[p].day,
         Disruption(call[p])' => Disruption(call[p]),
         Banking(call[p])' => Banking(call[p]) /\ call'[p].req = call[p].req,
         Reading(call[p])' =>
           \/ call'[p].saw.cycleEnd = sub.cycleEnd
           \/ Reading(call[p]) /\ call'[p].saw = call[p].saw,
         Crediting(call[p])' =>
           /\ Crediting(call[p]) /\ call'[p].saw = call[p].saw
           /\ call'[p].from = call[p].from /\ call'[p].to = call[p].to
           /\ call'[p].n = call[p].n
  PROVE  BoundInv'
BY ReservedKeeps, ToBankKeeps, GrantingKeeps, RoomKeeps, BoundMove

\* A call that returns promises nothing.
LEMMA ReturnBound ==
  ASSUME TypeInv, TypeInv', AnswerInv, AnswerInv', BoundInv,
         NEW p \in Procs, Return(p), sub'.cycleEnd = sub.cycleEnd,
         skipped \subseteq skipped', delivered' = delivered,
         disrupted' = disrupted, held' \subseteq held,
         request'.status = "PENDING" =>
           request.status = "PENDING" /\ request'.id = request.id
  PROVE  BoundInv'
<1>1. call'[p].phase = "idle" /\ Others(p)
  BY AfterReturn, AtRest
<1>2. /\ ~OnTheWay(call[p])' /\ ~Disruption(call[p])' /\ ~Banking(call[p])'
      /\ ~Reading(call[p])' /\ ~Crediting(call[p])'
  BY <1>1 DEF OnTheWay, Disruption, Banking, Reading, Crediting
<1>3. QED
  BY <1>1, <1>2, BoundQuiet

\* Room is lost and won day by day.
LEMMA RoomChange ==
  ASSUME TypeInv, TypeInv', AnswerInv, AnswerInv', NEW k \in Int,
         Cardinality(ToBank)' + Cardinality(Granting)' + disrupted + k
           <= Cardinality(ToBank) + Cardinality(Granting) + disrupted'
  PROVE  Room' >= Room + k
<1> DEFINE b == Cardinality(ToBank)
           g == Cardinality(Granting)
           b2 == Cardinality(ToBank)'
           g2 == Cardinality(Granting)'
<1>1. b \in Nat /\ g \in Nat /\ b2 \in Nat /\ g2 \in Nat
  BY BoundCounts, BoundCountsNext DEF Counted
<1>2. disrupted \in Nat /\ disrupted' \in Nat /\ Duration \in Nat
  BY CalendarAssumption DEF TypeInv, TypeOK
<1>3. /\ Room = Duration + disrupted - b - g
      /\ Room' = Duration + disrupted' - b2 - g2
      /\ b2 + g2 + disrupted + k <= b + g + disrupted'
  BY DEF Room
<1> HIDE DEF b, g, b2, g2
<1>4. \A a, d, d2, w, x, y, z \in Nat :
        y + z + d + k <= w + x + d2 => a + d2 - y - z >= (a + d - w - x) + k
  OBVIOUS
<1>5. QED
  BY <1>1, <1>2, <1>3, <1>4

\* A declared disruption brings the day it grants.
LEMMA StartDisruptionBound ==
  ASSUME TypeInv, TypeInv', AnswerInv, AnswerInv', BoundInv,
         NEW p \in Procs, NEW d \in Days, StartDisruption(p, d)
  PROVE  BoundInv'
<1>1. /\ call[p].phase = "idle" /\ Others(p)
      /\ call'[p].phase = "skip" /\ call'[p].day = 0 /\ call'[p].after = 0
      /\ call'[p].saw = sub
  BY AfterStartDisruption
<1>2. /\ disrupted' = disrupted + 1
      /\ UNCHANGED <<today, sub, skipped, held, request, delivered>>
  BY DEF StartDisruption
<1>3. /\ ~OnTheWay(call[p])' /\ ~Banking(call[p])' /\ ~Crediting(call[p])'
      /\ Disruption(call[p])' /\ ~Disruption(call[p])
  BY <1>1 DEF OnTheWay, Banking, Crediting, Disruption
<1>4. \A E \in Nat : Reserved(E)' \subseteq Reserved(E)
  BY <1>1, <1>2, <1>3, ReservedKeeps
<1>5. ToBank' \subseteq ToBank
  BY <1>1, <1>2, <1>3, ToBankKeeps
<1>6. Granting' = Granting \cup {p}
  BY <1>1, <1>3 DEF Granting, Others, Disruption
<1>7. Room' >= Room
  <2> DEFINE b == Cardinality(ToBank)
             g == Cardinality(Granting)
             b2 == Cardinality(ToBank)'
             g2 == Cardinality(Granting)'
  <2>1. /\ IsFiniteSet(ToBank) /\ IsFiniteSet(Granting) /\ Room \in Int /\ Room' \in Int
        /\ b \in Nat /\ g \in Nat /\ b2 \in Nat /\ g2 \in Nat
    BY BoundCounts, BoundCountsNext DEF Counted
  <2>2. b2 <= b
    BY <1>5, <2>1, SmallerCounts
  <2>3. g2 <= g + 1
    <3>1. g2 = IF p \in Granting THEN g ELSE g + 1
      BY <1>6, <2>1, FS_AddElement
    <3> HIDE DEF g, g2
    <3>2. QED
      BY <2>1, <3>1
  <2>4. disrupted \in Nat
    BY DEF TypeInv, TypeOK
  <2>5. b2 + g2 + disrupted + 0 <= b + g + disrupted'
    <3> HIDE DEF b, g, b2, g2
    <3>1. QED
      BY <1>2, <2>1, <2>2, <2>3, <2>4
  <2>6. Room' >= Room + 0
    BY <2>5, RoomChange
  <2>7. QED
    BY <2>1, <2>6
<1>8. QED
  BY <1>1, <1>2, <1>3, <1>4, <1>7, BoundMove

\* What the request held is held for the call that answers it.
LEMMA AnswerRequestBound ==
  ASSUME TypeInv, TypeInv', AnswerInv, AnswerInv', BoundInv,
         NEW p \in Procs, AnswerRequest(p)
  PROVE  BoundInv'
<1>1. /\ call[p].phase = "idle" /\ call'[p].phase = "findHeld"
      /\ call'[p].req = request.id /\ Others(p)
      /\ request.status = "PENDING"
      /\ UNCHANGED <<sub, skipped, held, delivered, disrupted>>
  BY AfterAnswerRequest DEF AnswerRequest
<1>2. request'.status = "WITHDRAWN"
  BY DEF AnswerRequest, TypeInv, TypeOK, Requests
<1>3. /\ ~OnTheWay(call[p])' /\ ~Reading(call[p])' /\ ~Crediting(call[p])'
      /\ ~Disruption(call[p])'
  BY <1>1 DEF OnTheWay, Reading, Crediting, Disruption
<1>4. ToBank' \subseteq ToBank
  BY <1>1, <1>2 DEF ToBank, Others
<1>5. QED
  BY <1>1, <1>3, <1>4, ReservedKeeps, GrantingKeeps, RoomKeeps, BoundMove

\* A new request holds nothing yet.
LEMMA AskBound ==
  ASSUME TypeInv, TypeInv', AnswerInv, AnswerInv', BoundInv,
         NEW p \in Procs, CreateIfNonePending(p)
  PROVE  BoundInv'
<1>1. /\ call'[p].phase = "idle" /\ Others(p)
      /\ UNCHANGED <<sub, skipped, held, delivered, disrupted>>
  BY AfterReturn, AtRest DEF CreateIfNonePending
<1>2. /\ ~OnTheWay(call[p])' /\ ~Reading(call[p])' /\ ~Crediting(call[p])'
      /\ ~Disruption(call[p])' /\ ~Banking(call[p])'
  BY <1>1 DEF OnTheWay, Reading, Crediting, Disruption, Banking
<1>3. request' = request
      \/ request'.id = request.id + 1
  <2>1. CASE request.status = "PENDING"
    BY <2>1 DEF CreateIfNonePending
  <2>2. CASE request.status # "PENDING"
    BY <2>2 DEF CreateIfNonePending
  <2>3. QED
    BY <2>1, <2>2
<1>4. ToBank' \subseteq ToBank
  <2>1. CASE request' = request
    BY <1>1, <1>2, <2>1, ToBankKeeps
  <2>2. CASE request'.id = request.id + 1
    <3>1. \A h \in held : h[2] # request'.id
      <4>1. request.id \in Nat
        BY DEF TypeInv, TypeOK, Requests
      <4>2. \A h \in held : h[2] \in Nat /\ h[2] <= request.id
        BY DEF TypeInv, TypeOK, AnswerInv
      <4>3. QED
        BY <2>2, <4>1, <4>2
    <3>2. QED
      BY <1>1, <1>2, <3>1 DEF ToBank, Others, Banking
  <2>3. QED
    BY <1>3, <2>1, <2>2
<1>5. QED
  BY <1>1, <1>2, <1>4, ReservedKeeps, GrantingKeeps, RoomKeeps, BoundMove

\* The day on its way is the day delivered.
LEMMA CreateOrderBound ==
  ASSUME TypeInv, TypeInv', AnswerInv, AnswerInv', BoundInv,
         NEW p \in Procs, CreateOrder(p)
  PROVE  BoundInv'
<1>1. /\ call[p].phase = "order" /\ call'[p].phase = "advance" /\ Others(p)
      /\ UNCHANGED <<sub, skipped, held, request, disrupted>>
  BY AfterGoto DEF CreateOrder, In
<1>2. /\ ~OnTheWay(call[p])' /\ ~Reading(call[p])' /\ ~Crediting(call[p])'
      /\ ~Disruption(call[p])' /\ ~Banking(call[p])' /\ OnTheWay(call[p])
  BY <1>1 DEF OnTheWay, Reading, Crediting, Disruption, Banking
<1>3. call[p].day \in Days
  BY <1>1, CalendarAssumption DEF TypeInv, TypeOK, SlotsOK, Calls, HasDay, Days
<1>4. DeliveredDays' = DeliveredDays \cup {call[p].day}
  BY <1>3 DEF CreateOrder, DeliveredDays, TypeInv, TypeOK
<1>5. call[p].day \in WorkDays
  BY <1>2, <1>3 DEF WorkDays
<1>6. WorkDays' \subseteq WorkDays
  BY <1>1, <1>2 DEF WorkDays, Others, OnTheWay
<1>7. \A E \in Nat : Reserved(E)' \subseteq Reserved(E)
  BY <1>1, <1>4, <1>5, <1>6 DEF Reserved
<1>8. QED
  BY <1>1, <1>2, <1>7, ToBankKeeps, GrantingKeeps, RoomKeeps, BoundMove

\* A set of promised days inside a gap pays for a credit as large.
LEMMA GapPays ==
  ASSUME TypeInv, AnswerInv, NEW E \in Nat, NEW from \in Nat, NEW to \in Nat,
         NEW T, T \subseteq Reserved(E), T \subseteq from..to, Fits(E)
  PROVE  FitsWith(E, from, to, Cardinality(T))
<1> DEFINE S == Reserved(E)
           I == from..to
<1>1. IsFiniteSet(S) /\ Cardinality(S) \in Nat /\ Room \in Int
  BY BoundCounts DEF Counted
<1>2. Cardinality(S \ I) = Cardinality(S) - Cardinality(S \cap I)
  BY <1>1, FS_Difference
<1>3. /\ IsFiniteSet(S \cap I) /\ Cardinality(S \cap I) \in Nat
      /\ T \subseteq S \cap I
  BY <1>1, FS_Intersection, FS_CardinalityType
<1>4. Cardinality(T) \in Nat /\ Cardinality(T) <= Cardinality(S \cap I)
  BY <1>3, SmallerCounts
<1>5. Cardinality(S) <= Room
  BY DEF Fits
<1> HIDE DEF S, I
<1>6. Cardinality(S \ I) + Cardinality(T) <= Room
  BY <1>1, <1>2, <1>3, <1>4, <1>5
<1>7. QED
  BY <1>6 DEF FitsWith, S, I

\* A call that gets as far as writing its skip row.
LEMMA CreditStarts ==
  ASSUME TypeInv, TypeInv', AnswerInv, AnswerInv', Room' >= Room,
         \A E \in Nat : Reserved(E)' \subseteq Reserved(E), NEW p \in Procs,
         FitsWith(call[p].saw.cycleEnd, call'[p].from, call'[p].to, call'[p].n),
         call'[p].saw = call[p].saw
  PROVE  CreditFits(call[p])'
<1>1. /\ call[p].saw.cycleEnd \in Nat /\ call'[p].n \in Nat
      /\ call'[p].from \in Nat /\ call'[p].to \in Nat
  BY DEF TypeInv, TypeOK, Rows, Calls
<1>2. PICK E \in Nat : E = call[p].saw.cycleEnd
  BY <1>1
<1>3. PICK n \in Nat : n = call'[p].n
  BY <1>1
<1>4. PICK from \in Nat : from = call'[p].from
  BY <1>1
<1>5. PICK to \in Nat : to = call'[p].to
  BY <1>1
<1>6. FitsWith(E, from, to, n)
  BY <1>2, <1>3, <1>4, <1>5
<1>7. FitsWith(E, from, to, n)'
  BY <1>6, FitsKeeps
<1>8. QED
  BY <1>2, <1>3, <1>4, <1>5, <1>7 DEF CreditFits, FitsWith, Reserved

\* A pause takes as many promised days out of the plan as it credits.
LEMMA CalendarBound ==
  ASSUME TypeInv, TypeInv', AnswerInv, AnswerInv', ShapeInv, BoundInv,
         NEW p \in Procs, BuildDeliveryCalendar(p)
  PROVE  BoundInv'
<1> USE DEF rows, bounds
<1> DEFINE c == call[p]
           stopped == PausedDeliveryDays(c.saw.cycleEnd, c.from, c.to)
<1>1. UNCHANGED <<sub, skipped, held, request, delivered, disrupted>>
  BY DEF BuildDeliveryCalendar
<1>2. CASE Return(p)
  BY <1>1, <1>2, ReturnBound
<1>3. CASE ~Return(p)
  <2>1. /\ c.phase = "calendar" /\ Others(p) /\ call'[p].phase = "skip"
        /\ call'[p].n = Cardinality(stopped) /\ call'[p].from = c.from
        /\ call'[p].to = c.to /\ call'[p].after = c.after /\ call'[p].saw = c.saw
    <3>1. call'[p].phase # "idle"
      <4>1. call' = [call EXCEPT ![p].phase = "skip", ![p].n = Cardinality(stopped)]
        BY <1>3 DEF BuildDeliveryCalendar
      <4>2. QED
        BY <4>1 DEF TypeInv, SlotsOK, Calls
    <3>2. QED
      BY <3>1, AfterCalendar, AtRest
  <2>2. c.after > 0
    BY <2>1 DEF ShapeInv, Shape
  <2>3. /\ ~OnTheWay(call[p])' /\ ~Reading(call[p])' /\ ~Disruption(call[p])'
        /\ ~Banking(call[p])' /\ Reading(c)
    BY <2>1, <2>2 DEF OnTheWay, Reading, Disruption, Banking
  <2>4. /\ \A E \in Nat : Reserved(E)' \subseteq Reserved(E)
        /\ Room' >= Room
    BY <1>1, <2>1, <2>3, ReservedKeeps, ToBankKeeps, GrantingKeeps, RoomKeeps
  <2>5. FitsWith(c.saw.cycleEnd, c.from, c.to, Cardinality(stopped))
    <3>1. stopped \subseteq Reserved(c.saw.cycleEnd) /\ stopped \subseteq c.from..c.to
      BY DEF PausedDeliveryDays, Reserved
    <3>2. Fits(c.saw.cycleEnd)
      BY <2>3 DEF BoundInv
    <3>3. c.saw.cycleEnd \in Nat /\ c.from \in Nat /\ c.to \in Nat
      BY DEF TypeInv, TypeOK, Rows, Calls
    <3> HIDE DEF c, stopped
    <3>4. QED
      BY <3>1, <3>2, <3>3, GapPays
  <2>6. CreditFits(call[p])'
    BY <2>1, <2>4, <2>5, CreditStarts
  <2>7. QED
    BY <1>1, <2>1, <2>3, <2>4, <2>6, BoundMove
<1>4. QED
  BY <1>2, <1>3

\* So does the skip of a closed day.
LEMMA ClosedBound ==
  ASSUME TypeInv, TypeInv', AnswerInv, AnswerInv', ShapeInv, ClaimInv, BoundInv,
         NEW p \in Procs, LookupSkip(p), call'[p].phase = "skip"
  PROVE  BoundInv'
<1> USE DEF rows, bounds
<1> DEFINE d == call[p].day
           S == call[p].saw.cycleEnd
<1>1. UNCHANGED <<sub, skipped, held, request, delivered, disrupted>>
  BY DEF LookupSkip
<1>2. /\ call[p].phase = "lookup" /\ Others(p) /\ d \notin skipped
      /\ call'[p].day = d /\ call'[p].from = d /\ call'[p].to = d
      /\ call'[p].n = 1 /\ call'[p].saw = call[p].saw
  BY AfterLookupSkip, AtRest
<1>3. d > 0 /\ d <= S /\ d \in Nat /\ S \in Nat
  BY <1>2, CalendarAssumption DEF ClaimInv, Claim, TypeInv, TypeOK, SlotsOK, HasDay, Calls, Rows
<1>4. /\ ~OnTheWay(call[p])' /\ ~Reading(call[p])' /\ ~Disruption(call[p])'
      /\ ~Banking(call[p])' /\ Reading(call[p])
  BY <1>2, <1>3 DEF OnTheWay, Reading, Disruption, Banking
<1>5. /\ \A E \in Nat : Reserved(E)' \subseteq Reserved(E)
      /\ Room' >= Room
  BY <1>1, <1>2, <1>4, ReservedKeeps, ToBankKeeps, GrantingKeeps, RoomKeeps
<1>6. FitsWith(S, d, d, 1)
  <2>1. {d} \subseteq Reserved(S) /\ {d} \subseteq d..d
    BY <1>2, <1>3 DEF Reserved
  <2>2. Fits(S)
    BY <1>4 DEF BoundInv
  <2> HIDE DEF S, d
  <2>3. FitsWith(S, d, d, Cardinality({d}))
    BY <1>3, <2>1, <2>2, GapPays
  <2>4. QED
    BY <2>3, FS_Singleton
<1>7. CreditFits(call[p])'
  BY <1>2, <1>5, <1>6, CreditStarts
<1>8. QED
  BY <1>1, <1>2, <1>4, <1>5, <1>7, BoundMove

\* A day that is neither skipped nor closed sets out; it was promised by the
\* row its call has read, and by every row that ends on it or later.
LEMMA SetOutBound ==
  ASSUME TypeInv, TypeInv', AnswerInv, AnswerInv', ShapeInv, ClaimInv, BoundInv,
         NEW p \in Procs, LookupSkip(p), call'[p].phase = "hold"
  PROVE  BoundInv'
<1> USE DEF rows, bounds
<1> DEFINE d == call[p].day
           S == call[p].saw.cycleEnd
<1>1. UNCHANGED <<sub, skipped, held, request, delivered, disrupted>>
  BY DEF LookupSkip
<1>2. /\ call[p].phase = "lookup" /\ Others(p) /\ d \notin skipped
      /\ call'[p].day = d /\ call'[p].saw = call[p].saw
  BY AfterLookupSkip, AtRest DEF Carries
<1>3. d > 0 /\ d <= S /\ d \in Nat /\ S \in Nat
  BY <1>2, CalendarAssumption DEF ClaimInv, Claim, TypeInv, TypeOK, SlotsOK, HasDay, Calls, Rows
<1>4. /\ ~Reading(call[p])' /\ ~Crediting(call[p])' /\ ~Disruption(call[p])'
      /\ ~Banking(call[p])' /\ Reading(call[p])
  BY <1>2 DEF OnTheWay, Reading, Crediting, Disruption, Banking
<1>5. Room' >= Room
  BY <1>1, <1>2, <1>4, ToBankKeeps, GrantingKeeps, RoomKeeps
<1>6. \A E \in Nat : Reserved(E)' \subseteq Reserved(E) \cup {d}
  <2>1. WorkDays' \subseteq WorkDays \cup {d}
    BY <1>2 DEF WorkDays, Others, OnTheWay
  <2>2. DeliveredDays' = DeliveredDays
    BY <1>1 DEF DeliveredDays
  <2>3. QED
    BY <1>1, <2>1, <2>2 DEF Reserved
<1>7. \A E \in Nat : d <= E => Reserved(E)' \subseteq Reserved(E)
  <2>1. \A E \in Nat : d <= E => d \in Reserved(E)
    BY <1>2, <1>3 DEF Reserved
  <2>2. QED
    BY <1>6, <2>1
<1>8. ASSUME NEW E \in Nat, Fits(E) PROVE Fits(E)'
  <2>1. CASE d <= E
    BY <1>5, <1>7, <1>8, <2>1, FitsKeeps
  <2>2. CASE ~(d <= E)
    <3>1. Reserved(E)' \subseteq Reserved(S)
      <4>1. Reserved(E) \subseteq Reserved(S)
        BY <1>3, <2>2 DEF Reserved
      <4>2. d \in Reserved(S)
        BY <1>2, <1>3 DEF Reserved
      <4>3. QED
        BY <1>6, <4>1, <4>2
    <3>2. /\ IsFiniteSet(Reserved(S)) /\ Cardinality(Reserved(S)) <= Room
          /\ Room \in Int /\ Room' \in Int
      BY <1>3, <1>4, BoundCounts, BoundCountsNext DEF Counted, BoundInv, Fits
    <3>3. /\ Cardinality(Reserved(E)') <= Cardinality(Reserved(S))
          /\ Cardinality(Reserved(E)') \in Nat /\ Cardinality(Reserved(S)) \in Nat
      BY <3>1, <3>2, SmallerCounts
    <3>4. Cardinality(Reserved(E)') <= Room'
      BY <1>5, <3>2, <3>3
    <3>5. QED
      BY <3>4 DEF Fits
  <2>3. QED
    BY <2>1, <2>2
<1>9. ASSUME NEW q \in Procs \ {p}, Crediting(call[q]) PROVE CreditFits(call[q])'
  <2>1. call'[q] = call[q] /\ CreditFits(call[q])
    BY <1>2, <1>9 DEF Others, BoundInv
  <2>2. /\ call[q].after \in Nat /\ call[q].from \in Nat
        /\ call[q].saw.cycleEnd \in Nat /\ today \in Nat
    BY CalendarAssumption DEF TypeInv, TypeOK, Calls, Rows
  <2>3. d = today /\ call[q].day = 0
    BY <1>3 DEF ClaimInv, Claim
  <2>4. call[q].after > 0
    BY <1>9, <2>2, <2>3 DEF Crediting, Disruption
  <2>5. today < call[q].from /\ call[q].from <= call[q].saw.cycleEnd
    BY <2>4 DEF ShapeInv, Shape
  <2>6. d <= call[q].saw.cycleEnd
    BY <2>2, <2>3, <2>5
  <2>7. PICK E \in Nat : E = call[q].saw.cycleEnd
    BY <2>2
  <2>8. Reserved(E)' \subseteq Reserved(E)
    BY <1>7, <2>6, <2>7
  <2>9. Reserved(call[q].saw.cycleEnd)' \subseteq Reserved(call[q].saw.cycleEnd)
    BY <2>1, <2>7, <2>8 DEF Reserved
  <2>10. QED
    BY <1>5, <2>1, <2>9, CreditKeeps
<1>10. QED
  BY <1>1, <1>2, <1>4, <1>8, <1>9, BoundSplit

\* A day held back leaves what is promised and joins what is to be banked.
LEMMA HoldBound ==
  ASSUME TypeInv, TypeInv', AnswerInv, AnswerInv', ShapeInv, ClaimInv, BoundInv,
         NEW p \in Procs, CreateHeldSkip(p)
  PROVE  BoundInv'
<1> DEFINE d == call[p].day
           h == <<d, call[p].req>>
<1>1. /\ call[p].phase = "heldSkip" /\ call'[p].phase = "idle" /\ Others(p)
      /\ skipped' = skipped \cup {d} /\ held' = held \cup {h}
      /\ UNCHANGED <<today, sub, request, delivered, disrupted>>
  BY AfterReturn, AtRest DEF CreateHeldSkip, In
<1>2. /\ ~OnTheWay(call[p])' /\ ~Reading(call[p])' /\ ~Crediting(call[p])'
      /\ ~Disruption(call[p])' /\ ~Banking(call[p])' /\ OnTheWay(call[p])
  BY <1>1 DEF OnTheWay, Reading, Crediting, Disruption, Banking
<1>3. /\ d \in Days /\ d = today /\ delivered[d] = 0
      /\ \A q \in Procs \ {p} : call[q].day = 0
  <2>1. d > 0 /\ d \in 0..Horizon
    BY <1>1 DEF TypeInv, TypeOK, SlotsOK, Calls, HasDay
  <2>2. d # 0 /\ d \in Days
    BY <2>1, CalendarAssumption DEF Days
  <2>3. QED
    BY <1>1, <2>2 DEF ClaimInv, Claim, In
<1>4. /\ \A E \in Nat : d \in Reserved(E)
      /\ \A E \in Nat : Reserved(E)' \subseteq Reserved(E) \ {d}
  <2>1. d \in WorkDays
    BY <1>2, <1>3 DEF WorkDays
  <2>2. WorkDays' \subseteq WorkDays \ {d}
    <3>1. \A q \in Procs : OnTheWay(call[q])' => q # p /\ call'[q] = call[q]
      BY <1>1, <1>2 DEF Others
    <3>2. d # 0
      BY <1>3 DEF Days
    <3>3. \A q \in Procs : OnTheWay(call[q])' => OnTheWay(call[q]) /\ call'[q].day = call[q].day
                                                 /\ call'[q].day # d
      BY <1>3, <3>1, <3>2 DEF OnTheWay
    <3>4. QED
      BY <3>3 DEF WorkDays
  <2>3. DeliveredDays' \subseteq DeliveredDays \ {d}
    BY <1>1, <1>3 DEF DeliveredDays
  <2>4. QED
    BY <1>1, <2>1, <2>2, <2>3 DEF Reserved
<1>5. Room' >= Room - 1 /\ Room \in Int /\ Room' \in Int
  <2> DEFINE b == Cardinality(ToBank)
             g == Cardinality(Granting)
             b2 == Cardinality(ToBank)'
             g2 == Cardinality(Granting)'
  <2>1. /\ IsFiniteSet(ToBank) /\ IsFiniteSet(Granting) /\ Room \in Int /\ Room' \in Int
        /\ b \in Nat /\ g \in Nat /\ b2 \in Nat /\ g2 \in Nat
    BY BoundCounts, BoundCountsNext DEF Counted
  <2>2. b2 <= b + 1
    <3>1. ToBank' \subseteq ToBank \cup {h}
      BY <1>1, <1>2 DEF ToBank, Others, Banking
    <3>2. IsFiniteSet(ToBank \cup {h})
      BY <2>1, FS_AddElement
    <3>3. Cardinality(ToBank \cup {h}) <= b + 1 /\ Cardinality(ToBank \cup {h}) \in Nat
      <4>1. Cardinality(ToBank \cup {h}) = IF h \in ToBank THEN b ELSE b + 1
        BY <2>1, FS_AddElement
      <4> HIDE DEF b, h
      <4>2. QED
        BY <2>1, <4>1
    <3>4. b2 <= Cardinality(ToBank \cup {h})
      BY <3>1, <3>2, SmallerCounts
    <3> HIDE DEF b, b2, h
    <3>5. QED
      BY <2>1, <3>3, <3>4
  <2>3. g2 <= g
    <3>1. Granting' \subseteq Granting
      BY <1>1, <1>2, GrantingKeeps
    <3>2. QED
      BY <2>1, <3>1, SmallerCounts
  <2>4. disrupted \in Nat
    BY DEF TypeInv, TypeOK
  <2>5. b2 + g2 + disrupted + (-1) <= b + g + disrupted'
    <3> HIDE DEF b, g, b2, g2
    <3>1. QED
      BY <1>1, <2>1, <2>2, <2>3, <2>4
  <2>6. Room' >= Room + (-1)
    BY <2>5, RoomChange
  <2>7. QED
    BY <2>1, <2>6
<1>6. ASSUME NEW E \in Nat, NEW X, d \notin X
      PROVE  /\ Cardinality(Reserved(E)' \ X) <= Cardinality(Reserved(E) \ X) - 1
             /\ Cardinality(Reserved(E)' \ X) \in Nat
             /\ Cardinality(Reserved(E) \ X) \in Nat
  <2> DEFINE S == Reserved(E) \ X
             T == Reserved(E)' \ X
  <2>1. IsFiniteSet(S) /\ d \in S /\ T \subseteq S \ {d}
    BY <1>4, <1>6, BoundCounts, FS_Difference DEF Counted
  <2> HIDE DEF S, T, d
  <2>2. IsFiniteSet(S \ {d}) /\ Cardinality(S \ {d}) = Cardinality(S) - 1
    BY <2>1, FS_RemoveElement
  <2>3. /\ Cardinality(T) <= Cardinality(S) - 1 /\ Cardinality(T) \in Nat
        /\ Cardinality(S) \in Nat
    BY <2>1, <2>2, SmallerCounts, FS_CardinalityType
  <2>4. QED
    BY <2>3 DEF S, T
<1> HIDE DEF d, h
<1>7. ASSUME NEW E \in Nat, Fits(E) PROVE Fits(E)'
  <2>1. Reserved(E) \ {} = Reserved(E) /\ Reserved(E)' \ {} = Reserved(E)'
    OBVIOUS
  <2>2. /\ Cardinality(Reserved(E)') <= Cardinality(Reserved(E)) - 1
        /\ Cardinality(Reserved(E)') \in Nat /\ Cardinality(Reserved(E)) \in Nat
    BY <1>6, <2>1
  <2>3. Cardinality(Reserved(E)') <= Room'
    BY <1>5, <1>7, <2>2 DEF Fits
  <2>4. QED
    BY <2>3 DEF Fits
<1>8. ASSUME NEW q \in Procs \ {p}, Crediting(call[q]) PROVE CreditFits(call[q])'
  <2>1. call'[q] = call[q] /\ CreditFits(call[q])
    BY <1>1, <1>8 DEF Others, BoundInv
  <2>2. /\ call[q].after \in Nat /\ call[q].from \in Nat /\ call[q].to \in Nat
        /\ call[q].saw.cycleEnd \in Nat /\ today \in Nat /\ call[q].n \in Nat
    BY CalendarAssumption DEF TypeInv, TypeOK, Calls, Rows
  <2>3. call[q].after > 0
    BY <1>3, <1>8, <2>2 DEF Crediting, Disruption
  <2>4. today < call[q].from
    BY <2>3 DEF ShapeInv, Shape
  <2>5. d \notin call[q].from..call[q].to
    BY <1>3, <2>2, <2>4
  <2>6. PICK E \in Nat : E = call[q].saw.cycleEnd
    BY <2>2
  <2> DEFINE X == call[q].from..call[q].to
             s == Cardinality(Reserved(E) \ X)
             t == Cardinality(Reserved(E)' \ X)
  <2>7. t <= s - 1 /\ t \in Nat /\ s \in Nat
    <3> HIDE DEF X
    <3>1. d \notin X
      BY <2>5 DEF X
    <3>2. QED
      BY <1>6, <3>1
  <2>8. s + call[q].n <= Room
    BY <2>1, <2>6 DEF CreditFits, FitsWith
  <2>9. t + call[q].n <= Room'
    <3> HIDE DEF s, t
    <3>1. QED
      BY <1>5, <2>2, <2>7, <2>8
  <2>10. QED
    BY <2>1, <2>6, <2>9 DEF CreditFits, FitsWith, Reserved
<1>9. QED
  BY <1>1, <1>2, <1>7, <1>8, BoundSplit

\* The days credited are the days by which the plan grows.
LEMMA BankedDays ==
  ASSUME Calm, NEW S \in Nat, S >= Duration, NEW n \in Nat \ {0}, NEW a \in Nat
  PROVE  LET base == IF a > S THEN a ELSE S
             e == Bank(S, n, a)
         IN  /\ e \in Nat /\ IsFiniteSet((base + 1)..e)
             /\ Cardinality((base + 1)..e) = n
<1> DEFINE base == IF a > S THEN a ELSE S
           e == Bank(S, n, a)
<1>1. e \in Nat /\ Cardinality(((base + 1)..e) \ Closed) = n
  BY BankIsRight
<1>2. base \in Nat /\ base >= Duration /\ Duration \in Nat
  BY CalendarAssumption
<1>3. \A x \in Closed : x \in Nat /\ x <= Duration
  BY CalendarAssumption DEF Calm
<1> HIDE DEF base, e
<1>4. ((base + 1)..e) \ Closed = (base + 1)..e
  BY <1>1, <1>2, <1>3
<1>5. IsFiniteSet((base + 1)..e) /\ Cardinality((base + 1)..e) = n
  <2>1. base + 1 \in Int /\ e \in Int
    BY <1>1, <1>2
  <2>2. IsFiniteSet((base + 1)..e)
    BY <2>1, FS_Interval
  <2>3. QED
    BY <1>1, <1>4, <2>2
<1>6. QED
  BY <1>1, <1>5 DEF base, e

\* Banking n days promises n more at most.
LEMMA ReservedBanked ==
  ASSUME Calm, TypeInv, AnswerInv, NEW S \in Nat, S >= Duration,
         NEW n \in Nat \ {0}, NEW a \in Nat, (S + 1)..a \subseteq skipped
  PROVE  LET e == Bank(S, n, a)
         IN  /\ e \in Nat
             /\ Cardinality(Reserved(e)) <= Cardinality(Reserved(S)) + n
<1> DEFINE base == IF a > S THEN a ELSE S
           e == Bank(S, n, a)
           new == (base + 1)..e
<1>1. e \in Nat /\ IsFiniteSet(new) /\ Cardinality(new) = n
  BY BankedDays
<1>2. Reserved(e) \subseteq Reserved(S) \cup new
  <2> HIDE DEF e
  <2>1. (1..e) \ skipped \subseteq ((1..S) \ skipped) \cup new
    BY <1>1
  <2>2. QED
    BY <2>1 DEF Reserved
<1>3. IsFiniteSet(Reserved(S)) /\ Cardinality(Reserved(S)) \in Nat
  BY BoundCounts DEF Counted
<1> HIDE DEF base, e, new
<1>4. /\ IsFiniteSet(Reserved(S) \cup new)
      /\ Cardinality(Reserved(S) \cup new)
           = Cardinality(Reserved(S)) + Cardinality(new) - Cardinality(Reserved(S) \cap new)
  BY <1>1, <1>3, FS_Union
<1>5. Cardinality(Reserved(S) \cap new) \in Nat
  BY <1>3, FS_Intersection, FS_CardinalityType
<1>6. Cardinality(Reserved(e)) \in Nat /\ Cardinality(Reserved(S) \cup new) \in Nat
      /\ Cardinality(Reserved(e)) <= Cardinality(Reserved(S) \cup new)
  BY <1>2, <1>4, SmallerCounts
<1>7. Cardinality(Reserved(e)) <= Cardinality(Reserved(S)) + n
  BY <1>1, <1>3, <1>4, <1>5, <1>6
<1>8. QED
  BY <1>1, <1>7 DEF e

\* The row a credit is written to.
LEMMA ExtendedEnds ==
  ASSUME TypeInv, NEW c
  PROVE  Extended(c).cycleEnd = Bank(c.saw.cycleEnd, c.n, c.after)
<1> DEFINE e == Bank(c.saw.cycleEnd, c.n, c.after)
<1>1. Extended(c) = [sub EXCEPT !.cycleEnd = e, !.banked = @ + c.n]
  BY DEF Extended
<1> HIDE DEF e
<1>2. Extended(c).cycleEnd = e
  BY <1>1 DEF TypeInv, TypeOK, Rows
<1>3. QED
  BY <1>2 DEF e

\* A credit that fits is a row that fits.
LEMMA CreditLands ==
  ASSUME Calm, TypeInv, TypeInv', AnswerInv, AnswerInv', NEW p \in Procs,
         sub' = Extended(call[p]), call[p].saw.cycleEnd >= Duration, call[p].n > 0,
         (call[p].saw.cycleEnd + 1)..call[p].after \subseteq skipped,
         \A E \in Nat : Reserved(E)' \subseteq Reserved(E),
         Cardinality(Reserved(call[p].saw.cycleEnd)) + call[p].n <= Room'
  PROVE  Fits(sub.cycleEnd)'
<1>1. /\ call[p].saw.cycleEnd \in Nat /\ call[p].n \in Nat \ {0}
      /\ call[p].after \in Nat
  BY DEF TypeInv, TypeOK, Rows, Calls
<1>2. sub'.cycleEnd = Bank(call[p].saw.cycleEnd, call[p].n, call[p].after)
  BY ExtendedEnds
<1> DEFINE S == call[p].saw.cycleEnd
           n == call[p].n
           a == call[p].after
           e == Bank(S, n, a)
<1>3. e \in Nat /\ Cardinality(Reserved(e)) <= Cardinality(Reserved(S)) + n
  <2>1. S \in Nat /\ S >= Duration /\ n \in Nat \ {0} /\ a \in Nat
        /\ (S + 1)..a \subseteq skipped
    BY <1>1
  <2> HIDE DEF S, n, a
  <2>2. QED
    BY <2>1, ReservedBanked
<1>4. PICK E \in Nat : E = e
  BY <1>3
<1>5. /\ IsFiniteSet(Reserved(E)) /\ Cardinality(Reserved(E)) \in Nat
      /\ Cardinality(Reserved(S)) \in Nat /\ n \in Nat /\ Room' \in Int
  BY <1>1, BoundCounts, BoundCountsNext DEF Counted
<1>6. /\ Cardinality(Reserved(E)') \in Nat
      /\ Cardinality(Reserved(E)') <= Cardinality(Reserved(E))
  BY <1>5, SmallerCounts
<1>7. /\ Cardinality(Reserved(E)) <= Cardinality(Reserved(S)) + n
      /\ Cardinality(Reserved(S)) + n <= Room'
  BY <1>3, <1>4
<1> HIDE DEF S, n, a, e
<1>8. Cardinality(Reserved(E)') <= Room'
  BY <1>5, <1>6, <1>7
<1>9. E = sub'.cycleEnd
  BY <1>2, <1>4 DEF S, n, a, e
<1>10. QED
  BY <1>8, <1>9 DEF Fits, Reserved

\* The credit of a pause, a skip or a disruption lands in the row, whatever
\* other credits were written since the call read it.
LEMMA ExtendBound ==
  ASSUME Calm, TypeInv, TypeInv', AnswerInv, AnswerInv', ShapeInv, ClaimInv,
         BoundInv, NEW p \in Procs, ExtendCycleEnd(p)
  PROVE  BoundInv'
<1> DEFINE c == call[p]
           S == c.saw.cycleEnd
<1>1. /\ c.phase = "extend" /\ call'[p].phase = "idle" /\ Others(p)
      /\ sub' = Extended(c)
      /\ UNCHANGED <<today, skipped, held, request, delivered, disrupted>>
  BY AfterReturn, AtRest DEF ExtendCycleEnd, In
<1>2. /\ ~OnTheWay(call[p])' /\ ~Reading(call[p])' /\ ~Crediting(call[p])'
      /\ ~Disruption(call[p])' /\ ~Banking(call[p])'
  BY <1>1 DEF OnTheWay, Reading, Crediting, Disruption, Banking
<1>3. /\ \A E \in Nat : Reserved(E)' \subseteq Reserved(E)
      /\ ToBank' \subseteq ToBank /\ Granting' \subseteq Granting
      /\ Room' >= Room
  BY <1>1, <1>2, ReservedKeeps, ToBankKeeps, GrantingKeeps, RoomKeeps
<1>4. /\ S \in Nat /\ c.n \in Nat /\ c.after \in Nat /\ c.day \in Nat
      /\ c.from \in Nat /\ c.to \in Nat /\ c.n > 0 /\ today \in Nat
      /\ Room \in Int /\ Room' \in Int
      /\ IsFiniteSet(Reserved(S)) /\ Cardinality(Reserved(S)) \in Nat
  <2>1. /\ S \in Nat /\ c.n \in Nat /\ c.after \in Nat /\ c.day \in Nat
        /\ c.from \in Nat /\ c.to \in Nat /\ c.n > 0 /\ today \in Nat
    BY <1>1, CalendarAssumption
       DEF TypeInv, TypeOK, SlotsOK, Rows, Calls, Credits
  <2>2. QED
    BY <2>1, BoundCounts, BoundCountsNext DEF Counted
<1>5. S >= Duration
  BY DEF ShapeInv, Shape
<1>6. (S + 1)..c.after \subseteq skipped /\ Cardinality(Reserved(S)) + c.n <= Room'
  <2>1. CASE Disruption(c)
    <3>1. c.n = 1 /\ c.after = 0 /\ Fits(S)
      BY <2>1 DEF ShapeInv, Shape, Disruption, BoundInv, Reading
    <3>2. Granting' \subseteq Granting \ {p} /\ p \in Granting
      BY <1>1, <1>2, <2>1 DEF Granting, Others, Disruption
    <3>3. Room' >= Room + 1
      <4> DEFINE b == Cardinality(ToBank)
                 g == Cardinality(Granting)
                 b2 == Cardinality(ToBank)'
                 g2 == Cardinality(Granting)'
      <4>1. /\ IsFiniteSet(ToBank) /\ IsFiniteSet(Granting)
            /\ b \in Nat /\ g \in Nat /\ b2 \in Nat /\ g2 \in Nat
        BY BoundCounts, BoundCountsNext DEF Counted
      <4>2. b2 <= b
        BY <1>3, <4>1, SmallerCounts
      <4>3. g2 <= g - 1
        <5>1. IsFiniteSet(Granting \ {p}) /\ Cardinality(Granting \ {p}) = g - 1
          BY <3>2, <4>1, FS_RemoveElement
        <5>2. QED
          BY <3>2, <5>1, SmallerCounts
      <4>4. disrupted \in Nat
        BY DEF TypeInv, TypeOK
      <4>5. b2 + g2 + disrupted + 1 <= b + g + disrupted'
        <5> HIDE DEF b, g, b2, g2
        <5>1. QED
          BY <1>1, <4>1, <4>2, <4>3, <4>4
      <4>6. QED
        BY <4>5, RoomChange
    <3>4. Cardinality(Reserved(S)) <= Room
      BY <3>1 DEF Fits
    <3>5. (S + 1)..0 = {}
      BY <1>4
    <3> HIDE DEF c, S
    <3>6. QED
      BY <1>4, <3>1, <3>3, <3>4, <3>5
  <2>2. CASE ~Disruption(c)
    <3>1. /\ CreditFits(c) /\ c.from..c.to \subseteq skipped
      BY <1>1, <2>2 DEF Crediting, BoundInv, ShapeInv, Shape
    <3>2. /\ (S + 1)..c.after \subseteq c.from..c.to
          /\ \A x \in c.from..c.to : x > today \/ x \in Closed
      <4>1. CASE c.after > 0
        <5>1. c.to = c.after /\ today < c.from /\ c.from <= S
          BY <4>1 DEF ShapeInv, Shape
        <5> HIDE DEF c, S
        <5>2. QED
          BY <1>4, <5>1
      <4>2. CASE ~(c.after > 0)
        <5>1. c.after = 0
          BY <1>4, <4>2
        <5>2. c.day # 0
          BY <1>1, <2>2, <5>1 DEF Disruption
        <5>3. c.from = c.day /\ c.to = c.day /\ c.day \in Closed
          BY <1>1, <5>2 DEF ShapeInv, Shape
        <5> HIDE DEF c, S
        <5>4. QED
          BY <1>4, <5>1, <5>3
      <4>3. QED
        BY <4>1, <4>2
    <3>3. \A x \in DeliveredDays \cup WorkDays : x <= today /\ x \notin Closed
      <4>1. \A x \in DeliveredDays : x <= today /\ x \notin Closed
        BY DEF ClaimInv
      <4>2. \A x \in WorkDays : x <= today /\ x \notin Closed
        <5> SUFFICES ASSUME NEW q \in Procs, OnTheWay(call[q]), call[q].day \in Days
                     PROVE  call[q].day <= today /\ call[q].day \notin Closed
          BY DEF WorkDays
        <5>1. call[q].day # 0
          BY DEF Days
        <5>2. QED
          BY <1>4, <5>1 DEF ClaimInv, Claim, ShapeInv, Shape
      <4>3. QED
        BY <4>1, <4>2
    <3>4. Reserved(S) \ (c.from..c.to) = Reserved(S)
      <4>1. \A x \in DeliveredDays \cup WorkDays : x \notin c.from..c.to
        <5>1. \A x \in DeliveredDays \cup WorkDays : x \in Nat
          BY DEF DeliveredDays, WorkDays, Days
        <5> HIDE DEF c, S
        <5>2. QED
          BY <1>4, <3>2, <3>3, <5>1
      <4>2. QED
        BY <3>1, <4>1 DEF Reserved
    <3>5. Cardinality(Reserved(S)) + c.n <= Room
      BY <3>1, <3>4 DEF CreditFits, FitsWith
    <3> HIDE DEF c, S
    <3>6. QED
      BY <1>3, <1>4, <3>1, <3>2, <3>5
  <2>3. QED
    BY <2>1, <2>2
<1>7. Fits(sub.cycleEnd)'
  BY <1>1, <1>3, <1>4, <1>5, <1>6, CreditLands
<1>8. QED
  BY <1>1, <1>2, <1>3, <1>7, BoundMove

\* The days held are banked once: they leave what is to be banked as they
\* join the plan.
LEMMA BankHeldBound ==
  ASSUME Calm, TypeInv, TypeInv', AnswerInv, AnswerInv', ShapeInv, BoundInv,
         NEW p \in Procs, BankHeldDays(p)
  PROVE  BoundInv'
<1> DEFINE c == call[p]
           S == c.saw.cycleEnd
           pairs == c.found \X {c.req}
<1>1. /\ c.phase = "bankHeld" /\ call'[p].phase = "mark" /\ Others(p)
      /\ sub' = Extended(c)
      /\ UNCHANGED <<today, skipped, held, request, delivered, disrupted>>
  BY AfterGoto DEF BankHeldDays, In
<1>2. /\ ~OnTheWay(call[p])' /\ ~Reading(call[p])' /\ ~Crediting(call[p])'
      /\ ~Disruption(call[p])' /\ ~Banking(call[p])' /\ Reading(c)
  BY <1>1 DEF OnTheWay, Reading, Crediting, Disruption, Banking
<1>3. /\ \A E \in Nat : Reserved(E)' \subseteq Reserved(E)
      /\ Granting' \subseteq Granting
  BY <1>1, <1>2, ReservedKeeps, GrantingKeeps
<1>4. /\ S \in Nat /\ c.n \in Nat /\ c.after \in Nat /\ c.n > 0
      /\ c.n = Cardinality(c.found) /\ c.after = 0 /\ S >= Duration
      /\ c.found \in SUBSET Days
  <2>1. /\ S \in Nat /\ c.n \in Nat /\ c.after \in Nat /\ c.n > 0
        /\ c.found \in SUBSET Days
    BY <1>1 DEF TypeInv, TypeOK, SlotsOK, Rows, Calls, Credits
  <2>2. Shape(c)
    BY DEF ShapeInv
  <2>3. ~(c.after > 0) /\ c.n = Cardinality(c.found) /\ S >= Duration
    BY <1>1, <2>2 DEF Shape
  <2> HIDE DEF c, S
  <2>4. QED
    BY <2>1, <2>3
<1>5. IsFiniteSet(pairs) /\ Cardinality(pairs) = c.n
  <2>1. IsFiniteSet(c.found)
    <3>1. IsFiniteSet(Days)
      BY CalendarAssumption, FS_Interval DEF Days
    <3>2. QED
      BY <1>4, <3>1, FS_Subset
  <2>2. IsFiniteSet({c.req}) /\ Cardinality({c.req}) = 1
    BY FS_Singleton
  <2>3. IsFiniteSet(pairs) /\ Cardinality(pairs) = Cardinality(c.found) * 1
    BY <2>1, <2>2, FS_Product
  <2> HIDE DEF c, pairs
  <2>4. QED
    BY <1>4, <2>3
<1>6. pairs \subseteq ToBank /\ ToBank' \subseteq ToBank \ pairs
  <2>1. pairs \subseteq held
    BY <1>1 DEF AnswerInv, Answer
  <2>2. Answering(c) /\ Banking(c)
    BY <1>1 DEF Answering, Banking
  <2>3. /\ request.status = "PENDING" => c.req # request.id
        /\ \A q \in Procs \ {p} : Banking(call[q]) => call[q].req # c.req
    <3>1. Answer(p)
      BY DEF AnswerInv
    <3>2. \A q \in Procs : Banking(call[q]) => Answering(call[q])
      BY DEF Answering, Banking
    <3>3. QED
      BY <2>2, <3>1, <3>2 DEF Answer
  <2>4. pairs \subseteq ToBank
    BY <2>1, <2>2 DEF ToBank, Banking
  <2>5. ToBank' \subseteq ToBank
    BY <1>1, <1>2, ToBankKeeps
  <2>6. \A q \in Procs : Banking(call[q])' => q # p /\ call'[q] = call[q] /\ Banking(call[q])
    BY <1>1, <1>2 DEF Others, Banking
  <2>7. \A h \in ToBank' : h \notin pairs
    <3> SUFFICES ASSUME NEW h \in held,
                        \/ request.status = "PENDING" /\ request.id = h[2]
                        \/ \E q \in Procs \ {p} : Banking(call[q]) /\ call[q].req = h[2]
                 PROVE  h[2] # c.req
      BY <1>1, <2>6 DEF ToBank, Banking
    <3>1. QED
      BY <2>3
  <2>8. QED
    BY <2>4, <2>5, <2>7
<1>7. Room' >= Room + c.n /\ Room \in Int /\ Room' \in Int
  <2> DEFINE b == Cardinality(ToBank)
             g == Cardinality(Granting)
             b2 == Cardinality(ToBank)'
             g2 == Cardinality(Granting)'
  <2>1. /\ IsFiniteSet(ToBank) /\ IsFiniteSet(Granting) /\ Room \in Int /\ Room' \in Int
        /\ b \in Nat /\ g \in Nat /\ b2 \in Nat /\ g2 \in Nat
    BY BoundCounts, BoundCountsNext DEF Counted
  <2>2. b2 <= b - c.n
    <3> HIDE DEF pairs, c
    <3>1. ToBank \cap pairs = pairs
      BY <1>6
    <3>2. /\ IsFiniteSet(ToBank \ pairs)
          /\ Cardinality(ToBank \ pairs) = b - Cardinality(ToBank \cap pairs)
      BY <2>1, FS_Difference
    <3>3. b2 <= Cardinality(ToBank \ pairs)
      BY <1>6, <3>2, SmallerCounts
    <3>4. QED
      BY <1>5, <3>1, <3>2, <3>3
  <2>3. g2 <= g
    BY <1>3, <2>1, SmallerCounts
  <2>4. disrupted \in Nat
    BY DEF TypeInv, TypeOK
  <2>5. b2 + g2 + disrupted + c.n <= b + g + disrupted'
    <3> HIDE DEF b, g, b2, g2, c
    <3>1. QED
      BY <1>1, <1>4, <2>1, <2>2, <2>3, <2>4
  <2>6. c.n \in Int
    BY <1>4
  <2>7. QED
    BY <2>1, <2>5, <2>6, RoomChange
<1>8. Cardinality(Reserved(S)) <= Room /\ Cardinality(Reserved(S)) \in Nat
  BY <1>2, <1>4, BoundCounts DEF BoundInv, Fits, Counted
<1>9. (S + 1)..c.after \subseteq skipped /\ Cardinality(Reserved(S)) + c.n <= Room'
  <2> HIDE DEF c, S
  <2>1. (S + 1)..0 = {}
    BY <1>4
  <2>2. QED
    BY <1>4, <1>7, <1>8, <2>1
<1>10. Fits(sub.cycleEnd)'
  BY <1>1, <1>3, <1>4, <1>9, CreditLands
<1>11. Room' >= Room
  BY <1>4, <1>7
<1>12. QED
  BY <1>1, <1>2, <1>3, <1>10, <1>11, BoundMove

\* Starting a call keeps the bound,
LEMMA StartBound ==
  ASSUME TypeInv, TypeInv', AnswerInv, AnswerInv', BoundInv,
         NEW p \in Procs, Start(p)
  PROVE  BoundInv'
<1> USE DEF rows, bounds
<1>1. CASE StartMaterialize(p)
  BY <1>1, AfterStartMaterialize, BoundQuiet
     DEF StartMaterialize, OnTheWay, Reading, Crediting, Disruption, Banking
<1>2. ASSUME NEW from \in Days, NEW to \in Days, StartPause(p, from, to)
      PROVE  BoundInv'
  BY <1>2, AfterStartPause, BoundQuiet
     DEF StartPause, OnTheWay, Reading, Crediting, Disruption, Banking
<1>3. ASSUME NEW d \in Days, StartDisruption(p, d) PROVE BoundInv'
  BY <1>3, StartDisruptionBound
<1>4. CASE StartRequest(p)
  BY <1>4, AfterStartRequest, BoundQuiet
     DEF StartRequest, OnTheWay, Reading, Crediting, Disruption, Banking
<1>5. CASE AnswerRequest(p)
  BY <1>5, AnswerRequestBound
<1>6. QED
  BY <1>1, <1>2, <1>3, <1>4, <1>5 DEF Start

\* continuing one does,
LEMMA ContinueBound ==
  ASSUME Calm, TypeInv, TypeInv', AnswerInv, AnswerInv', ShapeInv, ClaimInv,
         BoundInv, NEW p \in Procs, Continue(p)
  PROVE  BoundInv'
<1> USE DEF rows, bounds
<1>0. sub \in Rows
  BY DEF TypeInv, TypeOK
<1>1. CASE NotDue(p) \/ ExpireSubscription(p) \/ AdvanceSubscriptionDay(p)
           \/ ReleaseMaterializationDate(p) \/ ReactivateSubscription(p)
  <2>1. Return(p) /\ UNCHANGED <<skipped, held, request, delivered, disrupted>>
    BY <1>1 DEF NotDue, ExpireSubscription, AdvanceSubscriptionDay,
       ReleaseMaterializationDate, ReactivateSubscription
  <2>2. sub'.cycleEnd = sub.cycleEnd
    BY <1>0, <1>1 DEF NotDue, ExpireSubscription, AdvanceSubscriptionDay,
       ReleaseMaterializationDate, ReactivateSubscription, Rows
  <2>3. QED
    BY <2>1, <2>2, ReturnBound
<1>2. CASE ClaimDay(p)
  <2>1. UNCHANGED <<skipped, held, request, delivered, disrupted>>
        /\ sub'.cycleEnd = sub.cycleEnd
    BY <1>0, <1>2, AfterClaimDay DEF ClaimDay, Rows
  <2>2. CASE Return(p)
    BY <2>1, <2>2, ReturnBound
  <2>3. CASE ~Return(p)
    <3>1. /\ call[p].phase = "materialize" /\ call'[p].phase = "lookup"
          /\ Others(p) /\ call'[p].saw = call[p].saw
      BY <1>2, <2>3, AfterClaimDay DEF ClaimDay, Carries
    <3>2. QED
      BY <2>1, <3>1, BoundQuiet
         DEF OnTheWay, Reading, Crediting, Disruption, Banking
  <2>4. QED
    BY <2>2, <2>3
<1>3. CASE LookupSkip(p)
  <2>1. CASE Return(p)
    BY <1>3, <2>1, ReturnBound DEF LookupSkip
  <2>2. CASE ~Return(p)
    <3>1. call'[p].phase \in {"hold", "skip"}
      BY <1>3, <2>2 DEF LookupSkip, Goto, TypeInv, SlotsOK, Calls
    <3>2. QED
      BY <1>3, <3>1, ClosedBound, SetOutBound
  <2>3. QED
    BY <2>1, <2>2
<1>4. CASE LookupHold(p)
  BY <1>4, AfterLookupHold, BoundQuiet
     DEF LookupHold, OnTheWay, Reading, Crediting, Disruption, Banking
<1>5. CASE CreateHeldSkip(p)
  BY <1>5, HoldBound
<1>6. CASE CreateOrder(p)
  BY <1>6, CreateOrderBound
<1>7. CASE BuildDeliveryCalendar(p)
  BY <1>7, CalendarBound
<1>8. CASE CreateSkip(p)
  <2>1. /\ call[p].phase = "skip" /\ call'[p].phase = "extend" /\ Others(p)
        /\ Carries(p) /\ call'[p].day = call[p].day
        /\ UNCHANGED <<sub, held, request, delivered, disrupted>>
        /\ skipped \subseteq skipped'
    BY <1>8, AfterGoto DEF CreateSkip, In
  <2>2. QED
    BY <2>1, BoundQuiet
       DEF OnTheWay, Reading, Crediting, Disruption, Banking, Carries
<1>9. CASE ExtendCycleEnd(p)
  BY <1>9, ExtendBound
<1>10. CASE CreateIfNonePending(p)
  BY <1>10, AskBound
<1>11. CASE FindUnbankedHeldSkips(p)
  <2>1. UNCHANGED <<sub, skipped, held, request, delivered, disrupted>>
    BY <1>11 DEF FindUnbankedHeldSkips
  <2>2. CASE Return(p)
    BY <2>1, <2>2, ReturnBound
  <2>3. CASE ~Return(p)
    <3>1. /\ call[p].phase = "findHeld" /\ call'[p].phase = "bankHeld"
          /\ Others(p) /\ call'[p].saw = sub /\ call'[p].req = call[p].req
      BY <1>11, <2>3, AfterFindHeld DEF FindUnbankedHeldSkips
    <3>2. QED
      BY <2>1, <3>1, BoundQuiet
         DEF OnTheWay, Reading, Crediting, Disruption, Banking
  <2>4. QED
    BY <2>2, <2>3
<1>12. CASE BankHeldDays(p)
  BY <1>12, BankHeldBound
<1>13. CASE MarkHeldSkipsBanked(p)
  <2>1. /\ UNCHANGED <<sub, skipped, request, delivered, disrupted>>
        /\ held' \subseteq held
    BY <1>13 DEF MarkHeldSkipsBanked
  <2>2. Others(p) /\ call'[p].phase \in {"reactivate", "idle"}
    BY <1>13, AfterGoto, AfterReturn, AtRest DEF MarkHeldSkipsBanked
  <2>3. QED
    BY <2>1, <2>2, BoundQuiet
       DEF OnTheWay, Reading, Crediting, Disruption, Banking
<1>14. QED
  BY <1>1, <1>2, <1>3, <1>4, <1>5, <1>6, <1>7, <1>8, <1>9, <1>10, <1>11, <1>12,
     <1>13 DEF Continue

\* A step of no call.
LEMMA BoundStay ==
  ASSUME TypeInv, TypeInv', AnswerInv, AnswerInv', BoundInv,
         call' = call, sub'.cycleEnd = sub.cycleEnd,
         UNCHANGED <<skipped, delivered, disrupted, held>>,
         request'.status = "PENDING" =>
           request.status = "PENDING" /\ request'.id = request.id
  PROVE  BoundInv'
<1>1. \A q \in Procs : Others(q)
  BY DEF Others
<1>2. CASE Procs # {}
  <2>1. PICK p \in Procs : TRUE
    BY <1>2
  <2>2. QED
    BY <1>1, <2>1, BoundQuiet DEF OnTheWay, Reading, Crediting, Disruption, Banking
<1>3. CASE Procs = {}
  <2>1. Granting' \subseteq Granting /\ ToBank' \subseteq ToBank
    BY <1>3 DEF Granting, ToBank
  <2>2. Room' >= Room
    BY <2>1, RoomKeeps
  <2>3. PICK E \in Nat : E = sub.cycleEnd
    BY DEF TypeInv, TypeOK, Rows
  <2>4. Reserved(E)' \subseteq Reserved(E) /\ Fits(E)
    BY <2>3 DEF Reserved, DeliveredDays, WorkDays, OnTheWay, BoundInv
  <2>5. Fits(E)'
    BY <2>2, <2>4, FitsKeeps
  <2>6. Fits(sub.cycleEnd)'
    BY <2>3, <2>5 DEF Fits, Reserved
  <2>7. QED
    BY <1>3, <2>6 DEF BoundInv
<1>4. QED
  BY <1>2, <1>3

\* and every step does.
LEMMA BoundInvStep ==
  /\ Calm /\ TypeInv /\ TypeInv' /\ AnswerInv /\ AnswerInv'
  /\ ShapeInv /\ ClaimInv /\ BoundInv /\ [Next]_vars
  => BoundInv'
<1> USE DEF rows, bounds
<1> SUFFICES ASSUME Calm, TypeInv, TypeInv', AnswerInv, AnswerInv', ShapeInv,
                    ClaimInv, BoundInv, [Next]_vars
             PROVE  BoundInv'
  OBVIOUS
<1>1. ASSUME NEW p \in Procs, Start(p) \/ Continue(p) PROVE BoundInv'
  BY <1>1, StartBound, ContinueBound
<1>2. ASSUME NEW p \in Procs, Throw(p) \/ Die(p) PROVE BoundInv'
  <2>1. UNCHANGED <<sub, skipped, held, request, delivered, disrupted>>
    BY <1>2 DEF Throw, Die
  <2>2. CASE Return(p)
    BY <2>1, <2>2, ReturnBound
  <2>3. CASE Goto(p, "release")
    <3>1. call'[p].phase = "release" /\ Others(p)
      BY <2>3, AfterGoto
    <3>2. QED
      BY <2>1, <3>1, BoundQuiet
         DEF OnTheWay, Reading, Crediting, Disruption, Banking
  <2>4. QED
    BY <1>2, <2>2, <2>3 DEF Throw, Die
<1>3. CASE NextDay \/ CancelWithRefund \/ UNCHANGED vars
  <2>1. /\ call' = call /\ UNCHANGED <<skipped, delivered, disrupted, held>>
        /\ sub'.cycleEnd = sub.cycleEnd
        /\ request'.status = "PENDING" =>
             request.status = "PENDING" /\ request'.id = request.id
    BY <1>3 DEF NextDay, CancelWithRefund, vars, TypeInv, TypeOK, Rows, Requests
  <2>2. QED
    BY <2>1, BoundStay
<1>4. QED
  BY <1>1, <1>2, <1>3 DEF Next

\* In a new plan the days sold fit the days sold.
LEMMA InitBought ==
  Init => ShapeInv /\ ClaimInv /\ AnswerInv /\ BoundInv
<1> SUFFICES ASSUME Init PROVE ShapeInv /\ ClaimInv /\ AnswerInv /\ BoundInv
  OBVIOUS
<1>1. /\ \A p \in Procs : call[p] = NoCall
      /\ sub.cycleEnd = Duration /\ Duration \in Nat /\ today = 0
      /\ skipped = {} /\ held = {} /\ disrupted = 0
      /\ request.status = "NONE"
  BY AtRest, CalendarAssumption DEF Init
<1>2. \A p \in Procs : Shape(call[p])
  BY <1>1, AtRest DEF Shape, Disruption, OnTheWay
<1>3. ShapeInv
  BY <1>1, <1>2 DEF ShapeInv
<1>4. DeliveredDays = {} /\ WorkDays = {} /\ Granting = {} /\ ToBank = {}
  BY <1>1, AtRest DEF Init, DeliveredDays, WorkDays, Granting, ToBank, OnTheWay, Disruption
<1>5. ClaimInv
  BY <1>1, <1>4, AtRest DEF ClaimInv, Claim, In
<1>6. AnswerInv
  BY <1>1, AtRest, FS_EmptySet DEF AnswerInv, Answer, Answering
<1>7. Fits(sub.cycleEnd)
  <2>1. Reserved(sub.cycleEnd) = 1..Duration
    BY <1>1, <1>4 DEF Reserved
  <2>2. Cardinality(1..Duration) = Duration
    BY <1>1, FS_Interval
  <2>3. Room = Duration
    <3>1. Cardinality(ToBank) = 0 /\ Cardinality(Granting) = 0
      BY <1>4, FS_EmptySet
    <3>2. QED
      BY <1>1, <3>1 DEF Room
  <2>4. QED
    BY <1>1, <2>1, <2>2, <2>3 DEF Fits
<1>8. BoundInv
  BY <1>1, <1>7, AtRest DEF BoundInv, Reading, Crediting, Disruption
<1>9. QED
  BY <1>3, <1>5, <1>6, <1>8

\* The inductive invariant of a calm calendar.
BoughtInv == Calm => ShapeInv /\ ClaimInv /\ AnswerInv /\ BoundInv

\* The four parts together are inductive.
LEMMA BoughtInvStep ==
  TypeInv /\ TypeInv' /\ BoughtInv /\ [Next]_vars => BoughtInv'
<1> SUFFICES ASSUME TypeInv, TypeInv', BoughtInv, [Next]_vars, Calm
             PROVE  (ShapeInv /\ ClaimInv /\ AnswerInv /\ BoundInv)'
  BY DEF BoughtInv, Calm
<1>1. ShapeInv /\ ClaimInv /\ AnswerInv /\ BoundInv
  BY DEF BoughtInv
<1>2. ShapeInv' /\ ClaimInv' /\ AnswerInv'
  BY <1>1, ShapeInvStep, ClaimInvStep, AnswerInvStep
<1>3. QED
  BY <1>1, <1>2, BoundInvStep

\* What fits is no more than was bought.
LEMMA BoughtIsBound ==
  ASSUME TypeInv, AnswerInv, BoundInv
  PROVE  NeverMoreThanBought
<1> DEFINE S == Reserved(sub.cycleEnd)
           T == DeliveredDays \cup Kept
<1>1. sub.cycleEnd \in Nat /\ Duration \in Nat /\ disrupted \in Nat
  BY CalendarAssumption DEF TypeInv, TypeOK, Rows
<1>2. /\ IsFiniteSet(S) /\ Cardinality(S) \in Nat
      /\ Cardinality(ToBank) \in Nat /\ Cardinality(Granting) \in Nat
  BY <1>1, BoundCounts DEF Counted
<1>3. T \subseteq S
  BY DEF Kept, Reserved
<1>4. Cardinality(S) <= Duration + disrupted - Cardinality(ToBank) - Cardinality(Granting)
  BY DEF BoundInv, Fits, Room
<1> HIDE DEF S, T
<1>5. Cardinality(T) \in Nat /\ Cardinality(T) <= Cardinality(S)
  BY <1>2, <1>3, SmallerCounts
<1>6. Cardinality(T) + Cardinality(ToBank) <= Duration + disrupted
  BY <1>1, <1>2, <1>4, <1>5
<1>7. QED
  BY <1>6 DEF NeverMoreThanBought, T

\* Whatever skips, pauses, closures, disruptions, holds and runs of the
\* materializer overlap, however stale the row that each of them started
\* from, and wherever one of them fails, the days delivered, those to come and
\* those held are never more than the plan and its disruptions gave: in a
\* kitchen whose closures lie inside the plan, with notice for every change
\* and nothing in flight at midnight.
THEOREM DaysAreBounded ==
  Spec => [](QuietNights /\ Notice >= 1 /\ Closed \subseteq 0..Duration
               => NeverMoreThanBought)
<1>1. Init => BoughtInv
  BY InitBought DEF BoughtInv
<1>2. TypeInv /\ BoughtInv =>
        (QuietNights /\ Notice >= 1 /\ Closed \subseteq 0..Duration
           => NeverMoreThanBought)
  BY BoughtIsBound DEF BoughtInv, Calm
<1>3. QED
  BY InitTypeInv, TypeInvStep, BoughtInvStep, <1>1, <1>2, PTL DEF Spec

-----------------------------------------------------------------------------
(***************************************************************************)
(* Exactly as bought.  When calls come one at a time and none fails, a     *)
(* call knows the row as it is: nothing it read is stale when it writes.   *)
(* Then, while the plan can still be delivered, the days kept on it, the   *)
(* days an open request holds and the credit on its way add up to what was *)
(* bought, and every kept day that has passed was delivered.               *)
(***************************************************************************)

\* A plan whose calls come one at a time and do not fail.
Lone == /\ Calm /\ JobNeverDown /\ PromptAnswers /\ OpenPauses
        /\ MaxFaults = 0 /\ "disrupt" \notin Handlers
        /\ \A p, q \in Procs : p = q

\* Not cancelled, or only until the call in flight lets the plan expire.
Alive == \/ sub.status # "CANCELLED"
         \/ \E p \in Procs : In(p, "materialize") /\ today > call[p].saw.cycleEnd

\* What the row and the days add up to between any two steps.
Planned(n) == Cardinality(Kept) + Cardinality(ToBank) + n = Duration

RowInv ==
  /\ sub.claimed <= today
  /\ sub.status = "EXPIRED" => today > sub.cycleEnd
  /\ DeliveredDays \subseteq (1..sub.cycleEnd) \ skipped
  /\ \A h \in held : h[1] \in skipped
  /\ (\A p \in Procs : ~In(p, "extend")) => skipped \subseteq 0..sub.cycleEnd

\* A call alone on the plan knows the row as it is.
Knows(c) ==
  /\ c.phase \notin {"release", "reactivate"} /\ ~Disruption(c)
  /\ c.phase \in {"materialize", "request", "bankHeld", "mark"} => c.day = 0
  /\ c.phase \notin {"idle", "findHeld"} => sub.status # "EXPIRED"
  /\ c.phase \notin {"idle", "request", "findHeld", "mark"} =>
       c.saw.cycleEnd = sub.cycleEnd
  /\ OnTheWay(c) => c.day \notin skipped
  /\ c.phase = "heldSkip" /\ sub.status # "CANCELLED" =>
       request.status = "PENDING" /\ request.id = c.req
  /\ c.phase = "advance" => delivered[c.day] > 0
  /\ Answering(c) => request.status # "PENDING"
  /\ c.phase = "bankHeld" => c.found = {d \in Days : <<d, c.req>> \in held}
  /\ c.phase \in {"bankHeld", "mark"} => c.saw.status # "EXPIRED"
  /\ c.after > 0 => (c.from..c.to) \cap Closed = {}
  /\ c.phase = "skip" => c.n = Cardinality((c.from..c.to) \cap Kept)
  /\ c.phase = "extend" =>
       skipped \subseteq 0..(IF c.after > sub.cycleEnd THEN c.after ELSE sub.cycleEnd)

LoneInv == RowInv /\ \A p \in Procs : Knows(call[p])

\* Every day that has passed was delivered, and the days add up.
Due(d) == \/ d < today
          \/ d = today /\ sub.claimed = today /\ \A p \in Procs : call[p].day = 0

PlanInv == Alive =>
  /\ \A d \in Kept : Due(d) => delivered[d] > 0
  /\ today > sub.cycleEnd => ToBank = {}
  /\ (\A p \in Procs : ~In(p, "extend")) => Planned(0)
  /\ \A p \in Procs : In(p, "extend") => Planned(call[p].n)

\* All that is known of the only call.
OneCall == /\ Lone /\ TypeInv /\ ShapeInv /\ ClaimInv /\ AnswerInv
           /\ RowInv /\ \A p \in Procs : Knows(call[p])

\* What the only call carries, and what it knows of the row.
LEMMA OnlyCall ==
  ASSUME OneCall, NEW p \in Procs
  PROVE  /\ \A q \in Procs : q = p
         /\ Knows(call[p]) /\ Shape(call[p]) /\ Claim(p) /\ Answer(p)
         /\ call[p] \in Calls /\ Credits(call[p]) /\ HasDay(call[p])
         /\ sub \in Rows /\ sub.cycleEnd \in Nat /\ Duration \in Nat
         /\ sub.cycleEnd >= Duration /\ today \in Nat /\ request \in Requests
         /\ TypeInv /\ ClaimInv /\ RowInv
         /\ call[p].day \in 0..Horizon /\ call[p].from \in Nat
         /\ call[p].to \in Nat /\ call[p].n \in Nat /\ call[p].after \in Nat
         /\ call[p].req \in Nat
<1>1. \A q \in Procs : q = p
  BY DEF OneCall, Lone
<1>2. /\ Shape(call[p]) /\ Claim(p) /\ Answer(p) /\ sub.cycleEnd >= Duration
      /\ Knows(call[p])
  BY DEF OneCall, ShapeInv, ClaimInv, AnswerInv
<1>3. /\ call[p] \in Calls /\ Credits(call[p]) /\ HasDay(call[p])
      /\ sub \in Rows /\ sub.cycleEnd \in Nat /\ Duration \in Nat
      /\ today \in Nat /\ request \in Requests
  BY CalendarAssumption DEF OneCall, TypeInv, TypeOK, SlotsOK, Rows
<1>4. /\ call[p].day \in 0..Horizon /\ call[p].from \in Nat
      /\ call[p].to \in Nat /\ call[p].n \in Nat /\ call[p].after \in Nat
      /\ call[p].req \in Nat
  BY <1>3 DEF Calls
<1>5. QED
  BY <1>1, <1>2, <1>3, <1>4 DEF OneCall

\* A slot at rest knows nothing.
LEMMA RestKnows ==
  ASSUME NEW p \in Procs, call'[p] = NoCall
  PROVE  Knows(call[p])'
BY AtRest DEF Knows, Disruption, OnTheWay, Answering

\* A step that writes no day and moves no end.
LEMMA RowStay ==
  ASSUME OneCall, NEW p \in Procs, ~In(p, "extend"), ~In(p, "extend")',
         UNCHANGED <<today, skipped, delivered>>, held' \subseteq held,
         sub'.cycleEnd = sub.cycleEnd, sub'.claimed <= today,
         sub'.status = "EXPIRED" =>
           sub.status = "EXPIRED" \/ today > sub.cycleEnd
  PROVE  RowInv'
<1>1. RowInv /\ \A q \in Procs : q = p
  BY OnlyCall
<1>2. DeliveredDays' = DeliveredDays
  BY DEF DeliveredDays
<1>3. \A q \in Procs : ~In(q, "extend")
  BY <1>1
<1>4. QED
  BY <1>1, <1>2, <1>3 DEF RowInv

\* A call starts from the row as it is: what it reads is what is there.
LEMMA StartLone ==
  ASSUME OneCall, TypeInv', NEW p \in Procs, Start(p)
  PROVE  RowInv' /\ Knows(call[p])'
<1> USE DEF rows, bounds
<1>0. TypeInv /\ "disrupt" \notin Handlers /\ OpenPauses
  BY DEF OneCall, Lone
<1>1. /\ call[p].phase = "idle" /\ UNCHANGED <<today, skipped, delivered, held>>
      /\ sub' = sub
  BY DEF Start, StartMaterialize, StartPause, StartDisruption, StartRequest,
     AnswerRequest, Begin, Idle
<1>2. sub'.claimed <= today /\ sub' = sub
  BY <1>1, OnlyCall DEF RowInv
<1>3. CASE StartMaterialize(p)
  <2>1. /\ call'[p].phase = "materialize" /\ call'[p].day = 0
        /\ call'[p].saw = sub /\ call'[p].after = 0 /\ sub.status = "ACTIVE"
    BY <1>0, <1>3, AfterStartMaterialize DEF StartMaterialize
  <2>2. Knows(call[p])'
    BY <1>1, <2>1 DEF Knows, Disruption, OnTheWay, Answering
  <2>3. RowInv'
    BY <1>1, <1>2, <2>1, RowStay DEF In
  <2>4. QED
    BY <2>2, <2>3
<1>4. ASSUME NEW from \in Days, NEW to \in Days, StartPause(p, from, to)
      PROVE  RowInv' /\ Knows(call[p])'
  <2>1. /\ call'[p].phase = "calendar" /\ call'[p].day = 0
        /\ call'[p].saw = sub /\ call'[p].from = from /\ call'[p].to = to
    BY <1>0, <1>4, AfterStartPause
  <2>2. sub.status = "ACTIVE" /\ (from..to) \cap Closed = {}
    BY <1>0, <1>4, ZenonT(30) DEF StartPause
  <2>3. Knows(call[p])'
    BY <1>1, <2>1, <2>2 DEF Knows, Disruption, OnTheWay, Answering
  <2>4. RowInv'
    BY <1>1, <1>2, <2>1, RowStay DEF In
  <2>5. QED
    BY <2>3, <2>4
<1>5. CASE StartRequest(p)
  <2>1. /\ call'[p].phase = "request" /\ call'[p].day = 0
        /\ call'[p].after = 0 /\ sub.status = "ACTIVE"
    BY <1>0, <1>5, AfterStartRequest DEF StartRequest
  <2>2. Knows(call[p])'
    BY <1>1, <2>1 DEF Knows, Disruption, OnTheWay, Answering
  <2>3. RowInv'
    BY <1>1, <1>2, <2>1, RowStay DEF In
  <2>4. QED
    BY <2>2, <2>3
<1>6. CASE AnswerRequest(p)
  <2>1. /\ call'[p].phase = "findHeld" /\ call'[p].after = 0
        /\ request'.status = "WITHDRAWN"
    BY <1>0, <1>6, AfterAnswerRequest, OnlyCall DEF AnswerRequest, Requests
  <2>2. Knows(call[p])'
    BY <1>1, <2>1 DEF Knows, Disruption, OnTheWay, Answering
  <2>3. RowInv'
    BY <1>1, <1>2, <2>1, RowStay DEF In
  <2>4. QED
    BY <2>2, <2>3
<1>7. QED
  BY <1>0, <1>3, <1>4, <1>5, <1>6 DEF Start

\* A held day is skipped, and becomes one to be banked.
LEMMA HeldSkipLone ==
  ASSUME OneCall, TypeInv', NEW p \in Procs, CreateHeldSkip(p)
  PROVE  RowInv' /\ Knows(call[p])'
<1> USE DEF bounds
<1>0. /\ TypeInv /\ RowInv /\ \A q \in Procs : q = p
      /\ Knows(call[p]) /\ Claim(p) /\ HasDay(call[p]) /\ call[p].day \in 0..Horizon
      /\ call[p].saw.cycleEnd = sub.cycleEnd /\ sub.cycleEnd \in Nat
  BY OnlyCall DEF CreateHeldSkip, In, OneCall, Calls, Knows
<1>1. /\ call[p].phase = "heldSkip" /\ call'[p] = NoCall
      /\ UNCHANGED <<today, sub, delivered>>
      /\ skipped' = skipped \cup {call[p].day}
      /\ held' = held \cup {<<call[p].day, call[p].req>>}
  BY <1>0, AfterReturn DEF CreateHeldSkip, In
<1>2. call[p].day \in 1..sub.cycleEnd /\ call[p].day \notin DeliveredDays
  BY <1>0, <1>1 DEF Claim, In, HasDay, DeliveredDays
<1>3. skipped \subseteq 0..sub.cycleEnd
  BY <1>0, <1>1 DEF RowInv, In
<1>4. DeliveredDays' = DeliveredDays
  BY <1>1 DEF DeliveredDays
<1>5. \A h \in held' : h[1] \in skipped'
  BY <1>0, <1>1 DEF RowInv
<1>6. skipped' \subseteq 0..sub.cycleEnd
  <2>1. call[p].day \in 0..sub.cycleEnd
    BY <1>0, <1>2
  <2>2. QED
    BY <1>1, <1>3, <2>1
<1>7. DeliveredDays' \subseteq (1..sub.cycleEnd) \ skipped'
  BY <1>0, <1>1, <1>2, <1>4 DEF RowInv
<1>8. RowInv'
  BY <1>0, <1>1, <1>5, <1>6, <1>7 DEF RowInv
<1>9. QED
  BY <1>1, <1>8, RestKnows

\* A day delivered is one of the plan's, not skipped.
LEMMA OrderLone ==
  ASSUME OneCall, TypeInv', NEW p \in Procs, CreateOrder(p)
  PROVE  RowInv' /\ Knows(call[p])'
<1> USE DEF bounds
<1>0. /\ TypeInv /\ RowInv /\ \A q \in Procs : q = p
      /\ Knows(call[p]) /\ Claim(p) /\ HasDay(call[p]) /\ call[p].day \in 0..Horizon
      /\ Shape(call[p]) /\ call[p].phase = "order"
      /\ call[p].saw.cycleEnd = sub.cycleEnd /\ sub.cycleEnd \in Nat
  BY OnlyCall DEF CreateOrder, In, OneCall, Calls, Knows
<1>1. /\ call'[p].phase = "advance" /\ call'[p].day = call[p].day
      /\ call'[p].saw = call[p].saw /\ call'[p].after = call[p].after
      /\ UNCHANGED <<today, sub, skipped, held>>
  BY <1>0, AfterGoto DEF CreateOrder, Carries
<1>2. call[p].day \in Days /\ call[p].day \in (1..sub.cycleEnd) \ skipped
  BY <1>0 DEF Claim, HasDay, Days, Knows, OnTheWay
<1>3. /\ DeliveredDays' \subseteq DeliveredDays \cup {call[p].day}
      /\ delivered'[call[p].day] > 0
  BY <1>0, <1>2 DEF CreateOrder, DeliveredDays, TypeInv, TypeOK
<1>4. RowInv'
  <2>1. skipped \subseteq 0..sub.cycleEnd
    BY <1>0 DEF RowInv, In
  <2>2. QED
    BY <1>0, <1>1, <1>2, <1>3, <2>1 DEF RowInv
<1>5. call[p].after = 0
  BY <1>0 DEF Shape, Calls, OneCall, TypeInv, TypeOK
<1>6. Knows(call[p])'
  BY <1>0, <1>1, <1>3, <1>5 DEF Knows, Disruption, OnTheWay, Answering
<1>7. QED
  BY <1>4, <1>6

\* What is skipped has not been delivered, and lies in the plan or, where a
\* pause outlasts it, up to the day the credit is counted from.
LEMMA SkipLone ==
  ASSUME OneCall, TypeInv', NEW p \in Procs, CreateSkip(p)
  PROVE  RowInv' /\ Knows(call[p])'
<1> USE DEF bounds
<1> DEFINE c == call[p]
<1>0. /\ TypeInv /\ RowInv /\ \A q \in Procs : q = p
      /\ Knows(c) /\ Claim(p) /\ Shape(c) /\ c.phase = "skip"
      /\ c.from \in Nat /\ c.to \in Nat /\ c.after \in Nat /\ c.day \in 0..Horizon
      /\ c.saw.cycleEnd = sub.cycleEnd /\ sub.cycleEnd \in Nat /\ today \in Nat
      /\ ClaimInv
  <2>1. c.phase = "skip"
    BY DEF CreateSkip, In
  <2>2. Knows(c) => c.saw.cycleEnd = sub.cycleEnd
    BY <2>1 DEF Knows
  <2>3. QED
    BY <2>1, <2>2, OnlyCall
<1>1. /\ call'[p].phase = "extend" /\ Carries(p) /\ call'[p].day = c.day
      /\ skipped' = skipped \cup (c.from..c.to)
      /\ UNCHANGED <<today, sub, held, delivered, request>>
  BY <1>0, AfterGoto DEF CreateSkip
<1>2. skipped \subseteq 0..sub.cycleEnd
  BY <1>0 DEF RowInv, In
<1>3. DeliveredDays' = DeliveredDays
  BY <1>1 DEF DeliveredDays
<1>4. \A d \in c.from..c.to :
        /\ d \in 0..(IF c.after > sub.cycleEnd THEN c.after ELSE sub.cycleEnd)
        /\ d \notin DeliveredDays
  <2>1. CASE c.after > 0
    BY <1>0, <2>1 DEF Shape, ClaimInv
  <2>2. CASE c.after = 0
    <3>1. c.day # 0
      BY <1>0, <2>2 DEF Knows, Disruption
    <3>2. QED
      BY <1>0, <2>2, <3>1 DEF Shape, Claim, ClaimInv
  <2>3. QED
    BY <1>0, <2>1, <2>2
<1>5. RowInv'
  BY <1>0, <1>1, <1>3, <1>4 DEF RowInv, In
<1>6. skipped' \subseteq 0..(IF c.after > sub.cycleEnd THEN c.after ELSE sub.cycleEnd)
  <2> DEFINE T == IF c.after > sub.cycleEnd THEN c.after ELSE sub.cycleEnd
  <2>1. T \in Nat /\ T >= sub.cycleEnd
    BY <1>0
  <2>2. c.from..c.to \subseteq 0..T
    BY <1>4
  <2> HIDE DEF T
  <2>3. skipped \subseteq 0..T
    BY <1>0, <1>2, <2>1
  <2>4. skipped' \subseteq 0..T
    BY <1>1, <2>2, <2>3
  <2>5. QED
    BY <2>4 DEF T
<1>7. Knows(call[p])'
  BY <1>0, <1>1, <1>6 DEF Knows, Disruption, OnTheWay, Answering, Carries
<1>8. QED
  BY <1>5, <1>7

\* The row ends later, and after everything that is skipped.
LEMMA ExtendedLone ==
  ASSUME OneCall, TypeInv', NEW p \in Procs, sub' = Extended(call[p]),
         UNCHANGED <<today, skipped, held, delivered>>,
         call[p].phase \in {"extend", "bankHeld"},
         call'[p].phase \notin {"extend"},
         sub.status # "EXPIRED"
  PROVE  /\ RowInv'
         /\ sub'.cycleEnd > sub.cycleEnd
         /\ sub'.cycleEnd > call[p].after
<1> DEFINE c == call[p]
           E == sub.cycleEnd
<1>0. /\ TypeInv /\ RowInv /\ \A q \in Procs : q = p
      /\ Knows(c) /\ Shape(c) /\ Credits(c)
      /\ c.n \in Nat \ {0} /\ c.after \in Nat
      /\ c.saw.cycleEnd = E /\ E \in Nat /\ E >= Duration
  <2>1. Knows(c) => c.saw.cycleEnd = E
    BY DEF Knows
  <2>2. Credits(c) => c.n > 0
    BY DEF Credits
  <2>3. QED
    BY <2>1, <2>2, OnlyCall
<1>1. sub'.cycleEnd = Bank(E, c.n, c.after)
  BY <1>0, ExtendedEnds
<1>2. /\ sub'.cycleEnd \in Nat
      /\ sub'.cycleEnd > IF c.after > E THEN c.after ELSE E
  <2> DEFINE n == c.n
             a == c.after
  <2>1. n \in Nat \ {0} /\ a \in Nat /\ E \in Nat
    BY <1>0
  <2> HIDE DEF n, a, E
  <2>2. /\ Bank(E, n, a) \in Nat
        /\ Bank(E, n, a) > IF a > E THEN a ELSE E
    BY <2>1, BankIsRight
  <2>3. QED
    BY <1>1, <2>2 DEF n, a, E
<1>3. sub'.cycleEnd > E /\ sub'.cycleEnd > c.after
  BY <1>0, <1>2
<1>4. DeliveredDays' = DeliveredDays
  BY DEF DeliveredDays
<1>5. sub'.claimed = sub.claimed /\ sub'.status = sub.status
  BY <1>0, ExtendedKeeps
<1>6. skipped \subseteq 0..sub'.cycleEnd
  <2>1. CASE c.phase = "extend"
    BY <1>0, <1>2, <1>3, <2>1 DEF Knows
  <2>2. CASE c.phase = "bankHeld"
    BY <1>0, <1>2, <1>3, <2>2 DEF RowInv, In
  <2>3. QED
    BY <2>1, <2>2
<1>7. DeliveredDays' \subseteq (1..sub'.cycleEnd) \ skipped'
  BY <1>0, <1>2, <1>3, <1>4 DEF RowInv
<1>8. RowInv'
  BY <1>0, <1>5, <1>6, <1>7 DEF RowInv
<1>9. QED
  BY <1>3, <1>8

\* The row is written from the end the call read, which is the end it has.
LEMMA ExtendLone ==
  ASSUME OneCall, TypeInv', NEW p \in Procs, ExtendCycleEnd(p)
  PROVE  RowInv' /\ Knows(call[p])'
<1>1. /\ TypeInv /\ Knows(call[p]) /\ call[p].phase = "extend"
  BY OnlyCall DEF OneCall, ExtendCycleEnd, In
<1>2. call'[p] = NoCall
  BY <1>1, AfterReturn DEF ExtendCycleEnd
<1>3. RowInv'
  BY <1>1, <1>2, AtRest, ExtendedLone DEF ExtendCycleEnd, Knows
<1>4. QED
  BY <1>2, <1>3, RestKnows

\* The held days an answer banks come after the end the row has, which moves
\* past them before they are marked.
LEMMA BankHeldLone ==
  ASSUME OneCall, TypeInv', NEW p \in Procs, BankHeldDays(p)
  PROVE  RowInv' /\ Knows(call[p])'
<1>1. /\ TypeInv /\ Knows(call[p]) /\ call[p].phase = "bankHeld" /\ Shape(call[p])
      /\ call[p].after \in Nat
  BY OnlyCall DEF OneCall, BankHeldDays, In, Calls
<1>2. call'[p].phase = "mark" /\ call'[p].day = call[p].day /\ Carries(p)
  BY <1>1, AfterGoto DEF BankHeldDays
<1>3. RowInv'
  BY <1>1, <1>2, ExtendedLone DEF BankHeldDays, Knows
<1>4. sub'.status = sub.status
  BY <1>1, ExtendedKeeps DEF BankHeldDays
<1>5. Knows(call[p])'
  BY <1>1, <1>2, <1>4
     DEF BankHeldDays, Knows, Shape, Disruption, OnTheWay, Answering, Carries
<1>6. QED
  BY <1>3, <1>5

\* The days an answer banked are marked, and the call ends on a plan not expired.
LEMMA MarkLone ==
  ASSUME OneCall, TypeInv', NEW p \in Procs, MarkHeldSkipsBanked(p)
  PROVE  RowInv' /\ Knows(call[p])'
<1> USE DEF bounds
<1>1. /\ TypeInv /\ Knows(call[p]) /\ call[p].phase = "mark" /\ RowInv
  BY OnlyCall DEF OneCall, MarkHeldSkipsBanked, In
<1>2. call'[p] = NoCall
  BY <1>1, AfterReturn DEF MarkHeldSkipsBanked, Knows
<1>3. UNCHANGED <<today, skipped, delivered, sub>> /\ held' \subseteq held
  BY DEF MarkHeldSkipsBanked
<1>4. RowInv'
  BY <1>1, <1>2, <1>3, AtRest, RowStay DEF In, RowInv
<1>5. QED
  BY <1>2, <1>4, RestKnows

\* The other steps of a call write no day and move no end.
LEMMA ContinueLone ==
  ASSUME OneCall, PlanInv, TypeInv', NEW p \in Procs, Continue(p)
  PROVE  RowInv' /\ Knows(call[p])'
<1> USE DEF rows, bounds
<1>0. /\ TypeInv /\ RowInv /\ Knows(call[p]) /\ Shape(call[p]) /\ Claim(p)
      /\ call[p].day \in 0..Horizon /\ call[p].n \in Nat /\ call[p].after \in Nat
      /\ sub \in Rows /\ sub.cycleEnd \in Nat /\ today \in Nat /\ sub.claimed <= today
  BY OnlyCall DEF RowInv
<1>1. CASE CreateHeldSkip(p) \/ CreateOrder(p) \/ CreateSkip(p)
           \/ ExtendCycleEnd(p) \/ BankHeldDays(p) \/ MarkHeldSkipsBanked(p)
  BY <1>1, HeldSkipLone, OrderLone, SkipLone, ExtendLone, BankHeldLone, MarkLone
<1>2. CASE NotDue(p) \/ ExpireSubscription(p) \/ AdvanceSubscriptionDay(p)
           \/ CreateIfNonePending(p)
  <2>1. /\ call'[p] = NoCall
        /\ call[p].phase \in {"materialize", "advance", "request"}
        /\ UNCHANGED <<today, skipped, delivered, held>>
    BY <1>0, <1>2, AfterReturn DEF NotDue, ExpireSubscription, In,
       AdvanceSubscriptionDay, CreateIfNonePending
  <2>2. /\ sub'.cycleEnd = sub.cycleEnd /\ sub'.claimed = sub.claimed
        /\ sub'.status = "EXPIRED" =>
             sub.status = "EXPIRED" \/ today > sub.cycleEnd
    BY <1>0, <1>2 DEF NotDue, ExpireSubscription, In, AdvanceSubscriptionDay,
       CreateIfNonePending, Rows, Knows
  <2>3. RowInv'
    BY <1>0, <2>1, <2>2, AtRest, RowStay DEF In
  <2>4. QED
    BY <2>1, <2>3, RestKnows
<1>3. CASE ClaimDay(p)
  <2>1. /\ call[p].phase = "materialize"
        /\ \/ sub' = sub /\ call'[p] = NoCall
           \/ /\ sub' = [sub EXCEPT !.claimed = today]
              /\ call'[p].phase = "lookup" /\ Carries(p)
    BY <1>0, <1>3, AfterClaimDay
  <2>2. UNCHANGED <<today, skipped, delivered, held, request>>
    BY <1>3 DEF ClaimDay
  <2>3. /\ sub'.cycleEnd = sub.cycleEnd /\ sub'.claimed <= today
        /\ sub'.status = sub.status
    BY <1>0, <2>1 DEF Rows
  <2>4. RowInv'
    BY <2>1, <2>2, <2>3, AtRest, RowStay DEF In
  <2>5. Knows(call[p])'
    <3>1. CASE call'[p] = NoCall
      BY <3>1, RestKnows
    <3>2. CASE call'[p].phase = "lookup" /\ Carries(p)
      BY <1>0, <2>1, <2>2, <2>3, <3>2
         DEF Knows, Shape, Disruption, OnTheWay, Answering, Carries
    <3>3. QED
      BY <2>1, <3>1, <3>2
  <2>6. QED
    BY <2>4, <2>5
<1>4. CASE LookupSkip(p)
  <2>1. UNCHANGED <<today, sub, skipped, delivered, held, request>>
    BY <1>4 DEF LookupSkip
  <2>2. call[p].phase = "lookup" /\ call[p].after = 0
    BY <1>0, <1>4 DEF LookupSkip, In, Shape
  <2>3. Knows(call[p])' /\ call'[p].phase # "extend"
    <3>1. CASE call'[p] = NoCall
      BY <3>1, RestKnows, AtRest
    <3>2. CASE /\ call[p].day \in Closed \ skipped
               /\ call'[p].phase = "skip" /\ call'[p].day = call[p].day
               /\ call'[p].from = call[p].day /\ call'[p].to = call[p].day
               /\ call'[p].n = 1 /\ call'[p].after = call[p].after
               /\ call'[p].saw = call[p].saw
      <4> DEFINE d == call[p].day
      <4>1. d \in Nat /\ d > 0
        BY <1>0, <2>2, OnlyCall DEF HasDay
      <4>2. d <= sub.cycleEnd
        BY <1>0, <2>2, <4>1 DEF Claim, Knows
      <4>3. (d..d) \cap Kept = {d}
        BY <1>0, <3>2, <4>1, <4>2 DEF Kept
      <4>4. Cardinality({d}) = 1
        BY FS_Singleton
      <4>5. ((call[p].from..call[p].to) \cap Kept)' = {d}
        BY <2>1, <3>2, <4>3 DEF Kept
      <4>6. QED
        BY <1>0, <2>1, <2>2, <3>2, <4>1, <4>4, <4>5
           DEF Knows, Disruption, OnTheWay, Answering
    <3>3. CASE /\ call[p].day \notin Closed \cup skipped
               /\ call'[p].phase = "hold" /\ call'[p].day = call[p].day /\ Carries(p)
      BY <1>0, <2>1, <2>2, <3>3
         DEF Knows, Disruption, OnTheWay, Answering, Carries
    <3>4. QED
      BY <1>0, <1>4, <3>1, <3>2, <3>3, AfterLookupSkip
  <2>4. RowInv'
    BY <1>0, <2>1, <2>2, <2>3, RowStay DEF In
  <2>5. QED
    BY <2>3, <2>4
<1>5. CASE LookupHold(p)
  <2>1. UNCHANGED <<today, sub, skipped, delivered, held, request>>
    BY <1>5 DEF LookupHold
  <2>2. /\ call[p].phase = "hold" /\ call'[p].day = call[p].day
        /\ call'[p].saw = call[p].saw /\ call'[p].after = call[p].after
        /\ \/ /\ request.status = "PENDING"
              /\ call'[p].phase = "heldSkip" /\ call'[p].req = request.id
           \/ call'[p].phase = "order"
    BY <1>0, <1>5, AfterLookupHold
  <2>3. Knows(call[p])'
    BY <1>0, <2>1, <2>2
       DEF Knows, Shape, Disruption, OnTheWay, Answering
  <2>4. RowInv'
    BY <1>0, <2>1, <2>2, RowStay DEF In
  <2>5. QED
    BY <2>3, <2>4
<1>6. CASE BuildDeliveryCalendar(p)
  <2>1. UNCHANGED <<today, sub, skipped, delivered, held, request>>
    BY <1>6 DEF BuildDeliveryCalendar
  <2> DEFINE stopped == PausedDeliveryDays(call[p].saw.cycleEnd, call[p].from, call[p].to)
  <2>2. /\ call[p].phase = "calendar"
        /\ \/ call'[p] = NoCall
           \/ /\ call'[p].phase = "skip" /\ call'[p].n = Cardinality(stopped)
              /\ call'[p].day = call[p].day
              /\ call'[p].from = call[p].from /\ call'[p].to = call[p].to
              /\ call'[p].after = call[p].after /\ call'[p].saw = call[p].saw
    BY <1>0, <1>6, AfterCalendar
  <2>3. /\ call[p].saw.cycleEnd = sub.cycleEnd /\ call[p].after > 0
        /\ (call[p].from..call[p].to) \cap Closed = {}
    BY <1>0, <2>2 DEF Knows, Shape
  <2>4. stopped = (call[p].from..call[p].to) \cap Kept
    BY <2>3 DEF PausedDeliveryDays, Kept
  <2> HIDE DEF stopped
  <2>5. Knows(call[p])' /\ call'[p].phase # "extend"
    <3>1. CASE call'[p] = NoCall
      BY <3>1, RestKnows, AtRest
    <3>2. CASE call'[p] # NoCall
      <4>1. call'[p].n = Cardinality((call[p].from..call[p].to) \cap Kept)'
        BY <2>1, <2>2, <2>4, <3>2 DEF Kept
      <4>2. QED
        BY <1>0, <2>1, <2>2, <2>3, <3>2, <4>1
           DEF Knows, Disruption, OnTheWay, Answering
    <3>3. QED
      BY <3>1, <3>2
  <2>6. RowInv'
    BY <1>0, <2>1, <2>2, <2>5, RowStay DEF In
  <2>7. QED
    BY <2>5, <2>6
<1>7. CASE FindUnbankedHeldSkips(p)
  <2>1. UNCHANGED <<today, sub, skipped, delivered, held, request>>
    BY <1>7 DEF FindUnbankedHeldSkips
  <2>2. call[p].phase = "findHeld"
    BY <1>7 DEF FindUnbankedHeldSkips, In
  <2>3. CASE call'[p] = NoCall
    <3>1. RowInv'
      BY <1>0, <2>1, <2>2, <2>3, AtRest, RowStay DEF In
    <3>2. QED
      BY <2>3, <3>1, RestKnows
  <2>4. CASE call'[p] # NoCall
    <3> DEFINE found == {d \in Days : <<d, call[p].req>> \in held}
    <3>1. /\ found # {} /\ call'[p].phase = "bankHeld"
          /\ call'[p].found = found /\ call'[p].saw = sub
          /\ call'[p].day = call[p].day /\ call'[p].req = call[p].req
          /\ call'[p].after = call[p].after
      BY <1>0, <1>7, <2>4, AfterFindHeld
    <3>2. sub.status # "CANCELLED"
      BY <1>0, <1>7, <2>4, AfterReturn DEF FindUnbankedHeldSkips
    <3>3. RowInv'
      BY <1>0, <2>1, <2>2, <3>1, RowStay DEF In
    <3>4. sub.status # "EXPIRED"
      <4>1. PICK d \in Days : <<d, call[p].req>> \in held
        BY <3>1
      <4>2. <<d, call[p].req>> \in ToBank
        BY <2>2, <4>1 DEF ToBank
      <4>3. ~(today > sub.cycleEnd)
        BY <3>2, <4>2 DEF PlanInv, Alive
      <4>4. QED
        BY <1>0, <4>3 DEF RowInv
    <3>5. call'[p].found = {d \in Days : <<d, call'[p].req>> \in held'}
      BY <2>1, <3>1
    <3>6. Knows(call[p])'
      BY <1>0, <2>1, <2>2, <3>1, <3>4, <3>5
         DEF Knows, Shape, Disruption, OnTheWay, Answering
    <3>7. QED
      BY <3>3, <3>6
  <2>5. QED
    BY <2>3, <2>4
<1>8. CASE ReleaseMaterializationDate(p) \/ ReactivateSubscription(p)
  BY <1>0, <1>8 DEF ReleaseMaterializationDate, ReactivateSubscription, In, Knows
<1>9. QED
  BY <1>1, <1>2, <1>3, <1>4, <1>5, <1>6, <1>7, <1>8 DEF Continue

\* The bank is what the open request holds, or the one this call answers.
LEMMA OwnBank ==
  ASSUME OneCall, NEW p \in Procs
  PROVE  /\ ToBank = {h \in held : \/ request.status = "PENDING" /\ request.id = h[2]
                                   \/ Banking(call[p]) /\ call[p].req = h[2]}
         /\ ToBank' = {h \in held' : \/ request'.status = "PENDING" /\ request'.id = h[2]
                                     \/ Banking(call'[p]) /\ call'[p].req = h[2]}
<1>1. \A q \in Procs : q = p
  BY OnlyCall
<1>2. QED
  BY <1>1 DEF ToBank, Banking

\* A call that does not let the plan expire is over a plan that is alive only
\* if it is not cancelled.
LEMMA OwnLife ==
  ASSUME OneCall, NEW p \in Procs
  PROVE  /\ Alive <=> \/ sub.status # "CANCELLED"
                      \/ In(p, "materialize") /\ today > call[p].saw.cycleEnd
         /\ Alive' <=> \/ sub'.status # "CANCELLED"
                       \/ /\ call'[p].phase = "materialize"
                          /\ today' > call'[p].saw.cycleEnd
<1>1. \A q \in Procs : q = p
  BY OnlyCall
<1>2. QED
  BY <1>1 DEF Alive, In

\* A step that leaves the days of the plan as they are.
LEMMA PlanFrame ==
  ASSUME OneCall, PlanInv, NEW p \in Procs, Alive' => Alive /\ ToBank' = ToBank,
         UNCHANGED <<today, skipped>>,
         sub'.cycleEnd = sub.cycleEnd,
         \A d \in Kept : delivered[d] > 0 => delivered'[d] > 0,
         today \in Kept /\ sub'.claimed = today /\ call'[p].day = 0 =>
           \/ sub.claimed = today /\ call[p].day = 0
           \/ delivered'[today] > 0,
         ~In(p, "extend"), call'[p].phase # "extend"
  PROVE  PlanInv'
<1>1. \A q \in Procs : q = p
  BY OnlyCall
<1> SUFFICES ASSUME Alive' PROVE PlanInv'
  BY DEF PlanInv
<1>2. Alive /\ ToBank' = ToBank /\ Kept' = Kept
  BY DEF Kept
<1>3. ASSUME NEW d \in Kept', Due(d)' PROVE delivered'[d] > 0
  <2>1. CASE d < today
    BY <1>2, <2>1 DEF PlanInv, Due
  <2>2. CASE d = today /\ sub'.claimed = today /\ call'[p].day = 0
    <3>1. CASE delivered'[today] > 0
      BY <2>2, <3>1
    <3>2. CASE sub.claimed = today /\ call[p].day = 0
      BY <1>1, <1>2, <2>2, <3>2 DEF PlanInv, Due
    <3>3. QED
      BY <1>2, <1>3, <2>2, <3>1, <3>2
  <2>3. QED
    BY <1>3, <2>1, <2>2 DEF Due
<1>4. today' > sub'.cycleEnd => ToBank' = {}
  BY <1>2 DEF PlanInv
<1>5. Planned(0)'
  BY <1>1, <1>2 DEF PlanInv, Planned, In
<1>6. QED
  BY <1>1, <1>3, <1>4, <1>5 DEF PlanInv, In

\* The days of the plan and those to be banked can be counted.
LEMMA PlanCounts ==
  ASSUME OneCall
  PROVE  /\ IsFiniteSet(Kept) /\ IsFiniteSet(ToBank)
         /\ Cardinality(Kept) \in Nat /\ Cardinality(ToBank) \in Nat
<1>1. IsFiniteSet(1..sub.cycleEnd) /\ IsFiniteSet(held)
  BY FS_Interval DEF OneCall, TypeInv, TypeOK, Rows, AnswerInv
<1>2. Kept \subseteq 1..sub.cycleEnd /\ ToBank \subseteq held
  BY DEF Kept, ToBank
<1>3. QED
  BY <1>1, <1>2, SmallerCounts

\* What an answer banks is what the request held.
LEMMA StartPlan ==
  ASSUME OneCall, PlanInv, TypeInv', NEW p \in Procs, Start(p)
  PROVE  PlanInv'
<1> USE DEF rows, bounds
<1>0. /\ TypeInv /\ Shape(call[p]) /\ request \in Requests
      /\ "disrupt" \notin Handlers
  BY OnlyCall DEF OneCall, Lone
<1>1. /\ call[p].phase = "idle" /\ call[p].day = 0
      /\ UNCHANGED <<today, skipped, delivered, held, sub>>
  <2>1. /\ call[p].phase = "idle"
        /\ UNCHANGED <<today, skipped, delivered, held, sub>>
    BY DEF Start, StartMaterialize, StartPause, StartDisruption, StartRequest,
       AnswerRequest, Begin, Idle
  <2>2. QED
    BY <1>0, <2>1 DEF Shape
<1>2. CASE ~AnswerRequest(p)
  <2>1. /\ call'[p].phase \in {"materialize", "calendar", "request"}
        /\ sub.status = "ACTIVE" /\ request' = request
    <3>1. call'[p].phase \in {"materialize", "calendar", "request"}
      BY <1>0, <1>2, AfterStartMaterialize, AfterStartPause, AfterStartRequest
         DEF Start
    <3>2. QED
      BY <1>0, <1>2, <3>1 DEF Start, StartMaterialize, StartPause, StartRequest
  <2>2. ToBank' = ToBank
    BY <1>1, <2>1, OwnBank DEF Banking
  <2>3. Alive
    BY <2>1 DEF Alive
  <2>4. QED
    BY <1>1, <2>1, <2>2, <2>3, PlanFrame DEF In
<1>3. CASE AnswerRequest(p)
  <2>1. /\ call'[p].phase = "findHeld" /\ call'[p].req = request.id
        /\ request.status = "PENDING" /\ request'.status # "PENDING"
    BY <1>0, <1>3, AfterAnswerRequest DEF AnswerRequest, Requests
  <2>2. ToBank' = ToBank
    BY <1>1, <2>1, OwnBank DEF Banking
  <2>3. Alive' => Alive
    BY <1>1, <2>1, OwnLife
  <2>4. QED
    BY <1>1, <2>1, <2>2, <2>3, PlanFrame DEF In
<1>4. QED
  BY <1>2, <1>3

\* A held day leaves the plan and joins what is to be banked.
LEMMA HeldSkipPlan ==
  ASSUME OneCall, PlanInv, TypeInv', AnswerInv', NEW p \in Procs,
         CreateHeldSkip(p)
  PROVE  PlanInv'
<1> USE DEF bounds
<1> DEFINE d == call[p].day
           h == <<d, call[p].req>>
<1>0. /\ TypeInv /\ RowInv /\ Claim(p) /\ HasDay(call[p]) /\ Knows(call[p])
      /\ d \in 0..Horizon /\ sub.cycleEnd \in Nat /\ Duration \in Nat
      /\ today \in Nat /\ \A q \in Procs : q = p
  BY OnlyCall
<1>1. /\ call[p].phase = "heldSkip" /\ call'[p] = NoCall
      /\ UNCHANGED <<today, sub, delivered, request>>
      /\ skipped' = skipped \cup {d} /\ held' = held \cup {h}
  BY <1>0, AfterReturn DEF CreateHeldSkip, In
<1>2. d = today /\ d \in Kept /\ d \in Nat
  BY <1>0, <1>1 DEF Claim, HasDay, Knows, OnTheWay, Kept
<1> SUFFICES ASSUME Alive' PROVE PlanInv'
  BY DEF PlanInv
<1>3. /\ sub.status # "CANCELLED" /\ Alive
      /\ request.status = "PENDING" /\ request.id = call[p].req
  BY <1>0, <1>1, AtRest, OwnLife DEF Knows, Alive
<1>4. Kept' = Kept \ {d}
  BY <1>1 DEF Kept
<1>5. h \notin ToBank /\ ToBank' = ToBank \cup {h}
  <2>1. h \notin held
    BY <1>0, <1>2 DEF RowInv, Kept
  <2>2. ToBank = {g \in held : request.id = g[2]}
    BY <1>1, <1>3, OwnBank DEF Banking
  <2>3. ToBank' = {g \in held' : request.id = g[2]}
    BY <1>1, <1>3, AtRest, OwnBank DEF Banking
  <2>4. QED
    BY <1>1, <1>3, <2>1, <2>2, <2>3
<1>6. Planned(0)
  BY <1>0, <1>1, <1>3 DEF PlanInv, In
<1>7. /\ IsFiniteSet(Kept) /\ IsFiniteSet(ToBank)
      /\ Cardinality(Kept') = Cardinality(Kept) - 1
      /\ Cardinality(ToBank') = Cardinality(ToBank) + 1
      /\ Cardinality(Kept) \in Nat /\ Cardinality(ToBank) \in Nat
  <2>1. IsFiniteSet(Kept) /\ IsFiniteSet(ToBank)
    BY PlanCounts
  <2>2. QED
    BY <1>2, <1>4, <1>5, <2>1, FS_RemoveElement, FS_AddElement, FS_CardinalityType
<1>8. Planned(0)'
  BY <1>0, <1>6, <1>7 DEF Planned
<1>9. \A e \in Kept' : Due(e)' => delivered'[e] > 0
  <2> SUFFICES ASSUME NEW e \in Kept', Due(e)' PROVE delivered'[e] > 0
    OBVIOUS
  <2>1. e \in Kept /\ e # today
    BY <1>2, <1>4
  <2>2. Due(e)
    BY <1>1, <2>1 DEF Due
  <2>3. QED
    BY <1>1, <1>3, <2>1, <2>2 DEF PlanInv
<1>10. ~(today' > sub'.cycleEnd)
  BY <1>0, <1>1, <1>2 DEF Kept
<1>11. QED
  BY <1>0, <1>1, <1>8, <1>9, <1>10, AtRest DEF PlanInv, In

\* The plan grows by the days credited, all of them after its end.
LEMMA ExtendedKept ==
  ASSUME OneCall, NEW p \in Procs, sub' = Extended(call[p]),
         skipped' = skipped, call[p].phase \in {"extend", "bankHeld"}
  PROVE  /\ Cardinality(Kept') = Cardinality(Kept) + call[p].n
         /\ \A d \in Kept' : d \in Kept \/ d > sub.cycleEnd
         /\ sub'.cycleEnd > sub.cycleEnd
<1> DEFINE c == call[p]
           E == sub.cycleEnd
           n == c.n
           a == c.after
           base == IF a > E THEN a ELSE E
           e == Bank(E, n, a)
           new == (base + 1)..e
<1>0. /\ TypeInv /\ RowInv /\ Knows(c) /\ Shape(c) /\ Calm
      /\ n \in Nat \ {0} /\ a \in Nat /\ c.from \in Nat /\ c.to \in Nat
      /\ c.saw.cycleEnd = E /\ E \in Nat /\ E >= Duration
      /\ \A q \in Procs : q = p
  <2>1. Knows(c) => c.saw.cycleEnd = E
    BY DEF Knows
  <2>2. Credits(c) => c.n > 0
    BY DEF Credits
  <2>3. Calm
    BY DEF OneCall, Lone
  <2>4. QED
    BY <2>1, <2>2, <2>3, OnlyCall
<1>1. sub'.cycleEnd = e
  BY <1>0, ExtendedEnds
<1>2. (E + 1)..base \subseteq skipped /\ skipped \subseteq 0..base
  <2>1. CASE c.phase = "extend"
    <3>1. skipped \subseteq 0..base
      BY <1>0, <2>1 DEF Knows
    <3>2. CASE a > 0
      BY <1>0, <2>1, <3>1, <3>2 DEF Shape, Knows
    <3>3. CASE a = 0
      BY <1>0, <3>1, <3>3
    <3>4. QED
      BY <1>0, <3>2, <3>3
  <2>2. CASE c.phase = "bankHeld"
    BY <1>0, <2>2 DEF Shape, RowInv, In
  <2>3. QED
    BY <2>1, <2>2
<1>3. /\ e \in Nat /\ IsFiniteSet(new) /\ Cardinality(new) = n
  <2> HIDE DEF E, n, a
  <2>1. E \in Nat /\ E >= Duration /\ n \in Nat \ {0} /\ a \in Nat
    BY <1>0 DEF E, n, a
  <2>2. QED
    BY <1>0, <2>1, BankedDays
<1>4. e > base /\ base \in Nat /\ base >= E
  <2> HIDE DEF E, n, a
  <2>1. E \in Nat /\ n \in Nat \ {0} /\ a \in Nat
    BY <1>0 DEF E, n, a
  <2>2. e > base
    BY <2>1, BankIsRight
  <2>3. base \in Nat /\ base >= E
    BY <2>1
  <2> HIDE DEF base, e
  <2>4. QED
    BY <2>2, <2>3
<1> HIDE DEF e, base
<1>5. Kept' = Kept \cup new /\ Kept \cap new = {}
  BY <1>0, <1>1, <1>2, <1>3, <1>4 DEF Kept
<1>6. IsFiniteSet(Kept) /\ Cardinality(Kept) \in Nat
  BY PlanCounts
<1>7. Cardinality(Kept') = Cardinality(Kept) + n
  <2> HIDE DEF new, n
  <2>0. n \in Nat /\ Cardinality(new) = n
    BY <1>0, <1>3 DEF n
  <2>1. Cardinality(Kept \cup new)
          = Cardinality(Kept) + Cardinality(new) - Cardinality(Kept \cap new)
    BY <1>3, <1>6, FS_Union
  <2>2. Cardinality(Kept \cap new) = 0
    BY <1>5, FS_EmptySet, Zenon
  <2>3. Cardinality(Kept') = Cardinality(Kept \cup new)
    BY <1>5, Zenon
  <2>4. QED
    BY <2>0, <1>6, <2>1, <2>2, <2>3
<1>8. \A d \in Kept' : d \in Kept \/ d > E
  BY <1>0, <1>4, <1>5
<1>9. QED
  BY <1>0, <1>1, <1>3, <1>4, <1>7, <1>8

\* The days skipped leave the plan as they become the credit of this call.
LEMMA SkipPlan ==
  ASSUME OneCall, PlanInv, TypeInv', NEW p \in Procs, CreateSkip(p)
  PROVE  PlanInv'
<1> USE DEF bounds
<1> DEFINE c == call[p]
           gone == (c.from..c.to) \cap Kept
<1>0. /\ TypeInv /\ RowInv /\ Knows(c) /\ Duration \in Nat /\ c.n \in Nat
      /\ \A q \in Procs : q = p
  BY OnlyCall
<1>1. /\ c.phase = "skip" /\ call'[p].phase = "extend" /\ Carries(p)
      /\ call'[p].day = c.day
      /\ skipped' = skipped \cup (c.from..c.to)
      /\ UNCHANGED <<today, sub, delivered, request, held>>
  BY <1>0, AfterGoto DEF CreateSkip, In
<1> SUFFICES ASSUME Alive' PROVE PlanInv'
  BY DEF PlanInv
<1>2. Alive
  BY <1>1, OwnLife
<1>3. ToBank' = ToBank
  BY <1>1, OwnBank DEF Banking
<1>4. Kept' = Kept \ gone /\ gone \subseteq Kept /\ c.n = Cardinality(gone)
  BY <1>0, <1>1 DEF Kept, Knows
<1>5. Planned(0)
  BY <1>0, <1>1, <1>2 DEF PlanInv, In
<1>6. /\ IsFiniteSet(Kept) /\ Cardinality(Kept) \in Nat /\ Cardinality(ToBank) \in Nat
  BY PlanCounts
<1>7. Cardinality(Kept') = Cardinality(Kept) - c.n
  <2> HIDE DEF gone
  <2>1. Cardinality(Kept \ gone) = Cardinality(Kept) - Cardinality(Kept \cap gone)
    BY <1>6, FS_Difference
  <2>2. Kept \cap gone = gone
    BY <1>4
  <2>3. QED
    BY <1>4, <2>1, <2>2
<1>8. Planned(call[p].n)'
  BY <1>0, <1>1, <1>3, <1>5, <1>6, <1>7 DEF Planned, Carries
<1>9. \A e \in Kept' : Due(e)' => delivered'[e] > 0
  <2> SUFFICES ASSUME NEW e \in Kept', Due(e)' PROVE delivered'[e] > 0
    OBVIOUS
  <2>1. e \in Kept /\ Due(e)
    BY <1>0, <1>1, <1>4 DEF Due
  <2>2. QED
    BY <1>1, <1>2, <2>1 DEF PlanInv
<1>10. today' > sub'.cycleEnd => ToBank' = {}
  BY <1>1, <1>2, <1>3 DEF PlanInv
<1>11. QED
  BY <1>0, <1>1, <1>8, <1>9, <1>10 DEF PlanInv, In

\* A credit makes the plan whole again.
LEMMA ExtendPlan ==
  ASSUME OneCall, PlanInv, TypeInv', NEW p \in Procs, ExtendCycleEnd(p)
  PROVE  PlanInv'
<1> USE DEF bounds
<1> DEFINE c == call[p]
<1>0. /\ TypeInv /\ RowInv /\ Knows(c) /\ Shape(c) /\ Claim(p) /\ Duration \in Nat
      /\ c.n \in Nat /\ c.after \in Nat /\ c.day \in 0..Horizon
      /\ c.from \in Nat
      /\ sub.cycleEnd \in Nat /\ today \in Nat
      /\ \A q \in Procs : q = p
  BY OnlyCall
<1>1. /\ c.phase = "extend" /\ call'[p] = NoCall /\ sub' = Extended(c)
      /\ UNCHANGED <<today, skipped, delivered, request, held>>
  BY <1>0, AfterReturn DEF ExtendCycleEnd, In
<1>2. sub'.status = sub.status /\ sub'.claimed = sub.claimed
  BY <1>0, <1>1, ExtendedKeeps
<1> SUFFICES ASSUME Alive' PROVE PlanInv'
  BY DEF PlanInv
<1>3. Alive
  BY <1>1, <1>2, AtRest, OwnLife
<1>4. ToBank' = ToBank
  BY <1>1, AtRest, OwnBank DEF Banking
<1>5. Planned(c.n)
  BY <1>1, <1>3 DEF PlanInv, In
<1>6. /\ Cardinality(Kept') = Cardinality(Kept) + c.n
      /\ \A d \in Kept' : d \in Kept \/ d > sub.cycleEnd
      /\ sub'.cycleEnd > sub.cycleEnd
  BY <1>1, ExtendedKept
<1>7. Planned(0)'
  BY <1>0, <1>4, <1>5, <1>6, PlanCounts DEF Planned
<1>8. today <= sub.cycleEnd /\ (c.day # 0 => today \in skipped)
  <2>1. CASE c.after > 0
    BY <1>0, <1>1, <2>1 DEF Shape, Knows
  <2>2. CASE c.after = 0
    <3>1. c.day # 0
      BY <1>0, <1>1, <2>2 DEF Knows, Disruption
    <3>2. QED
      BY <1>0, <1>1, <2>2, <3>1 DEF Claim, Knows, Shape, Disruption
  <2>3. QED
    BY <1>0, <2>1, <2>2
<1>9. \A e \in Kept' : Due(e)' => delivered'[e] > 0
  <2> SUFFICES ASSUME NEW e \in Kept', Due(e)' PROVE delivered'[e] > 0
    OBVIOUS
  <2>1. e \in Nat /\ e <= today
    BY <1>0, <1>1 DEF Due, Kept
  <2>2. e \in Kept
    BY <1>0, <1>6, <1>8, <2>1
  <2>3. Due(e)
    BY <1>0, <1>1, <1>2, <1>8, <2>2 DEF Due, Kept
  <2>4. QED
    BY <1>1, <1>3, <2>2, <2>3 DEF PlanInv
<1>10. ~(today' > sub'.cycleEnd)
  <2>1. sub'.cycleEnd \in Nat
    BY DEF TypeInv, TypeOK, Rows
  <2>2. QED
    BY <1>0, <1>1, <1>6, <1>8, <2>1
<1>11. QED
  BY <1>0, <1>1, <1>7, <1>9, <1>10, AtRest DEF PlanInv, In

\* So do the days of a hold, which leave the bank as they join the plan.
LEMMA BankHeldPlan ==
  ASSUME OneCall, PlanInv, TypeInv', NEW p \in Procs, BankHeldDays(p)
  PROVE  PlanInv'
<1> USE DEF bounds
<1> DEFINE c == call[p]
<1>0. /\ TypeInv /\ RowInv /\ Knows(c) /\ Shape(c) /\ Duration \in Nat
      /\ c.n \in Nat \ {0} /\ sub.cycleEnd \in Nat /\ today \in Nat
      /\ \A q \in Procs : q = p
  <2>1. Credits(c) => c.n > 0
    BY DEF BankHeldDays, In, Credits
  <2>2. QED
    BY <2>1, OnlyCall
<1>1. /\ c.phase = "bankHeld" /\ call'[p].phase = "mark" /\ sub' = Extended(c)
      /\ call'[p].day = c.day
      /\ UNCHANGED <<today, skipped, delivered, request, held>>
  BY <1>0, AfterGoto DEF BankHeldDays, In
<1>2. sub'.status = sub.status /\ sub'.claimed = sub.claimed
  BY <1>0, <1>1, ExtendedKeeps
<1> SUFFICES ASSUME Alive' PROVE PlanInv'
  BY DEF PlanInv
<1>3. Alive
  BY <1>1, <1>2, OwnLife
<1>4. ToBank' = {} /\ Cardinality(ToBank) = c.n
  <2>1. request.status # "PENDING"
    BY <1>0, <1>1 DEF Knows, Answering
  <2>2. ToBank' = {}
    BY <1>1, <2>1, OwnBank DEF Banking
  <2>3. ToBank = {h \in held : c.req = h[2]}
    BY <1>1, <2>1, OwnBank DEF Banking
  <2>4. held \subseteq Days \X Nat /\ c.found = {d \in Days : <<d, c.req>> \in held}
    BY <1>0, <1>1 DEF TypeInv, TypeOK, Knows
  <2>5. /\ c.n = Cardinality(c.found) /\ IsFiniteSet(c.found)
        /\ Cardinality(c.found) \in Nat
    <3>1. c.found \subseteq Days /\ IsFiniteSet(Days)
      BY <2>4, CalendarAssumption, FS_Interval DEF Days
    <3>2. QED
      BY <1>0, <1>1, <3>1, FS_Subset, FS_CardinalityType DEF Shape
  <2>6. ToBank = c.found \X {c.req}
    BY <2>3, <2>4
  <2>7. IsFiniteSet({c.req}) /\ Cardinality({c.req}) = 1
    BY FS_Singleton
  <2>8. Cardinality(c.found \X {c.req}) = Cardinality(c.found) * 1
    BY <2>5, <2>7, FS_Product
  <2>9. QED
    BY <2>2, <2>5, <2>6, <2>8
<1>5. Planned(0)
  BY <1>0, <1>1, <1>3 DEF PlanInv, In
<1>6. /\ Cardinality(Kept') = Cardinality(Kept) + c.n
      /\ \A d \in Kept' : d \in Kept \/ d > sub.cycleEnd
      /\ sub'.cycleEnd > sub.cycleEnd
  BY <1>1, ExtendedKept
<1>7. Planned(0)'
  BY <1>0, <1>4, <1>5, <1>6, PlanCounts, FS_EmptySet DEF Planned
<1>8. today <= sub.cycleEnd
  <2>1. ToBank # {}
    BY <1>0, <1>4, FS_EmptySet
  <2>2. QED
    BY <1>0, <1>3, <2>1 DEF PlanInv
<1>9. \A e \in Kept' : Due(e)' => delivered'[e] > 0
  <2> SUFFICES ASSUME NEW e \in Kept', Due(e)' PROVE delivered'[e] > 0
    OBVIOUS
  <2>1. e \in Nat /\ e <= today
    BY <1>0, <1>1 DEF Due, Kept
  <2>2. e \in Kept
    BY <1>0, <1>6, <1>8, <2>1
  <2>3. Due(e)
    BY <1>0, <1>1, <1>2 DEF Due
  <2>4. QED
    BY <1>1, <1>3, <2>2, <2>3 DEF PlanInv
<1>10. QED
  BY <1>0, <1>1, <1>4, <1>7, <1>9 DEF PlanInv, In

\* The other steps of a call leave the days of the plan as they are: the day
\* that was worked on is delivered, skipped or still to come.
LEMMA ContinuePlan ==
  ASSUME OneCall, PlanInv, TypeInv', AnswerInv', NEW p \in Procs, Continue(p)
  PROVE  PlanInv'
<1> USE DEF rows, bounds
<1>0. /\ TypeInv /\ RowInv /\ Knows(call[p]) /\ Shape(call[p]) /\ Claim(p)
      /\ HasDay(call[p]) /\ call[p].day \in 0..Horizon /\ sub \in Rows
      /\ sub.cycleEnd \in Nat /\ today \in Nat
  BY OnlyCall
<1>1. CASE CreateHeldSkip(p) \/ CreateSkip(p) \/ ExtendCycleEnd(p)
           \/ BankHeldDays(p)
  BY <1>1, HeldSkipPlan, SkipPlan, ExtendPlan, BankHeldPlan
<1>2. CASE NotDue(p) \/ ExpireSubscription(p)
  <2>1. /\ call'[p] = NoCall /\ call[p].phase = "materialize" /\ call[p].day = 0
        /\ UNCHANGED <<today, skipped, delivered, held, request>>
        /\ sub'.cycleEnd = sub.cycleEnd /\ sub'.claimed = sub.claimed
    BY <1>0, <1>2, AfterReturn DEF NotDue, ExpireSubscription, In, Rows, Knows
  <2>2. Alive' => Alive
    BY <1>2, <2>1, AtRest, OwnLife DEF NotDue, ExpireSubscription, In
  <2>3. ToBank' = ToBank
    BY <2>1, AtRest, OwnBank DEF Banking
  <2>4. QED
    BY <2>1, <2>2, <2>3, AtRest, PlanFrame DEF In
<1>3. CASE ClaimDay(p)
  <2>1. /\ call[p].phase = "materialize" /\ call[p].day = 0 /\ today >= 1
        /\ UNCHANGED <<today, skipped, delivered, held, request>>
        /\ \/ sub' = sub /\ call'[p] = NoCall
           \/ /\ sub' = [sub EXCEPT !.claimed = today]
              /\ call'[p].phase = "lookup" /\ call'[p].day = today
        /\ ~(today > call[p].saw.cycleEnd)
    <3>1. call[p].saw.cycleEnd \in Nat /\ today \in 1..call[p].saw.cycleEnd
      BY <1>3, OnlyCall DEF ClaimDay, Calls, Rows
    <3>2. QED
      BY <1>0, <1>3, <3>1, AfterClaimDay DEF ClaimDay, Knows, In
  <2>2. sub'.cycleEnd = sub.cycleEnd /\ sub'.status = sub.status
    BY <1>0, <2>1 DEF Rows
  <2>3. Alive' => Alive
    BY <2>1, <2>2, AtRest, OwnLife
  <2>4. ToBank' = ToBank
    BY <2>1, AtRest, OwnBank DEF Banking
  <2>5. /\ call'[p].phase # "extend"
        /\ call'[p].day = 0 => sub' = sub
    BY <1>0, <2>1, AtRest
  <2>6. QED
    BY <2>1, <2>2, <2>3, <2>4, <2>5, PlanFrame DEF In
<1>4. CASE LookupSkip(p) \/ LookupHold(p) \/ BuildDeliveryCalendar(p)
  <2>1. UNCHANGED <<today, sub, skipped, delivered, held, request>>
    BY <1>4 DEF LookupSkip, LookupHold, BuildDeliveryCalendar
  <2>2. /\ call[p].phase \in {"lookup", "hold", "calendar"}
        /\ call'[p].phase \in {"idle", "skip", "hold", "heldSkip", "order"}
        /\ \/ call'[p].day = call[p].day
           \/ call'[p].day = 0 /\ call[p].day \in skipped \cup {0}
    <3>1. CASE LookupSkip(p)
      BY <1>0, <3>1, AfterLookupSkip, AtRest
    <3>2. CASE LookupHold(p)
      BY <1>0, <3>2, AfterLookupHold
    <3>3. CASE BuildDeliveryCalendar(p)
      <4>1. /\ call[p].phase = "calendar" /\ call[p].day = 0
        BY <1>0, <3>3 DEF BuildDeliveryCalendar, In, Shape
      <4>2. \/ call'[p] = NoCall
            \/ call'[p].phase = "skip" /\ call'[p].day = call[p].day
        BY <1>0, <3>3, AfterCalendar
      <4>3. QED
        BY <4>1, <4>2, AtRest
    <3>4. QED
      BY <1>4, <3>1, <3>2, <3>3
  <2>3. Alive' => Alive
    BY <2>1, <2>2, OwnLife
  <2>4. ToBank' = ToBank
    BY <2>1, <2>2, OwnBank DEF Banking
  <2>5. today \in Kept /\ call'[p].day = 0 => call[p].day = 0
    BY <1>0, <2>2 DEF Claim, Kept
  <2>6. QED
    BY <2>1, <2>2, <2>3, <2>4, <2>5, PlanFrame DEF In
<1>5. CASE CreateOrder(p)
  <2>1. /\ call[p].phase = "order" /\ call'[p].phase = "advance"
        /\ call'[p].day = call[p].day
        /\ UNCHANGED <<today, sub, skipped, held, request>>
    BY <1>0, <1>5, AfterGoto DEF CreateOrder, In
  <2>2. Alive' => Alive
    BY <2>1, OwnLife
  <2>3. ToBank' = ToBank
    BY <2>1, OwnBank DEF Banking
  <2>4. \A d \in Kept : delivered[d] > 0 => delivered'[d] > 0
    <3> SUFFICES ASSUME NEW d \in Kept, delivered[d] > 0 PROVE delivered'[d] > 0
      OBVIOUS
    <3>1. call[p].day \in Days /\ delivered \in [Days -> Nat]
      BY <1>0, <2>1 DEF HasDay, Days, TypeInv, TypeOK
    <3>2. delivered' = [delivered EXCEPT ![call[p].day] = @ + 1]
      BY <1>5 DEF CreateOrder
    <3>3. QED
      BY <3>1, <3>2
  <2>5. call'[p].day # 0
    BY <1>0, <2>1 DEF HasDay
  <2>6. QED
    BY <2>1, <2>2, <2>3, <2>4, <2>5, PlanFrame DEF In
<1>6. CASE AdvanceSubscriptionDay(p)
  <2>1. /\ call'[p] = NoCall /\ call[p].phase = "advance"
        /\ UNCHANGED <<today, skipped, delivered, held, request>>
        /\ sub'.cycleEnd = sub.cycleEnd /\ sub'.claimed = sub.claimed
        /\ sub'.status = sub.status
    BY <1>0, <1>6, AfterReturn DEF AdvanceSubscriptionDay, In, Rows
  <2>2. call[p].day = today /\ delivered[today] > 0
    BY <1>0, <2>1 DEF Claim, HasDay, Knows
  <2>3. Alive' => Alive
    BY <2>1, AtRest, OwnLife
  <2>4. ToBank' = ToBank
    BY <2>1, AtRest, OwnBank DEF Banking
  <2>5. QED
    BY <2>1, <2>2, <2>3, <2>4, AtRest, PlanFrame DEF In
<1>7. CASE CreateIfNonePending(p)
  <2>1. /\ call'[p] = NoCall /\ call[p].phase = "request" /\ call[p].day = 0
        /\ UNCHANGED <<today, sub, skipped, delivered, held>>
    BY <1>0, <1>7, AfterReturn DEF CreateIfNonePending, In, Knows
  <2>2. Alive' => Alive
    BY <2>1, AtRest, OwnLife
  <2>3. ToBank' = ToBank
    <3>1. CASE request.status = "PENDING"
      <4>1. request' = request
        BY <1>7, <3>1 DEF CreateIfNonePending
      <4>2. QED
        BY <2>1, <4>1, AtRest, OwnBank DEF Banking
    <3>2. CASE request.status # "PENDING"
      <4>1. request'.id = request.id + 1 /\ request.id \in Nat
        BY <1>7, <3>2, OnlyCall DEF CreateIfNonePending, Requests
      <4>2. \A h \in held : h[2] \in Nat /\ h[2] <= request.id
        BY <1>0 DEF OneCall, AnswerInv, TypeInv, TypeOK
      <4>3. \A h \in held' : h[2] # request'.id
        BY <2>1, <4>1, <4>2
      <4>4. QED
        BY <2>1, <3>2, <4>3, AtRest, OwnBank DEF Banking
    <3>3. QED
      BY <3>1, <3>2
  <2>4. QED
    BY <2>1, <2>2, <2>3, AtRest, PlanFrame DEF In
<1>8. CASE FindUnbankedHeldSkips(p)
  <2>1. UNCHANGED <<today, sub, skipped, delivered, held, request>>
    BY <1>8 DEF FindUnbankedHeldSkips
  <2>2. /\ call[p].phase = "findHeld" /\ call[p].day = 0
        /\ request.status # "PENDING"
    BY <1>0, <1>8 DEF FindUnbankedHeldSkips, In, Shape, Knows, Answering
  <2> DEFINE found == {d \in Days : <<d, call[p].req>> \in held}
  <2>3. \/ (found = {} \/ sub.status = "CANCELLED") /\ call'[p] = NoCall
        \/ /\ call'[p].phase = "bankHeld" /\ call'[p].req = call[p].req
           /\ call'[p].day = call[p].day
    BY <1>0, <1>8, AfterFindHeld
  <2>4. Alive' => Alive
    BY <2>1, <2>2, <2>3, AtRest, OwnLife
  <2>5. Alive' => ToBank' = ToBank
    <3>1. CASE call'[p] = NoCall
      <4> SUFFICES ASSUME sub.status # "CANCELLED" PROVE ToBank' = ToBank
        BY <2>1, <3>1, AtRest, OwnLife
      <4>1. \A h \in held : h[2] # call[p].req
        <5>1. held \subseteq Days \X Nat
          BY <1>0 DEF TypeInv, TypeOK
        <5>2. found = {}
          BY <2>3, <3>1, AtRest
        <5>3. QED
          BY <5>1, <5>2
      <4>2. QED
        BY <2>1, <2>2, <3>1, <4>1, AtRest, OwnBank DEF Banking
    <3>2. CASE call'[p].phase = "bankHeld" /\ call'[p].req = call[p].req
      BY <2>1, <2>2, <3>2, OwnBank DEF Banking
    <3>3. QED
      BY <2>3, <3>1, <3>2
  <2>6. call'[p].phase # "extend"
    BY <2>3, AtRest
  <2>7. QED
    BY <2>1, <2>2, <2>4, <2>5, <2>6, PlanFrame DEF In
<1>9. CASE MarkHeldSkipsBanked(p)
  <2>1. /\ call'[p] = NoCall /\ call[p].phase = "mark" /\ call[p].day = 0
        /\ UNCHANGED <<today, sub, skipped, delivered, request>>
        /\ request.status # "PENDING"
    BY <1>0, <1>9, AfterReturn DEF MarkHeldSkipsBanked, In, Knows, Answering
  <2>2. Alive' => Alive
    BY <2>1, AtRest, OwnLife
  <2>3. ToBank' = ToBank
    BY <2>1, AtRest, OwnBank DEF Banking
  <2>4. QED
    BY <2>1, <2>2, <2>3, AtRest, PlanFrame DEF In
<1>10. CASE ReleaseMaterializationDate(p) \/ ReactivateSubscription(p)
  BY <1>0, <1>10 DEF ReleaseMaterializationDate, ReactivateSubscription, In, Knows
<1>11. QED
  BY <1>1, <1>2, <1>3, <1>4, <1>5, <1>6, <1>7, <1>8, <1>9, <1>10 DEF Continue

\* A step of no call: the plan is cancelled, or a day passes.
LEMMA OtherSteps ==
  ASSUME Lone, TypeInv, ShapeInv, ClaimInv, AnswerInv, LoneInv, PlanInv,
         CancelWithRefund \/ NextDay \/ UNCHANGED vars
  PROVE  LoneInv' /\ PlanInv'
<1> USE DEF rows, bounds
<1>1. sub \in Rows /\ request \in Requests /\ today \in Nat
  BY DEF TypeInv, TypeOK
<1>2. CASE CancelWithRefund
  <2>1. /\ UNCHANGED <<today, skipped, held, delivered, call>>
        /\ sub.status # "CANCELLED" /\ sub'.status = "CANCELLED"
        /\ sub'.cycleEnd = sub.cycleEnd /\ sub'.claimed = sub.claimed
        /\ request'.status = "PENDING" => request.status = "PENDING" /\ request' = request
    BY <1>1, <1>2 DEF CancelWithRefund, Rows, Requests
  <2>2. DeliveredDays' = DeliveredDays /\ Kept' = Kept
    BY <2>1 DEF DeliveredDays, Kept
  <2>3. LoneInv'
    BY <2>1, <2>2 DEF LoneInv, RowInv, Knows, In, Disruption, OnTheWay, Answering
  <2>4. PlanInv'
    <3> SUFFICES ASSUME Alive' PROVE PlanInv'
      BY DEF PlanInv
    <3>1. PICK p \in Procs : In(p, "materialize") /\ today > call[p].saw.cycleEnd
      BY <2>1 DEF Alive, In
    <3>2. Alive /\ today > sub.cycleEnd
      BY <2>1, <3>1 DEF Alive, LoneInv, Knows, In
    <3>3. ToBank = {} /\ ToBank' = {}
      <4>1. ToBank = {}
        BY <3>2 DEF PlanInv
      <4>2. ToBank' \subseteq ToBank
        BY <2>1 DEF ToBank
      <4>3. QED
        BY <4>1, <4>2
    <3>4. \A n : Planned(n) => Planned(n)'
      BY <2>2, <3>3 DEF Planned
    <3>5. \A d \in Kept' : Due(d)' => delivered'[d] > 0
      BY <2>1, <2>2, <3>2 DEF PlanInv, Due
    <3>6. QED
      BY <2>1, <3>2, <3>3, <3>4, <3>5 DEF PlanInv, In
  <2>5. QED
    BY <2>3, <2>4
<1>3. CASE NextDay
  <2>1. /\ UNCHANGED <<sub, skipped, held, delivered, call, request>>
        /\ today' = today + 1
    BY <1>3 DEF NextDay
  <2>2. \A p \in Procs : call[p].phase = "idle" /\ call[p].day = 0
    <3>1. \A p \in Procs : call[p].phase = "idle"
      BY <1>3 DEF NextDay, Lone, Calm, Idle
    <3>2. QED
      BY <3>1 DEF ShapeInv, Shape
  <2>3. today = 0 \/ sub.status # "ACTIVE" \/ sub.claimed = today
    BY <1>3 DEF NextDay, Lone
  <2>4. request.status = "PENDING" => today < sub.cycleEnd
    BY <1>3 DEF NextDay, Lone
  <2>5. DeliveredDays' = DeliveredDays /\ Kept' = Kept /\ ToBank' = ToBank
    BY <2>1 DEF DeliveredDays, Kept, ToBank
  <2>6. LoneInv'
    <3>1. RowInv'
      <4>1. sub.claimed \in Nat /\ sub.cycleEnd \in Nat
        BY <1>1 DEF Rows
      <4>2. sub.claimed <= today + 1
        BY <1>1, <4>1 DEF LoneInv, RowInv
      <4>3. sub.status = "EXPIRED" => today + 1 > sub.cycleEnd
        BY <1>1, <4>1 DEF LoneInv, RowInv
      <4>4. QED
        BY <2>1, <2>5, <4>2, <4>3 DEF LoneInv, RowInv, In
    <3>2. \A p \in Procs : Knows(call[p])'
      BY <2>1, <2>2, <2>5 DEF LoneInv, Knows, Disruption, OnTheWay, Answering
    <3>3. QED
      BY <3>1, <3>2 DEF LoneInv
  <2>7. PlanInv'
    <3> SUFFICES ASSUME Alive' PROVE PlanInv'
      BY DEF PlanInv
    <3>1. sub.status # "CANCELLED" /\ Alive
      BY <2>1, <2>2 DEF Alive, In
    <3>2. \A d \in Kept' : Due(d)' => delivered'[d] > 0
      <4> SUFFICES ASSUME NEW d \in Kept, Due(d)' PROVE delivered[d] > 0
        BY <2>1, <2>5
      <4>1. d \in Nat /\ d >= 1 /\ d <= sub.cycleEnd /\ sub.claimed <= today
        BY <1>1 DEF Kept, Rows, LoneInv, RowInv
      <4>2. sub.claimed \in Nat /\ sub.cycleEnd \in Nat
        BY <1>1 DEF Rows
      <4>3. d < today \/ d = today
        BY <1>1, <2>1, <4>1, <4>2 DEF Due
      <4>4. sub.status = "EXPIRED" => today > sub.cycleEnd
        BY DEF LoneInv, RowInv
      <4>5. d = today => sub.claimed = today
        BY <1>1, <2>3, <3>1, <4>1, <4>2, <4>4 DEF Rows, Statuses
      <4>6. Due(d)
        BY <2>2, <4>3, <4>5 DEF Due
      <4>7. QED
        BY <3>1, <4>6 DEF PlanInv
    <3>3. today' > sub'.cycleEnd => ToBank' = {}
      <4> SUFFICES ASSUME today + 1 > sub.cycleEnd PROVE ToBank = {}
        BY <2>1, <2>5
      <4>1. request.status # "PENDING"
        BY <1>1, <2>4 DEF Rows
      <4>2. QED
        BY <2>2, <4>1 DEF ToBank
    <3>4. \A n : Planned(n)' <=> Planned(n)
      BY <2>5 DEF Planned
    <3>5. QED
      BY <2>1, <3>1, <3>2, <3>3, <3>4 DEF PlanInv, In
  <2>8. QED
    BY <2>6, <2>7
<1>4. CASE UNCHANGED vars
  <2>1. UNCHANGED <<today, sub, skipped, held, delivered, call, request>>
    BY <1>4 DEF vars
  <2>2. LoneInv'
    BY <2>1 DEF LoneInv, RowInv, Knows, In, Kept, DeliveredDays, Disruption,
       OnTheWay, Answering
  <2>3. PlanInv'
    BY <2>1 DEF PlanInv, Alive, In, Kept, Due, ToBank, Planned
  <2>4. QED
    BY <2>2, <2>3
<1>5. QED
  BY <1>2, <1>3, <1>4

\* No call fails, and each step keeps the plan.
LEMMA PlanInvStep ==
  ASSUME Lone, TypeInv, TypeInv', ShapeInv, ClaimInv, AnswerInv, AnswerInv',
         LoneInv, PlanInv, [Next]_vars
  PROVE  LoneInv' /\ PlanInv'
<1>1. OneCall
  BY DEF OneCall, LoneInv
<1>2. ASSUME NEW p \in Procs, Start(p) \/ Continue(p) PROVE LoneInv' /\ PlanInv'
  <2>1. RowInv' /\ Knows(call[p])'
    BY <1>1, <1>2, StartLone, ContinueLone
  <2>2. LoneInv'
    BY <1>1, <2>1, OnlyCall DEF LoneInv
  <2>3. QED
    BY <1>1, <1>2, <2>2, StartPlan, ContinuePlan
<1>3. ASSUME NEW p \in Procs, Throw(p) \/ Die(p) PROVE FALSE
  <2>1. throws \in Nat /\ deaths \in Nat /\ MaxFaults = 0
    BY DEF TypeInv, TypeOK, Lone
  <2>2. QED
    BY <1>3, <2>1 DEF Throw, Die
<1>4. CASE CancelWithRefund \/ NextDay \/ UNCHANGED vars
  BY <1>4, OtherSteps
<1>5. QED
  BY <1>2, <1>3, <1>4 DEF Next

\* At rest the days of the plan are those delivered and those to come.
LEMMA PlanIsExact ==
  ASSUME TypeInv, ClaimInv, ShapeInv, LoneInv, PlanInv, Settled
  PROVE  Promised = Duration
<1> DEFINE coming == {d \in Kept : d > today \/ (d = today /\ sub.claimed # d)}
<1>1. \A p \in Procs : call[p].phase = "idle" /\ call[p].day = 0
  BY DEF Settled, Idle, ShapeInv, Shape
<1>2. Alive /\ sub \in Rows /\ today \in Nat /\ Duration \in Nat
  BY CalendarAssumption DEF Settled, Alive, TypeInv, TypeOK
<1>3. Planned(0) /\ \A d \in Kept : Due(d) => delivered[d] > 0
  BY <1>1, <1>2 DEF PlanInv, In
<1>4. DeliveredDays \subseteq Kept
  BY DEF LoneInv, RowInv, Kept
<1>5. Kept \subseteq DeliveredDays \cup coming
  <2> SUFFICES ASSUME NEW d \in Kept, d \notin coming PROVE d \in DeliveredDays
    OBVIOUS
  <2>1. d \in Nat /\ d >= 1 /\ d <= today
    BY <1>2 DEF Kept, Rows
  <2>2. Due(d)
    BY <1>1, <1>2, <2>1 DEF Due
  <2>3. d \in Days
    BY <1>2, <2>1, CalendarAssumption DEF Days, TypeInv, TypeOK
  <2>4. QED
    BY <1>3, <2>2, <2>3 DEF DeliveredDays
<1>6. DeliveredDays \cup coming = Kept
  BY <1>4, <1>5
<1>7. Promised = Cardinality(Kept) + Cardinality(ToBank)
  BY <1>6, Zenon DEF Promised
<1>8. IsFiniteSet(Kept) /\ Cardinality(Kept) \in Nat
  <2>1. Kept \subseteq 1..sub.cycleEnd /\ IsFiniteSet(1..sub.cycleEnd)
    BY <1>2, FS_Interval DEF Kept, Rows
  <2>2. QED
    BY <2>1, SmallerCounts
<1>9. QED
  BY <1>3, <1>7, <1>8 DEF Planned

\* A new plan is whole.
LEMMA InitExact == Init => LoneInv /\ PlanInv
<1> SUFFICES ASSUME Init PROVE LoneInv /\ PlanInv
  OBVIOUS
<1>1. /\ today = 0 /\ skipped = {} /\ held = {} /\ Duration \in Nat
      /\ sub.claimed = 0 /\ sub.cycleEnd = Duration /\ sub.status = "ACTIVE"
      /\ delivered = [d \in Days |-> 0]
  BY AtRest, CalendarAssumption DEF Init
<1>2. \A p \in Procs : call[p] = NoCall
  BY DEF Init
<1>3. DeliveredDays = {} /\ ToBank = {} /\ Kept = 1..Duration
  BY <1>1 DEF DeliveredDays, ToBank, Kept
<1>4. LoneInv
  BY <1>1, <1>2, <1>3, AtRest
     DEF LoneInv, RowInv, Knows, In, Disruption, OnTheWay, Answering
<1>5. Planned(0)
  <2>1. Cardinality(1..Duration) = Duration
    BY <1>1, FS_Interval
  <2>2. QED
    BY <1>1, <1>3, <2>1, FS_EmptySet DEF Planned
<1>6. \A d \in Kept : ~Due(d)
  BY <1>1, <1>3 DEF Due
<1>7. QED
  BY <1>2, <1>3, <1>4, <1>5, <1>6, AtRest DEF PlanInv, In

\* The inductive invariant of a plan whose calls come one at a time.
ExactInv == Lone => LoneInv /\ PlanInv

\* Every step of Next preserves the invariant of a plan with one call at a time.
LEMMA ExactInvStep ==
  TypeInv /\ TypeInv' /\ BoughtInv /\ BoughtInv' /\ ExactInv /\ [Next]_vars
    => ExactInv'
<1> SUFFICES ASSUME TypeInv, TypeInv', BoughtInv, BoughtInv', ExactInv,
                    [Next]_vars, Lone
             PROVE  LoneInv' /\ PlanInv'
  BY DEF ExactInv, Lone, Calm
<1>1. ShapeInv /\ ClaimInv /\ AnswerInv /\ AnswerInv'
  BY DEF BoughtInv, Lone, Calm
<1>2. QED
  BY <1>1, PlanInvStep DEF ExactInv

\* A customer who skips, pauses, asks to cancel and changes their mind, one
\* call at a time, gets exactly the days they bought, whatever the plan and
\* the closures inside it. The job runs every day, requests are answered
\* before the plan's last night, no pause covers a closure, nothing fails,
\* and no disruption gives a day on top.
THEOREM DaysAreExact ==
  Spec => [](Lone => ExactlyAsBought)
<1>1. Init => BoughtInv /\ ExactInv
  BY InitBought, InitExact DEF BoughtInv, ExactInv
<1>2. TypeInv /\ BoughtInv /\ ExactInv => (Lone => ExactlyAsBought)
  BY PlanIsExact, Zenon DEF BoughtInv, ExactInv, Lone, ExactlyAsBought
<1>3. QED
  BY InitTypeInv, TypeInvStep, BoughtInvStep, ExactInvStep, <1>1, <1>2, PTL
     DEF Spec
=============================================================================
