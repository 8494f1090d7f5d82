-------------------- MODULE PaymentReconciliationProofs --------------------
(***************************************************************************)
(* Theorems about PaymentReconciliation, for any number of servers, runs   *)
(* in flight, payments, faults, and any batch and window.                  *)
(***************************************************************************)
EXTENDS PaymentReconciliation, TLAPS

-----------------------------------------------------------------------------
\* A payment in hand is one of the payments.
HandsOK == \A s \in Slots : run[s].phase = "confirm" => run[s].one \in Payments

TypeInv == TypeOK /\ HandsOK

\* An empty slot holds a run that is over.
LEMMA NoRunIsOne == NoRun \in Runs /\ NoRun.phase = "idle" /\ ~NoRun.fresh
BY DEF NoRun, Runs, Phases

\* At the start there is neither a payment nor a run.
LEMMA InitTypeInv == Init => TypeInv
<1> SUFFICES ASSUME Init PROVE TypeInv
  OBVIOUS
<1>1. pay \in [Payments -> [status : Statuses, age : 0 .. MaxAge,
                            captured : BOOLEAN]]
  BY MaxAgeAssumption DEF Init, Statuses
<1>2. run \in [Slots -> Runs] /\ HandsOK
  BY NoRunIsOne DEF Init, HandsOK
<1>3. QED
  BY <1>1, <1>2 DEF Init, TypeInv, TypeOK

\* A slot that gets a well-formed run, while the payments and the lock keep
\* their types, is all that most steps do.
LEMMA RunChange ==
  ASSUME TypeInv, NEW s \in Slots, NEW r \in Runs,
         run' = [run EXCEPT ![s] = r],
         r.phase = "confirm" => r.one \in Payments
  PROVE  run' \in [Slots -> Runs] /\ HandsOK'
BY DEF TypeInv, TypeOK, HandsOK

\* A run ends, or drops a payment, or moves on.
LEMMA RunMoves ==
  ASSUME TypeInv, NEW s \in Slots, NEW phase \in Phases \ {"confirm"},
         NEW todo \in SUBSET Payments,
         run' = [run EXCEPT ![s].phase = phase, ![s].todo = todo]
  PROVE  run' \in [Slots -> Runs] /\ HandsOK'
<1> DEFINE r == [run[s] EXCEPT !.phase = phase, !.todo = todo]
<1>1. run[s] \in Runs /\ run \in [Slots -> Runs]
  BY DEF TypeInv, TypeOK
<1>2. r \in Runs /\ r.phase # "confirm"
  BY <1>1 DEF Runs
<1>3. run' = [run EXCEPT ![s] = r]
  BY <1>1
<1> HIDE DEF r
<1>4. QED
  BY <1>2, <1>3, RunChange

\* The steps of a run keep the types.
LEMMA RunTypeInv ==
  ASSUME TypeInv, NEW s \in Slots,
         StartRun(s) \/ Step(s) \/ Throw(s) \/ Die(s)
  PROVE  TypeInv'
<1> USE DEF In, Idle
<1>0. run[s] \in Runs /\ run \in [Slots -> Runs]
  BY DEF TypeInv, TypeOK
<1>1. CASE StartRun(s)
  <2>1. firings' \in Nat /\ lock' \in Slots \cup {None}
    BY <1>1 DEF StartRun, TypeInv, TypeOK
  <2>2. CASE lock = None
    <3>1. PICK young \in SUBSET {x \in Payments : pay[x].age = 1} :
            run' = [run EXCEPT ![s] =
                      [phase |-> "list", fresh |-> TRUE, one |-> None,
                       todo |-> Window \ young, stale |-> Stale]]
      BY <1>1, <2>2 DEF StartRun
    <3>2. run' \in [Slots -> Runs] /\ HandsOK'
      <4> DEFINE r == [phase |-> "list", fresh |-> TRUE, one |-> None,
                       todo |-> Window \ young, stale |-> Stale]
      <4>1. r \in Runs /\ r.phase = "list"
        BY DEF Runs, Phases, Window, Stale
      <4> HIDE DEF r
      <4>2. run' = [run EXCEPT ![s] = r]
        BY <3>1 DEF r
      <4>3. QED
        BY <4>1, <4>2, RunChange
    <3>3. QED
      BY <1>1, <2>1, <3>2 DEF StartRun, TypeInv, TypeOK
  <2>3. CASE lock # None
    BY <1>1, <2>1, <2>3 DEF StartRun, TypeInv, TypeOK, HandsOK
  <2>4. QED
    BY <2>2, <2>3
<1>2. CASE FindPending(s)
  <2> DEFINE pending == {x \in run[s].todo : Pending(x)}
  <2>1. PICK batch \in Batches(pending) :
          /\ run' = [run EXCEPT ![s].phase = "ask", ![s].todo = batch]
          /\ missed' = missed \cup (pending \ batch)
    BY <1>2 DEF FindPending
  <2>2. pending \subseteq Payments
    BY <1>0 DEF Runs
  <2>3. batch \in SUBSET Payments /\ missed' \subseteq Payments
    BY <2>1, <2>2 DEF Batches, TypeInv, TypeOK
  <2>4. run' \in [Slots -> Runs] /\ HandsOK'
    BY <2>1, <2>3, RunMoves DEF Phases
  <2>5. QED
    BY <1>2, <2>3, <2>4 DEF FindPending, TypeInv, TypeOK
<1>3. CASE Lookup(s)
  <2>1. PICK x \in run[s].todo :
          \/ /\ run' = [run EXCEPT ![s].phase = "confirm", ![s].one = x]
             /\ UNCHANGED missed
          \/ /\ run' = [run EXCEPT ![s].todo = @ \ {x}]
             /\ missed' \in {missed, missed \cup {x}}
    BY <1>3 DEF Lookup
  <2>2. x \in Payments
    BY <1>0 DEF Runs
  <2>3. ASSUME run' = [run EXCEPT ![s].phase = "confirm", ![s].one = x]
        PROVE  run' \in [Slots -> Runs] /\ HandsOK'
    <3> DEFINE r == [run[s] EXCEPT !.phase = "confirm", !.one = x]
    <3>1. r \in Runs /\ r.one = x
      BY <1>0, <2>2 DEF Runs, Phases
    <3>2. run' = [run EXCEPT ![s] = r]
      BY <1>0, <2>3
    <3> HIDE DEF r
    <3>3. QED
      BY <2>2, <3>1, <3>2, RunChange
  <2>4. ASSUME run' = [run EXCEPT ![s].todo = @ \ {x}]
        PROVE  run' \in [Slots -> Runs] /\ HandsOK'
    <3> DEFINE r == [run[s] EXCEPT !.todo = @ \ {x}]
    <3>1. r \in Runs /\ r.phase = "ask"
      BY <1>0, <1>3 DEF Runs, Lookup
    <3>2. run' = [run EXCEPT ![s] = r]
      BY <1>0, <2>4
    <3> HIDE DEF r
    <3>3. QED
      BY <3>1, <3>2, RunChange
  <2>5. missed' \subseteq Payments
    BY <2>1, <2>2 DEF TypeInv, TypeOK
  <2>6. run' \in [Slots -> Runs] /\ HandsOK'
    BY <2>1, <2>3, <2>4
  <2>7. QED
    BY <1>3, <2>5, <2>6 DEF Lookup, TypeInv, TypeOK
<1>4. CASE Confirm(s)
  <2>1. run[s].one \in Payments /\ run[s].todo \in SUBSET Payments
    BY <1>0, <1>4 DEF Confirm, TypeInv, HandsOK, Runs
  <2>2. pay' \in [Payments -> [status : Statuses, age : 0 .. MaxAge,
                               captured : BOOLEAN]]
    BY <1>4, <2>1 DEF Confirm, MarkPaid, TypeInv, TypeOK, Statuses
  <2>3. \/ run' = [run EXCEPT ![s].phase = "ask",
                              ![s].todo = run[s].todo \ {run[s].one}]
        \/ run' = [run EXCEPT ![s].phase = "release",
                              ![s].todo = run[s].todo]
    BY <1>0, <1>4 DEF Confirm, Runs
  <2>4. run' \in [Slots -> Runs] /\ HandsOK'
    <3> DEFINE left == run[s].todo \ {run[s].one}
    <3>1. left \in SUBSET Payments /\ {"ask", "release"} \subseteq Phases \ {"confirm"}
      BY <2>1 DEF Phases
    <3> HIDE DEF left
    <3>2. \/ run' = [run EXCEPT ![s].phase = "ask", ![s].todo = left]
          \/ run' = [run EXCEPT ![s].phase = "release", ![s].todo = run[s].todo]
      BY <2>3 DEF left
    <3>3. QED
      BY <2>1, <3>1, <3>2, RunMoves
  <2>5. missed' \subseteq Payments
    BY <1>4, <2>1 DEF Confirm, TypeInv, TypeOK
  <2>6. QED
    BY <1>4, <2>2, <2>4, <2>5 DEF Confirm, TypeInv, TypeOK
<1>5. CASE Abandon(s)
  <2>1. pay' \in [Payments -> [status : Statuses, age : 0 .. MaxAge,
                               captured : BOOLEAN]]
    BY <1>5 DEF Abandon, TypeInv, TypeOK, Statuses
  <2>2. run' = [run EXCEPT ![s].phase = "release", ![s].todo = run[s].todo]
        /\ run[s].todo \in SUBSET Payments
    BY <1>0, <1>5 DEF Abandon, Runs
  <2>3. run' \in [Slots -> Runs] /\ HandsOK'
    BY <2>2, RunMoves DEF Phases
  <2>4. ran' \in BOOLEAN
    BY <1>0, <1>5 DEF Abandon, TypeInv, TypeOK, Runs
  <2>5. QED
    BY <1>5, <2>1, <2>3, <2>4 DEF Abandon, TypeInv, TypeOK
<1>6. CASE ReleaseLock(s)
  <2>1. run' \in [Slots -> Runs] /\ HandsOK'
    BY <1>6, NoRunIsOne, RunChange DEF ReleaseLock
  <2>2. QED
    BY <1>6, <2>1 DEF ReleaseLock, TypeInv, TypeOK
<1>7. CASE Throw(s)
  <2>1. run' = [run EXCEPT ![s].phase = "release", ![s].todo = run[s].todo]
        /\ run[s].todo \in SUBSET Payments
    BY <1>0, <1>7 DEF Throw, Runs
  <2>2. run' \in [Slots -> Runs] /\ HandsOK'
    BY <2>1, RunMoves DEF Phases
  <2>3. QED
    BY <1>7, <2>1, <2>2 DEF Throw, Fault, TypeInv, TypeOK
<1>8. CASE Die(s)
  <2>1. run' \in [Slots -> Runs] /\ HandsOK'
    BY <1>8, NoRunIsOne, RunChange DEF Die
  <2>2. run[s].todo \in SUBSET Payments
    BY <1>0 DEF Runs
  <2>3. QED
    BY <1>8, <2>1, <2>2 DEF Die, Fault, TypeInv, TypeOK
<1>9. QED
  BY <1>1, <1>2, <1>3, <1>4, <1>5, <1>6, <1>7, <1>8 DEF Step

\* Every step keeps the types.
LEMMA TypeInvStep == TypeInv /\ [Next]_vars => TypeInv'
<1> SUFFICES ASSUME TypeInv, [Next]_vars PROVE TypeInv'
  OBVIOUS
<1>1. CASE \E s \in Slots : StartRun(s) \/ Step(s) \/ Throw(s) \/ Die(s)
  BY <1>1, RunTypeInv
<1>2. CASE MissFiring
  BY <1>2 DEF MissFiring, Fault, TypeInv, TypeOK, HandsOK
<1>3. CASE Tick
  <2>1. pay' \in [Payments -> [status : Statuses, age : 0 .. MaxAge,
                               captured : BOOLEAN]]
    BY <1>3, MaxAgeAssumption DEF Tick, TypeInv, TypeOK
  <2>2. run' \in [Slots -> Runs] /\ HandsOK'
    BY <1>3 DEF Tick, TypeInv, TypeOK, HandsOK, Runs
  <2>3. faults' \in Nat /\ firings' \in Nat /\ missed' \subseteq Payments
    BY <1>3, CountsAssumption DEF Tick, Fault, TypeInv, TypeOK
  <2>4. QED
    BY <1>3, <2>1, <2>2, <2>3 DEF Tick, TypeInv, TypeOK
<1>4. ASSUME NEW x \in Payments, Create(x) \/ Capture(x) \/ ConfirmElsewhere(x)
      PROVE  TypeInv'
  <2>1. pay' \in [Payments -> [status : Statuses, age : 0 .. MaxAge,
                               captured : BOOLEAN]]
    <3>1. CASE Create(x)
      BY <3>1 DEF Create, TypeInv, TypeOK, Statuses
    <3>2. CASE Capture(x)
      BY <3>2 DEF Capture, TypeInv, TypeOK
    <3>3. CASE ConfirmElsewhere(x)
      BY <3>3 DEF ConfirmElsewhere, MarkPaid, TypeInv, TypeOK, Statuses
    <3>4. QED
      BY <1>4, <3>1, <3>2, <3>3
  <2>2. late' \subseteq Payments
    BY <1>4 DEF Create, Capture, ConfirmElsewhere, TypeInv, TypeOK
  <2>3. QED
    BY <1>4, <2>1, <2>2
    DEF Create, Capture, ConfirmElsewhere, TypeInv, TypeOK, HandsOK
<1>5. CASE UNCHANGED vars
  BY <1>5 DEF vars, TypeInv, TypeOK, HandsOK
<1>6. QED
  BY <1>1, <1>2, <1>3, <1>4, <1>5 DEF Next

\* Every variable keeps its type, however slow the runs are.
THEOREM TypeCorrect == Spec => []TypeOK
<1>1. TypeInv => TypeOK
  BY DEF TypeInv
<1>2. QED
  BY InitTypeInv, TypeInvStep, <1>1, PTL DEF Spec

-----------------------------------------------------------------------------
\* One run at a time. A run that began in this tick holds the lock: nobody
\* but its holder gives the lock back before the tick is over.

LockInv == \A s \in Slots : ~Idle(s) /\ run[s].fresh => lock = s

\* At the start nothing runs.
LEMMA InitLockInv == Init => LockInv
BY DEF Init, LockInv, Idle, NoRun

\* Every step keeps the lock with the run of this tick.
LEMMA LockInvStep == TypeInv /\ LockInv /\ [Next]_vars => LockInv'
<1> USE DEF In, Idle
<1> SUFFICES ASSUME TypeInv, LockInv, [Next]_vars PROVE LockInv'
  OBVIOUS
<1>0. run \in [Slots -> Runs]
  BY DEF TypeInv, TypeOK
<1>1. ASSUME NEW s \in Slots, StartRun(s) PROVE LockInv'
  BY <1>0, <1>1, NoneAssumption DEF StartRun, LockInv, Runs
<1>2. ASSUME NEW s \in Slots,
             FindPending(s) \/ Lookup(s) \/ Confirm(s) \/ Abandon(s) \/ Throw(s)
      PROVE  LockInv'
  <2>1. /\ ~Idle(s) /\ lock' = lock
        /\ run'[s].fresh = run[s].fresh
        /\ \A r \in Slots \ {s} : run'[r] = run[r]
    <3>1. CASE FindPending(s)
      BY <1>0, <3>1 DEF FindPending, Runs
    <3>2. CASE Lookup(s)
      BY <1>0, <3>2 DEF Lookup, Runs
    <3>3. CASE Confirm(s)
      BY <1>0, <3>3 DEF Confirm, Runs
    <3>4. CASE Abandon(s)
      BY <1>0, <3>4 DEF Abandon, Runs
    <3>5. CASE Throw(s)
      BY <1>0, <3>5 DEF Throw, Runs
    <3>6. QED
      BY <1>2, <3>1, <3>2, <3>3, <3>4, <3>5
  <2>2. QED
    BY <1>0, <2>1 DEF LockInv, Runs
<1>3. ASSUME NEW s \in Slots, ReleaseLock(s) \/ Die(s) PROVE LockInv'
  <2>1. /\ run' = [run EXCEPT ![s] = NoRun]
        /\ lock' \in {lock, None} /\ (lock' # lock => lock = s)
    BY <1>3 DEF ReleaseLock, Die
  <2>2. QED
    BY <1>0, <2>1, NoRunIsOne DEF LockInv
<1>4. CASE Tick
  BY <1>0, <1>4 DEF Tick, LockInv, Runs
<1>5. CASE MissFiring \/ (\E x \in Payments : Create(x) \/ Capture(x)
                                              \/ ConfirmElsewhere(x))
           \/ UNCHANGED vars
  BY <1>5 DEF MissFiring, Create, Capture, ConfirmElsewhere, vars, LockInv
<1>6. QED
  BY <1>1, <1>2, <1>3, <1>4, <1>5 DEF Next, Step

\* The job is serial: a second run is only ever in flight beside one that has
\* outlived its lock, however many servers fire the cron.
THEOREM JobIsSerial == Spec => []RunsAreSerial
<1>1. LockInv => RunsAreSerial
  BY DEF LockInv, RunsAreSerial
<1>2. QED
  BY InitTypeInv, TypeInvStep, InitLockInv, LockInvStep, <1>1, PTL DEF Spec

-----------------------------------------------------------------------------
\* Who is abandoned. A payment that was captured in time is owed a look by the
\* run of its last tick: it is still on that run's list, or it was missed, and
\* if no run came through the tick itself counts it as missed.

Owed(x) == Pending(x) /\ pay[x].captured /\ x \notin late

OnTheList(x) ==
  \A s \in Slots :
    run[s].fresh /\ run[s].phase \in {"list", "ask", "confirm"} =>
      x \in run[s].todo \cup missed

OwedInv ==
  \A x \in Payments :
    /\ Owed(x) /\ pay[x].age = MaxAge - 1 =>
         OnTheList(x) /\ (ran => x \in missed)
    /\ Owed(x) /\ pay[x].age = MaxAge => x \in missed

StaleInv == \A s \in Slots : \A x \in run[s].stale : pay[x].age = MaxAge

AbandonInv == OwedInv /\ StaleInv /\ AbandonedOnlyIfMissed

\* At the start there is no payment.
LEMMA InitAbandonInv == Init => AbandonInv
BY DEF Init, AbandonInv, OwedInv, StaleInv, AbandonedOnlyIfMissed, Owed,
       Pending, NoRun

\* A step of one run that touches no payment keeps the invariant, when whom it
\* takes off its list was missed or is not owed a look.
LEMMA AbandonFrame ==
  ASSUME TypeInv, AbandonInv, NEW s \in Slots,
         UNCHANGED <<pay, late, ran>>, missed \subseteq missed',
         \A r \in Slots \ {s} : run'[r] = run[r],
         run'[s].stale \subseteq run[s].stale,
         \A x \in Payments :
           Owed(x) /\ pay[x].age = MaxAge - 1
           /\ run'[s].fresh /\ run'[s].phase \in {"list", "ask", "confirm"} =>
             /\ run[s].fresh /\ run[s].phase \in {"list", "ask", "confirm"}
             /\ x \in run[s].todo => x \in run'[s].todo \cup missed'
  PROVE  AbandonInv'
<1>1. StaleInv'
  BY DEF AbandonInv, StaleInv
<1>2. AbandonedOnlyIfMissed'
  BY DEF AbandonInv, AbandonedOnlyIfMissed
<1>3. ASSUME NEW x \in Payments, Owed(x), pay[x].age = MaxAge - 1
      PROVE  OnTheList(x)' /\ (ran' => x \in missed')
  <2>1. OnTheList(x) /\ (ran => x \in missed)
    BY <1>3 DEF AbandonInv, OwedInv
  <2>2. ASSUME NEW r \in Slots, run'[r].fresh,
               run'[r].phase \in {"list", "ask", "confirm"}
        PROVE  x \in run'[r].todo \cup missed'
    <3>1. CASE r = s
      BY <1>3, <2>1, <2>2, <3>1 DEF OnTheList
    <3>2. CASE r # s
      BY <2>1, <2>2, <3>2 DEF OnTheList
    <3>3. QED
      BY <3>1, <3>2
  <2>3. OnTheList(x)'
    BY <2>2 DEF OnTheList
  <2>4. QED
    BY <2>1, <2>3
<1>4. OwedInv'
  BY <1>3 DEF AbandonInv, OwedInv, Owed, Pending
<1>5. QED
  BY <1>1, <1>2, <1>4 DEF AbandonInv

\* The steps of a run keep it.
LEMMA RunAbandonInv ==
  ASSUME TypeInv, AbandonInv, NEW s \in Slots,
         StartRun(s) \/ Step(s) \/ Throw(s) \/ Die(s)
  PROVE  AbandonInv'
<1> USE DEF In, Idle
<1>0. run[s] \in Runs /\ run \in [Slots -> Runs]
  BY DEF TypeInv, TypeOK
<1>1. CASE StartRun(s)
  <2>1. CASE lock = None
    <3>1. PICK young \in SUBSET {x \in Payments : pay[x].age = 1} :
            run' = [run EXCEPT ![s] =
                      [phase |-> "list", fresh |-> TRUE, one |-> None,
                       todo |-> Window \ young, stale |-> Stale]]
      BY <1>1, <2>1 DEF StartRun
    <3>2. /\ UNCHANGED <<pay, late, ran, missed>>
          /\ \A r \in Slots \ {s} : run'[r] = run[r]
          /\ run'[s].todo = Window \ young /\ run'[s].stale = Stale
      BY <1>0, <1>1, <3>1 DEF StartRun
    <3>3. \A x \in Payments : pay[x].age = MaxAge - 1 => x \in Window \ young
      BY MaxAgeAssumption DEF Window
    <3>4. OwedInv'
      BY <3>2, <3>3 DEF AbandonInv, OwedInv, Owed, Pending, OnTheList
    <3>5. StaleInv'
      BY <3>2 DEF AbandonInv, StaleInv, Stale
    <3>6. AbandonedOnlyIfMissed'
      BY <3>2 DEF AbandonInv, AbandonedOnlyIfMissed
    <3>7. QED
      BY <3>4, <3>5, <3>6 DEF AbandonInv
  <2>2. CASE lock # None
    BY <1>1, <2>2 DEF StartRun, AbandonInv, OwedInv, StaleInv, Owed, Pending,
                      OnTheList, AbandonedOnlyIfMissed
  <2>3. QED
    BY <2>1, <2>2
<1>2. CASE FindPending(s)
  <2> DEFINE pending == {x \in run[s].todo : Pending(x)}
  <2>1. PICK batch \in Batches(pending) :
          /\ run' = [run EXCEPT ![s].phase = "ask", ![s].todo = batch]
          /\ missed' = missed \cup (pending \ batch)
    BY <1>2 DEF FindPending
  <2>2. \A x \in Payments : Owed(x) /\ x \in run[s].todo => x \in batch \cup missed'
    BY <2>1 DEF Owed
  <2>3. /\ run'[s].todo = batch /\ run'[s].fresh = run[s].fresh
        /\ run'[s].stale = run[s].stale /\ run[s].phase = "list"
        /\ \A r \in Slots \ {s} : run'[r] = run[r]
    BY <1>0, <1>2, <2>1 DEF FindPending, Runs
  <2>4. missed \subseteq missed' /\ UNCHANGED <<pay, late, ran>>
    BY <1>2, <2>1 DEF FindPending
  <2> HIDE DEF pending
  <2>5. QED
    BY <2>2, <2>3, <2>4, AbandonFrame
<1>3. CASE Lookup(s)
  <2>1. PICK x \in run[s].todo :
          \/ /\ run' = [run EXCEPT ![s].phase = "confirm", ![s].one = x]
             /\ UNCHANGED missed
          \/ /\ ~pay[x].captured
             /\ run' = [run EXCEPT ![s].todo = @ \ {x}]
             /\ UNCHANGED missed
          \/ /\ run' = [run EXCEPT ![s].todo = @ \ {x}]
             /\ missed' = missed \cup {x}
    BY <1>3 DEF Lookup
  <2>2. /\ run'[s].fresh = run[s].fresh
        /\ run'[s].stale = run[s].stale /\ run[s].phase = "ask"
        /\ \A r \in Slots \ {s} : run'[r] = run[r]
    BY <1>0, <1>3, <2>1 DEF Lookup, Runs
  <2>3. \A y \in Payments : Owed(y) /\ y \in run[s].todo =>
                              y \in run'[s].todo \cup missed'
    BY <1>0, <2>1 DEF Owed, Runs
  <2>4. missed \subseteq missed' /\ UNCHANGED <<pay, late, ran>>
    BY <1>3, <2>1 DEF Lookup
  <2>5. QED
    BY <2>2, <2>3, <2>4, AbandonFrame
<1>4. CASE Confirm(s)
  <2> DEFINE one == run[s].one
  <2>0. one \in Payments
    BY <1>4 DEF Confirm, TypeInv, HandsOK
  <2>1. /\ pay' = [pay EXCEPT ![one].status = "PAID"]
        /\ UNCHANGED <<late, ran>> /\ run[s].phase = "confirm"
    BY <1>4 DEF Confirm, MarkPaid
  <2>2. /\ pay'[one].status = "PAID" /\ pay'[one].age = pay[one].age
        /\ \A y \in Payments \ {one} : pay'[y] = pay[y]
    BY <2>0, <2>1 DEF TypeInv, TypeOK
  <2>3. /\ run'[s].fresh = run[s].fresh /\ run'[s].stale = run[s].stale
        /\ \A r \in Slots \ {s} : run'[r] = run[r]
        /\ missed \subseteq missed'
        /\ run'[s].phase \in {"list", "ask", "confirm"} =>
             run'[s].todo = run[s].todo \ {one}
    BY <1>0, <1>4 DEF Confirm, Runs
  <2> HIDE DEF one
  <2>4. \A y \in Payments : Owed(y)' => y # one /\ Owed(y)
    BY <2>1, <2>2 DEF Owed, Pending
  <2>5. OwedInv'
    <3> SUFFICES ASSUME NEW y \in Payments, Owed(y)'
                 PROVE  /\ pay'[y].age = MaxAge - 1 =>
                             OnTheList(y)' /\ (ran' => y \in missed')
                        /\ pay'[y].age = MaxAge => y \in missed'
      BY DEF OwedInv
    <3>1. y # one /\ Owed(y) /\ pay'[y] = pay[y]
      BY <2>2, <2>4
    <3>2. CASE pay[y].age = MaxAge - 1
      <4>1. OnTheList(y) /\ (ran => y \in missed)
        BY <3>1, <3>2 DEF AbandonInv, OwedInv
      <4>2. OnTheList(y)'
        <5> SUFFICES ASSUME NEW r \in Slots, run'[r].fresh,
                            run'[r].phase \in {"list", "ask", "confirm"}
                     PROVE  y \in run'[r].todo \cup missed'
          BY DEF OnTheList
        <5>1. CASE r = s
          BY <2>1, <2>3, <3>1, <4>1, <5>1 DEF OnTheList
        <5>2. CASE r # s
          BY <2>3, <4>1, <5>2 DEF OnTheList
        <5>3. QED
          BY <5>1, <5>2
      <4>3. QED
        BY <2>1, <2>3, <3>1, <3>2, <4>1, <4>2, MaxAgeAssumption
    <3>3. CASE pay[y].age # MaxAge - 1
      BY <2>3, <3>1, <3>3 DEF AbandonInv, OwedInv
    <3>4. QED
      BY <3>2, <3>3
  <2>6. StaleInv'
    <3>1. \A y \in Payments : pay'[y].age = pay[y].age
      BY <2>2
    <3>2. \A r \in Slots : run'[r].stale = run[r].stale
                           /\ run[r].stale \subseteq Payments
      BY <1>0, <2>3 DEF Runs
    <3>3. QED
      BY <3>1, <3>2 DEF AbandonInv, StaleInv
  <2>7. AbandonedOnlyIfMissed'
    BY <2>1, <2>2, <2>3 DEF AbandonInv, AbandonedOnlyIfMissed
  <2>8. QED
    BY <2>5, <2>6, <2>7 DEF AbandonInv
<1>5. CASE Abandon(s)
  <2>1. /\ run[s].phase = "ask" /\ run[s].todo = {}
        /\ run' = [run EXCEPT ![s].phase = "release"]
        /\ ran' = (ran \/ run[s].fresh)
        /\ UNCHANGED <<late, missed>>
    BY <1>5 DEF Abandon
  <2>2. \A y \in Payments :
          \/ pay'[y] = pay[y]
          \/ /\ y \in run[s].stale /\ Pending(y)
             /\ pay'[y] = [pay[y] EXCEPT !.status = "FAILED"]
    BY <1>5 DEF Abandon
  <2>3. \A y \in Payments :
          /\ pay'[y].age = pay[y].age /\ pay'[y].captured = pay[y].captured
          /\ pay'[y].status = pay[y].status
             \/ (pay'[y].status = "FAILED" /\ y \in run[s].stale /\ Pending(y))
    BY <2>2 DEF TypeInv, TypeOK
  <2>4. /\ \A r \in Slots \ {s} : run'[r] = run[r]
        /\ run'[s].phase = "release" /\ run'[s].stale = run[s].stale
    BY <1>0, <2>1 DEF Runs
  <2>5. \A y \in Payments : Owed(y)' => Owed(y)
    BY <2>1, <2>3 DEF Owed, Pending
  <2>6. OwedInv'
    <3> SUFFICES ASSUME NEW y \in Payments, Owed(y)'
                 PROVE  /\ pay'[y].age = MaxAge - 1 =>
                             OnTheList(y)' /\ (ran' => y \in missed')
                        /\ pay'[y].age = MaxAge => y \in missed'
      BY DEF OwedInv
    <3>1. Owed(y) /\ pay'[y].age = pay[y].age
      BY <2>3, <2>5
    <3>2. CASE pay[y].age = MaxAge - 1
      <4>1. OnTheList(y) /\ (ran => y \in missed)
        BY <3>1, <3>2 DEF AbandonInv, OwedInv
      <4>2. ran' => y \in missed'
        BY <2>1, <4>1 DEF OnTheList
      <4>3. OnTheList(y)'
        BY <2>1, <2>4, <4>1 DEF OnTheList
      <4>4. QED
        BY <3>1, <3>2, <4>2, <4>3, MaxAgeAssumption
    <3>3. CASE pay[y].age # MaxAge - 1
      BY <2>1, <3>1, <3>3 DEF AbandonInv, OwedInv
    <3>4. QED
      BY <3>2, <3>3
  <2>7. StaleInv'
    <3>1. \A r \in Slots : run'[r].stale = run[r].stale
                           /\ run[r].stale \subseteq Payments
      BY <1>0, <2>4 DEF Runs
    <3>2. QED
      BY <2>3, <3>1 DEF AbandonInv, StaleInv
  <2>8. AbandonedOnlyIfMissed'
    <3> SUFFICES ASSUME NEW y \in Payments, pay'[y].status = "FAILED"
                 PROVE  /\ pay'[y].age = MaxAge
                        /\ pay'[y].captured /\ y \notin late' => y \in missed'
      BY DEF AbandonedOnlyIfMissed
    <3>1. CASE pay[y].status = "FAILED"
      BY <2>1, <2>3, <3>1 DEF AbandonInv, AbandonedOnlyIfMissed
    <3>2. CASE y \in run[s].stale /\ Pending(y)
      BY <2>1, <2>3, <3>2 DEF AbandonInv, StaleInv, OwedInv, Owed
    <3>3. QED
      BY <2>3, <3>1, <3>2
  <2>9. QED
    BY <2>6, <2>7, <2>8 DEF AbandonInv
<1>6. CASE ReleaseLock(s) \/ Die(s)
  <2>1. /\ run' = [run EXCEPT ![s] = NoRun]
        /\ missed \subseteq missed' /\ UNCHANGED <<pay, late, ran>>
    BY <1>6 DEF ReleaseLock, Die
  <2>2. /\ ~run'[s].fresh /\ run'[s].stale = {}
        /\ \A r \in Slots \ {s} : run'[r] = run[r]
    BY <1>0, <2>1 DEF NoRun
  <2>3. QED
    BY <2>1, <2>2, AbandonFrame
<1>7. CASE Throw(s)
  <2>1. /\ run' = [run EXCEPT ![s].phase = "release"]
        /\ missed \subseteq missed' /\ UNCHANGED <<pay, late, ran>>
    BY <1>7 DEF Throw
  <2>2. /\ run'[s].phase = "release" /\ run'[s].stale = run[s].stale
        /\ \A r \in Slots \ {s} : run'[r] = run[r]
    BY <1>0, <2>1 DEF Runs
  <2>3. QED
    BY <2>1, <2>2, AbandonFrame
<1>8. QED
  BY <1>1, <1>2, <1>3, <1>4, <1>5, <1>6, <1>7 DEF Step

\* Nothing is captured before it is started.
UnbornInv == \A x \in Payments : pay[x].status = "none" => ~pay[x].captured

\* No step captures before it starts.
LEMMA UnbornInvStep == TypeInv /\ UnbornInv /\ [Next]_vars => UnbornInv'
<1> SUFFICES ASSUME TypeInv, UnbornInv, [Next]_vars PROVE UnbornInv'
  OBVIOUS
<1>0. pay \in [Payments -> [status : Statuses, age : 0 .. MaxAge,
                            captured : BOOLEAN]]
  BY DEF TypeInv, TypeOK
<1>1. CASE \E s \in Slots : Confirm(s)
  BY <1>0, <1>1 DEF Confirm, MarkPaid, UnbornInv
<1>2. CASE \E s \in Slots : Abandon(s)
  BY <1>0, <1>2 DEF Abandon, Pending, UnbornInv
<1>3. CASE Tick
  BY <1>0, <1>3 DEF Tick, UnbornInv
<1>4. CASE \E x \in Payments : Create(x) \/ Capture(x) \/ ConfirmElsewhere(x)
  BY <1>0, <1>4 DEF Create, Capture, ConfirmElsewhere, MarkPaid, UnbornInv
<1>5. CASE UNCHANGED pay
  BY <1>5 DEF UnbornInv
<1>6. QED
  BY <1>1, <1>2, <1>3, <1>4, <1>5
  DEF Next, Step, StartRun, FindPending, Lookup, ReleaseLock, Throw, Die,
      MissFiring, vars

\* Every step keeps it: when a tick ends, whoever was not missed was looked at.
LEMMA AbandonInvStep ==
  TypeInv /\ UnbornInv /\ AbandonInv /\ [Next]_vars => AbandonInv'
<1> SUFFICES ASSUME TypeInv, UnbornInv, AbandonInv, [Next]_vars
             PROVE  AbandonInv'
  OBVIOUS
<1>0. /\ run \in [Slots -> Runs]
      /\ pay \in [Payments -> [status : Statuses, age : 0 .. MaxAge,
                               captured : BOOLEAN]]
  BY DEF TypeInv, TypeOK
<1>1. CASE \E s \in Slots : StartRun(s) \/ Step(s) \/ Throw(s) \/ Die(s)
  BY <1>1, RunAbandonInv
<1>2. CASE MissFiring \/ UNCHANGED vars
  <2>1. UNCHANGED <<pay, run, ran, late, missed>>
    BY <1>2 DEF MissFiring, vars
  <2>2. QED
    BY <2>1 DEF AbandonInv, OwedInv, StaleInv, Owed, Pending, OnTheList,
                AbandonedOnlyIfMissed
<1>3. CASE Tick
  <2>1. \A x \in Payments :
          /\ pay'[x].status = pay[x].status /\ pay'[x].captured = pay[x].captured
          /\ pay'[x].age \in {pay[x].age, pay[x].age + 1}
          /\ pay[x].age = MaxAge => pay'[x].age = MaxAge
          /\ pay[x].status # "none" /\ pay[x].age < MaxAge =>
               pay'[x].age = pay[x].age + 1
    BY <1>0, <1>3 DEF Tick
  <2>2. /\ \A s \in Slots : ~run'[s].fresh /\ run'[s].stale = run[s].stale
        /\ ran' = FALSE /\ late' = late
        /\ missed' = IF ran THEN missed
                            ELSE missed \cup {x \in Payments : Pending(x)}
    BY <1>0, <1>3 DEF Tick, Runs
  <2>3. OwedInv'
    <3> SUFFICES ASSUME NEW x \in Payments, Owed(x)', pay'[x].age = MaxAge
                 PROVE  x \in missed'
      BY <2>2 DEF OwedInv, OnTheList
    <3>1. Owed(x)
      BY <2>1, <2>2 DEF Owed, Pending
    <3>2. pay[x].age \in {MaxAge - 1, MaxAge}
      BY <1>0, <2>1, MaxAgeAssumption
    <3>3. CASE ran \/ pay[x].age = MaxAge
      BY <2>2, <3>1, <3>2, <3>3 DEF AbandonInv, OwedInv
    <3>4. CASE ~ran
      BY <2>2, <3>1, <3>4 DEF Owed
    <3>5. QED
      BY <3>3, <3>4
  <2>4. StaleInv'
    <3>1. \A s \in Slots : run[s].stale \subseteq Payments
      BY <1>0 DEF Runs
    <3>2. QED
      BY <2>1, <2>2, <3>1 DEF AbandonInv, StaleInv
  <2>5. AbandonedOnlyIfMissed'
    <3>1. missed \subseteq missed'
      BY <2>2
    <3>2. QED
      BY <2>1, <2>2, <3>1 DEF AbandonInv, AbandonedOnlyIfMissed
  <2>6. QED
    BY <2>3, <2>4, <2>5 DEF AbandonInv
<1>4. ASSUME NEW x \in Payments, Create(x) \/ Capture(x) \/ ConfirmElsewhere(x)
      PROVE  AbandonInv'
  <2>1. /\ \A y \in Payments \ {x} : pay'[y] = pay[y]
        /\ pay'[x].age = pay[x].age
        /\ UNCHANGED <<run, ran, missed>> /\ late \subseteq late'
    BY <1>0, <1>4 DEF Create, Capture, ConfirmElsewhere, MarkPaid
  <2>2. \/ pay'[x].status = "PAID"
        \/ pay'[x].status = "PENDING" /\ ~pay'[x].captured
        \/ pay'[x].status = pay[x].status /\ ~pay[x].captured
           /\ (pay[x].age >= MaxAge - 1 => x \in late')
    <3>1. CASE Create(x)
      BY <1>0, <3>1 DEF Create, UnbornInv
    <3>2. CASE Capture(x)
      BY <1>0, <3>2 DEF Capture
    <3>3. CASE ConfirmElsewhere(x)
      BY <1>0, <3>3 DEF ConfirmElsewhere, MarkPaid
    <3>4. QED
      BY <1>4, <3>1, <3>2, <3>3
  <2>3. StaleInv'
    BY <1>0, <2>1 DEF AbandonInv, StaleInv, Runs
  <2>4. AbandonedOnlyIfMissed'
    BY <2>1, <2>2, MaxAgeAssumption DEF AbandonInv, AbandonedOnlyIfMissed
  <2>5. \A y \in Payments : Owed(y)' /\ pay'[y].age >= MaxAge - 1 => Owed(y)
    BY <2>1, <2>2 DEF Owed, Pending
  <2>6. \A y \in Payments : OnTheList(y) => OnTheList(y)'
    BY <2>1 DEF OnTheList
  <2>7. \A y \in Payments : pay'[y].age = pay[y].age
    BY <2>1
  <2>8. OwedInv'
    BY <2>1, <2>5, <2>6, <2>7, MaxAgeAssumption DEF AbandonInv, OwedInv
  <2>9. QED
    BY <2>3, <2>4, <2>8 DEF AbandonInv
<1>5. QED
  BY <1>1, <1>2, <1>3, <1>4 DEF Next

\* Whom the job abandons: a payment over its 24 h only, and a captured one only
\* when it was captured at the very end of them or some run missed it.
THEOREM AbandonedWereMissed == Spec => []AbandonedOnlyIfMissed
<1>1. AbandonInv => AbandonedOnlyIfMissed
  BY DEF AbandonInv
<1>2. Init => UnbornInv
  BY DEF Init, UnbornInv
<1>3. QED
  BY InitTypeInv, TypeInvStep, InitAbandonInv, AbandonInvStep, UnbornInvStep,
     <1>1, <1>2, PTL DEF Spec

-----------------------------------------------------------------------------
\* Who is settled. A run of this tick began with every payment that is over
\* its 24 h, and no other gets that old before the next tick.

NoneIsOld == \A x \in Payments : Pending(x) => pay[x].age < MaxAge

\* A run that has gone through leaves no payment PENDING that is over its
\* 24 h: whatever it looked up, and whatever was paid or begun while it ran.
\* Only an error, a stop or a firing that never came can leave one, and the
\* next run that goes through settles it.
OldAreSettled == ran => NoneIsOld

OldInv ==
  /\ OldAreSettled
  /\ \A s \in Slots : run[s].fresh => Stale \subseteq run[s].stale
  /\ \A x \in Payments : pay[x].status = "none" => pay[x].age = 0

\* At the start there is no payment.
LEMMA InitOldInv == Init => OldInv
BY DEF Init, OldInv, OldAreSettled, NoRun

\* A step keeps it that lets no payment age or become PENDING, and takes no
\* old one off the list of a run of this tick.
LEMMA OldFrame ==
  ASSUME OldInv,
         \A x \in Payments : pay'[x].age = pay[x].age,
         \A x \in Payments : Pending(x)' => Pending(x),
         \A x \in Payments : pay'[x].status = "none" => pay[x].status = "none",
         \A s \in Slots : run'[s].fresh =>
            run[s].fresh /\ run[s].stale \subseteq run'[s].stale,
         ran' = ran
  PROVE  OldInv'
<1>1. Stale' = Stale
  BY DEF Stale
<1>2. OldAreSettled'
  BY DEF OldInv, OldAreSettled, NoneIsOld
<1>3. QED
  BY <1>1, <1>2 DEF OldInv

\* Every step keeps it.
LEMMA OldInvStep == TypeInv /\ OldInv /\ [Next]_vars => OldInv'
<1> SUFFICES ASSUME TypeInv, OldInv, [Next]_vars PROVE OldInv'
  OBVIOUS
<1>0. /\ run \in [Slots -> Runs]
      /\ pay \in [Payments -> [status : Statuses, age : 0 .. MaxAge,
                               captured : BOOLEAN]]
  BY DEF TypeInv, TypeOK
<1>1. ASSUME NEW s \in Slots, StartRun(s) PROVE OldInv'
  <2>1. CASE UNCHANGED run
    BY <1>1, <2>1, OldFrame DEF StartRun, Pending
  <2>2. CASE ~UNCHANGED run
    <3>1. PICK young \in SUBSET {x \in Payments : pay[x].age = 1} :
            run' = [run EXCEPT ![s] =
                      [phase |-> "list", fresh |-> TRUE, one |-> None,
                       todo |-> Window \ young, stale |-> Stale]]
      BY <1>1, <2>2 DEF StartRun
    <3>2. run'[s].stale = Stale /\ \A r \in Slots \ {s} : run'[r] = run[r]
      BY <1>0, <3>1
    <3>3. UNCHANGED <<pay, ran>> /\ Stale' = Stale
      BY <1>1 DEF StartRun, Stale
    <3>4. QED
      BY <3>2, <3>3 DEF OldInv, OldAreSettled, NoneIsOld, Pending
  <2>3. QED
    BY <2>1, <2>2
<1>2. ASSUME NEW s \in Slots, FindPending(s) \/ Lookup(s) \/ Throw(s) PROVE OldInv'
  <2>1. UNCHANGED <<pay, ran>>
    BY <1>2 DEF FindPending, Lookup, Throw
  <2>2. \A r \in Slots : run'[r].fresh = run[r].fresh /\ run'[r].stale = run[r].stale
    <3>1. CASE FindPending(s)
      BY <1>0, <3>1 DEF FindPending, Runs
    <3>2. CASE Lookup(s)
      BY <1>0, <3>2 DEF Lookup, Runs
    <3>3. CASE Throw(s)
      BY <1>0, <3>3 DEF Throw, Runs
    <3>4. QED
      BY <1>2, <3>1, <3>2, <3>3
  <2>3. QED
    BY <2>1, <2>2, OldFrame DEF Pending
<1>3. ASSUME NEW s \in Slots, Confirm(s) PROVE OldInv'
  <2>1. run[s].one \in Payments /\ ran' = ran
    BY <1>3 DEF Confirm, In, TypeInv, HandsOK
  <2>2. \A x \in Payments :
          pay'[x].age = pay[x].age /\ pay'[x].status \in {pay[x].status, "PAID"}
    BY <1>0, <1>3, <2>1 DEF Confirm, MarkPaid
  <2>3. \A r \in Slots : run'[r].fresh = run[r].fresh /\ run'[r].stale = run[r].stale
    BY <1>0, <1>3 DEF Confirm, Runs
  <2>4. QED
    BY <2>1, <2>2, <2>3, OldFrame DEF Pending
<1>4. ASSUME NEW s \in Slots, Abandon(s) PROVE OldInv'
  <2>1. \A x \in Payments :
          /\ pay'[x].age = pay[x].age
          /\ pay'[x].status = IF x \in run[s].stale /\ Pending(x)
                                THEN "FAILED" ELSE pay[x].status
    BY <1>0, <1>4 DEF Abandon
  <2>2. /\ ran' = (ran \/ run[s].fresh)
        /\ \A r \in Slots : run'[r].fresh = run[r].fresh
                            /\ run'[r].stale = run[r].stale
    BY <1>0, <1>4 DEF Abandon, Runs
  <2>3. \A x \in Payments : Pending(x)' => Pending(x) /\ x \notin run[s].stale
    BY <2>1 DEF Pending
  <2>4. CASE ~run[s].fresh
    <3>1. ran' = ran
      BY <2>2, <2>4 DEF TypeInv, TypeOK
    <3>2. QED
      BY <2>1, <2>2, <2>3, <3>1, OldFrame
  <2>5. CASE run[s].fresh
    <3>1. Stale' = Stale /\ Stale \subseteq run[s].stale
      BY <2>1, <2>5 DEF Stale, OldInv
    <3>2. NoneIsOld'
      BY <1>0, <2>1, <2>3, <3>1, MaxAgeAssumption DEF NoneIsOld, Stale
    <3>3. QED
      BY <2>1, <2>2, <3>1, <3>2 DEF OldInv, OldAreSettled
  <2>6. QED
    BY <2>4, <2>5
<1>5. ASSUME NEW s \in Slots, ReleaseLock(s) \/ Die(s) PROVE OldInv'
  <2>1. UNCHANGED <<pay, ran>> /\ run' = [run EXCEPT ![s] = NoRun]
    BY <1>5 DEF ReleaseLock, Die
  <2>2. QED
    BY <1>0, <2>1, NoRunIsOne, OldFrame DEF Pending
<1>6. CASE Tick
  <2>1. \A s \in Slots : ~run'[s].fresh
    BY <1>0, <1>6 DEF Tick, Runs
  <2>2. \A x \in Payments : pay'[x].status = "none" => pay'[x].age = 0
    BY <1>0, <1>6 DEF Tick, OldInv
  <2>3. QED
    BY <1>6, <2>1, <2>2 DEF Tick, OldInv, OldAreSettled
<1>7. ASSUME NEW x \in Payments, Create(x) PROVE OldInv'
  <2>1. /\ \A y \in Payments \ {x} : pay'[y] = pay[y]
        /\ pay'[x].status = "PENDING" /\ pay'[x].age = 0 /\ pay[x].age = 0
        /\ UNCHANGED <<run, ran>>
    BY <1>0, <1>7 DEF Create, OldInv
  <2>2. NoneIsOld => NoneIsOld'
    BY <2>1, MaxAgeAssumption DEF NoneIsOld, Pending
  <2>3. Stale' = Stale
    BY <2>1, MaxAgeAssumption DEF Stale
  <2>4. QED
    BY <2>1, <2>2, <2>3 DEF OldInv, OldAreSettled
<1>8. ASSUME NEW x \in Payments, Capture(x) \/ ConfirmElsewhere(x) PROVE OldInv'
  <2>1. /\ \A y \in Payments :
             pay'[y].age = pay[y].age /\ pay'[y].status \in {pay[y].status, "PAID"}
        /\ UNCHANGED <<run, ran>>
    BY <1>0, <1>8 DEF Capture, ConfirmElsewhere, MarkPaid
  <2>2. QED
    BY <2>1, OldFrame DEF Pending
<1>9. CASE MissFiring \/ UNCHANGED vars
  <2>1. UNCHANGED <<pay, run, ran>>
    BY <1>9 DEF MissFiring, vars
  <2>2. QED
    BY <2>1, OldFrame DEF Pending
<1>10. QED
  BY <1>1, <1>2, <1>3, <1>4, <1>5, <1>6, <1>7, <1>8, <1>9 DEF Next, Step

\* After a run that went through nothing is PENDING past its 24 h: what is
\* left of EveryPaymentIsSettled is that such a run comes.
THEOREM OldPaymentsAreSettled == Spec => []OldAreSettled
<1>1. OldInv => OldAreSettled
  BY DEF OldInv
<1>2. QED
  BY InitTypeInv, TypeInvStep, InitOldInv, OldInvStep, <1>1, PTL DEF Spec
=============================================================================
