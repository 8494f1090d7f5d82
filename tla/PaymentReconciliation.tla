----------------------- MODULE PaymentReconciliation -----------------------
(***************************************************************************)
(* The payment-check job: cron fires on every server every five minutes,   *)
(* a Redis lock lets one of the firings run, and the run asks Razorpay     *)
(* about the oldest payments still pending, a batch at a time. It confirms *)
(* the captured ones, and abandons the pending ones that are over 24 h old.*)
(*                                                                         *)
(* Time passes in ticks of five minutes. The lock lives for four: a run    *)
(* that is still going at the next tick has lost it.                       *)
(***************************************************************************)
EXTENDS Naturals, FiniteSets

CONSTANTS
  Slots,      \* runs that can be in flight at once: bound on slow runs
  Servers,    \* how many servers fire the cron
  Payments,   \* bound: payments that are started
  Batch,      \* RECONCILE_BATCH
  MaxAge,     \* RECONCILE_MAX_AGE_MS, in ticks
  MaxFaults,  \* bound: slow runs, errors, deaths and firings missed
  None        \* nobody holds the lock

ASSUME CountsAssumption ==
  Servers \in Nat /\ Batch \in Nat \ {0} /\ MaxFaults \in Nat

\* A payment is in the window of at least one run however young it was when
\* the first one came.
ASSUME MaxAgeAssumption == MaxAge \in Nat /\ MaxAge >= 3
ASSUME NoneAssumption == None \notin Slots

VARIABLES
  pay,      \* [status, age, captured]: the order and its Razorpay payment
  lock,     \* who holds job-lock:payment-reconciliation
  firings,  \* firings of this tick that have not run yet
  run,      \* run[s]: the run in slot s
  ran,      \* a run that began in this tick has gone through
  late,     \* history: payments captured when no run was sure to follow
  missed,   \* history: payments some run owed a look and did not give one
  faults

vars == <<pay, lock, firings, run, ran, late, missed, faults>>

-----------------------------------------------------------------------------
Statuses == {"none", "PENDING", "PAID", "FAILED"}
Phases == {"idle", "list", "ask", "confirm", "release"}

\* fresh: began in this tick; todo: what it has still to ask about;
\* stale: what was over 24 h old when it began; one: the payment at hand.
Runs == [phase : Phases, fresh : BOOLEAN, todo : SUBSET Payments,
         stale : SUBSET Payments, one : Payments \cup {None}]
NoRun == [phase |-> "idle", fresh |-> FALSE, todo |-> {}, stale |-> {},
          one |-> None]

Idle(s) == run[s].phase = "idle"
In(s, phase) == run[s].phase = phase
Pending(x) == pay[x].status = "PENDING"
Fault == faults < MaxFaults /\ faults' = faults + 1
Oldest(x, S) == \A y \in S : pay[y].age <= pay[x].age

\* Bug: the window ends too early.
ShortWindow == {x \in Payments : pay[x].age \in 1 .. MaxAge - 2}

\* createdAt in [from, to), by the clock the run began with.
Window == {x \in Payments : pay[x].age \in 1 .. MaxAge - 1}

\* Bug: nothing is ever old enough.
NeverStale == {x \in Payments : pay[x].age > MaxAge}

Stale == {x \in Payments : pay[x].age = MaxAge}

-----------------------------------------------------------------------------
\* JobRunnerService.run. A payment of the first tick may be under 3 minutes.
StartRun(s) ==
  /\ firings > 0 /\ Idle(s)
  /\ firings' = firings - 1
  /\ IF lock = None
       THEN /\ lock' = s
            /\ \E young \in SUBSET {x \in Payments : pay[x].age = 1} :
                 run' = [run EXCEPT ![s] =
                           [phase |-> "list", fresh |-> TRUE, one |-> None,
                            todo |-> Window \ young, stale |-> Stale]]
       ELSE UNCHANGED <<lock, run>>
  /\ UNCHANGED <<pay, ran, late, missed, faults>>

\* findPendingRazorpayOrders: the oldest first, as many as fit the batch.
Batches(S) ==
  {T \in SUBSET S : /\ Cardinality(T) <= Batch
                    /\ Cardinality(T) = Batch \/ T = S
                    /\ \A x \in T, y \in S \ T : pay[y].age <= pay[x].age}

FindPending(s) ==
  LET pending == {x \in run[s].todo : Pending(x)} IN
  /\ In(s, "list")
  /\ \E batch \in Batches(pending) :
       /\ run' = [run EXCEPT ![s].phase = "ask", ![s].todo = batch]
       /\ missed' = missed \cup (pending \ batch)
  /\ UNCHANGED <<pay, lock, firings, ran, late, faults>>

\* An error of the lookup is counted, and the next payment is asked about.
Lookup(s) ==
  /\ In(s, "ask")
  /\ \E x \in run[s].todo :
       /\ Oldest(x, run[s].todo)
       /\ \/ /\ pay[x].captured
             /\ run' = [run EXCEPT ![s].phase = "confirm", ![s].one = x]
             /\ UNCHANGED missed
          \/ /\ ~pay[x].captured
             /\ run' = [run EXCEPT ![s].todo = @ \ {x}]
             /\ UNCHANGED missed
          \/ /\ run' = [run EXCEPT ![s].todo = @ \ {x}]
             /\ missed' = missed \cup {x}
  /\ UNCHANGED <<pay, lock, firings, ran, late, faults>>

\* Bug: Razorpay's word for it is stored.
MarkCaptured(x) == pay' = [pay EXCEPT ![x].status = "captured"]

MarkPaid(x) == pay' = [pay EXCEPT ![x].status = "PAID"]

\* confirmOrderPayment: the mark, then what may throw: it ends the run.
Confirm(s) ==
  LET x == run[s].one IN
  /\ In(s, "confirm")
  /\ MarkPaid(x)
  /\ \/ run' = [run EXCEPT ![s].phase = "ask", ![s].todo = @ \ {x}]
        /\ UNCHANGED missed
     \/ run' = [run EXCEPT ![s].phase = "release"]
        /\ missed' = missed \cup run[s].todo
  /\ UNCHANGED <<lock, firings, ran, late, faults>>

\* markStaleRazorpayOrdersFailed.
Abandon(s) ==
  /\ In(s, "ask") /\ run[s].todo = {}
  /\ pay' = [x \in Payments |-> IF x \in run[s].stale /\ Pending(x)
                                  THEN [pay[x] EXCEPT !.status = "FAILED"]
                                  ELSE pay[x]]
  /\ run' = [run EXCEPT ![s].phase = "release"]
  /\ ran' = (ran \/ run[s].fresh)
  /\ UNCHANGED <<lock, firings, late, missed, faults>>

\* Bug: the lock is deleted, whoever holds it by now.
ReleaseAnyLock(s) ==
  /\ In(s, "release")
  /\ lock' = None
  /\ run' = [run EXCEPT ![s] = NoRun]
  /\ UNCHANGED <<pay, firings, ran, late, missed, faults>>

\* releaseLock: only what its token still owns.
ReleaseLock(s) ==
  /\ In(s, "release")
  /\ lock' = IF lock = s THEN None ELSE lock
  /\ run' = [run EXCEPT ![s] = NoRun]
  /\ UNCHANGED <<pay, firings, ran, late, missed, faults>>

-----------------------------------------------------------------------------
\* Faults, and the world outside.

\* A query or a write throws: the run ends, the finally releases the lock.
Throw(s) ==
  /\ run[s].phase \in {"list", "ask", "confirm"} /\ Fault
  /\ run' = [run EXCEPT ![s].phase = "release"]
  /\ missed' = missed \cup run[s].todo
  /\ UNCHANGED <<pay, lock, firings, ran, late>>

\* The lock stays until its TTL is over.
Die(s) ==
  /\ ~Idle(s) /\ Fault
  /\ run' = [run EXCEPT ![s] = NoRun]
  /\ missed' = missed \cup run[s].todo
  /\ UNCHANGED <<pay, lock, firings, ran, late>>

\* A server is down when its cron should fire.
MissFiring ==
  /\ firings > 0 /\ Fault
  /\ firings' = firings - 1
  /\ UNCHANGED <<pay, lock, run, ran, late, missed>>

\* Five minutes go by: a run in flight at that time is slow.
Tick ==
  /\ firings = 0
  /\ \/ (\A s \in Slots : Idle(s)) /\ UNCHANGED faults
     \/ (\E s \in Slots : ~Idle(s)) /\ Fault
  /\ pay' = [x \in Payments |->
               IF pay[x].status # "none" /\ pay[x].age < MaxAge
                 THEN [pay[x] EXCEPT !.age = @ + 1] ELSE pay[x]]
  /\ lock' = None
  /\ firings' = Servers
  /\ run' = [s \in Slots |-> [run[s] EXCEPT !.fresh = FALSE]]
  /\ ran' = FALSE
  /\ missed' = IF ran THEN missed ELSE missed \cup {x \in Payments : Pending(x)}
  /\ UNCHANGED late

Create(x) ==
  /\ pay[x].status = "none"
  /\ pay' = [pay EXCEPT ![x].status = "PENDING"]
  /\ UNCHANGED <<lock, firings, run, ran, late, missed, faults>>

Capture(x) ==
  /\ pay[x].status # "none" /\ ~pay[x].captured
  /\ pay' = [pay EXCEPT ![x].captured = TRUE]
  /\ late' = IF pay[x].age >= MaxAge - 1 THEN late \cup {x} ELSE late
  /\ UNCHANGED <<lock, firings, run, ran, missed, faults>>

\* The browser or the webhook.
ConfirmElsewhere(x) ==
  /\ pay[x].captured
  /\ MarkPaid(x)
  /\ UNCHANGED <<lock, firings, run, ran, late, missed, faults>>

-----------------------------------------------------------------------------
Init ==
  /\ pay = [x \in Payments |-> [status |-> "none", age |-> 0,
                                captured |-> FALSE]]
  /\ lock = None /\ firings = 0
  /\ run = [s \in Slots |-> NoRun]
  /\ ran = FALSE /\ late = {} /\ missed = {} /\ faults = 0

Step(s) == FindPending(s) \/ Lookup(s) \/ Confirm(s) \/ Abandon(s)
           \/ ReleaseLock(s)

Next ==
  \/ \E s \in Slots : StartRun(s) \/ Step(s) \/ Throw(s) \/ Die(s)
  \/ MissFiring \/ Tick
  \/ \E x \in Payments : Create(x) \/ Capture(x) \/ ConfirmElsewhere(x)

Spec == Init /\ [][Next]_vars

\* Time passes, cron fires, and a run that was started goes on.
FairSpec ==
  /\ Spec
  /\ WF_vars(Tick) /\ WF_vars(\E s \in Slots : StartRun(s))
  /\ \A s \in Slots : WF_vars(Step(s))

-----------------------------------------------------------------------------
\* Properties.

\* Every variable has its type.
TypeOK ==
  /\ pay \in [Payments -> [status : Statuses, age : 0 .. MaxAge,
                           captured : BOOLEAN]]
  /\ lock \in Slots \cup {None}
  /\ firings \in Nat
  /\ run \in [Slots -> Runs]
  /\ ran \in BOOLEAN
  /\ late \subseteq Payments /\ missed \subseteq Payments
  /\ faults \in Nat

\* JobRunnerService: "at most once at a time across every server". Of the runs
\* in flight all but one have outlived their lock: a slow run that ends never
\* lets go of the lock of the run that followed it.
RunsAreSerial ==
  \A r, s \in Slots :
    ~Idle(r) /\ ~Idle(s) /\ run[r].fresh /\ run[s].fresh => r = s

\* "The guaranteed path for online payments": a payment is abandoned after its
\* 24 h only, and a captured one only if it was captured when they were nearly
\* over, or if a run owed it a look and gave none: crowded out of a batch by
\* older payments, a failed lookup, a run that failed or never was.
AbandonedOnlyIfMissed ==
  \A x \in Payments :
    pay[x].status = "FAILED" =>
      /\ pay[x].age = MaxAge
      /\ pay[x].captured /\ x \notin late => x \in missed

\* Whatever throws, a payment does not stay PENDING: those that make a run
\* fail are settled by it, and lookups that never succeed age out.
EveryPaymentIsSettled ==
  \A x \in Payments : Pending(x) ~> pay[x].status \in {"PAID", "FAILED"}
=============================================================================
