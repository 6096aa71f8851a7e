--------------------------- MODULE CallUpWorkflow ---------------------------
(***************************************************************************)
(* The call-up queue driven by the HTTP handlers of                        *)
(* internal/server/queue.go, by one Temporal ECallUpCallUpWorkflow per     *)
(* call-up (internal/queue/workflow.go, orchestrator.go) and by the        *)
(* worker's sweeper (sweeper.go).                                          *)
(*                                                                         *)
(* A start of a run or a signal to it follows the commit it is about and   *)
(* can be lost: the call fails or the process dies in between.  The start  *)
(* for a promoted truck and the steps for the arrived one may come in      *)
(* either order here; the handler makes the former first.                  *)
(***************************************************************************)
EXTENDS CallUpQueue

VARIABLES
  stage,      \* stage of the request's workflow run
  deadline,   \* GraceDeadline of the run's input
  signalled,  \* arrival-confirmed signal buffered by the run
  starts,     \* StartCallUpWorkflow calls under way: <<request, deadline>>
  arriving,   \* arriveQueueRequest calls after their commit
  sweep       \* next transaction of the sweeper

runVars  == <<stage, deadline, signalled>>
callVars == <<starts, arriving>>
flowVars == <<queueVars, runVars, callVars, sweep>>

Stages == {"NOT_STARTED", "AWAITING_ARRIVAL", "GRACE_WINDOW_ELAPSED",
           "ARRIVAL_CHECK", "ARRIVED", "FORFEITED"}

Running(q) == stage[q] \in {"AWAITING_ARRIVAL", "GRACE_WINDOW_ELAPSED",
                            "ARRIVAL_CHECK"}

FlowTypeOK ==
  /\ QueueTypeOK
  /\ stage \in [Requests -> Stages]
  /\ deadline \in [Requests -> Nat]
  /\ signalled \in [Requests -> BOOLEAN]
  /\ starts \subseteq Requests \X Nat
  /\ arriving \in [Requests -> {"idle", "recorded", "ensured"}]
  /\ sweep \in {"ExpireStale", "ReconcileCallUps", "ListActiveCallUps"}

FlowInit ==
  /\ QueueInit
  /\ stage = [q \in Requests |-> "NOT_STARTED"]
  /\ deadline = [q \in Requests |-> 0]
  /\ signalled = [q \in Requests |-> FALSE]
  /\ starts = {}
  /\ arriving = [q \in Requests |-> "idle"]
  /\ sweep = "ExpireStale"

-----------------------------------------------------------------------------
\* Starting a run.

\* A running workflow is left alone; a closed one is followed by a fresh run.
Started(q, d) ==
  IF Running(q)
    THEN UNCHANGED runVars
    ELSE /\ stage' = [stage EXCEPT ![q] = "AWAITING_ARRIVAL"]
         /\ deadline' = [deadline EXCEPT ![q] = d]
         /\ signalled' = [signalled EXCEPT ![q] = FALSE]

StartCallUpWorkflow(q, d) ==
  /\ <<q, d>> \in starts
  /\ starts' = starts \ {<<q, d>>}
  /\ Started(q, d)
  /\ UNCHANGED <<queueVars, arriving, sweep>>

StartLost(q, d) ==
  /\ <<q, d>> \in starts
  /\ starts' = starts \ {<<q, d>>}
  /\ UNCHANGED <<queueVars, runVars, arriving, sweep>>

\* startPromotedCallUps: the handler starts a run for the truck it called up.
startPromoted == starts' = starts \cup {<<q, rows'[q].grace>> : q \in Promoted}

-----------------------------------------------------------------------------
\* Handlers.

\* Operations whose promotion, if any, is left to the sweeper to supervise:
\* the capacity hook of a booking release, and the operator paths.
StoreOnly ==
  /\ \/ \E t \in Terminals : \/ PromoteNext(t)
                             \/ \E c \in Capacities : ConfigureTerminal(t, c)
     \/ \E q \in Requests : \/ Create(q) \/ Depart(q)
                            \/ FlagReconciliation(q) \/ Requeue(q)
  /\ UNCHANGED <<runVars, callVars, sweep>>

\* Time passes.
FlowTick == Tick /\ UNCHANGED <<runVars, callVars, sweep>>

\* POST /v1/queue-requests/{id}/cancel
cancelQueueRequest(q) ==
  /\ Cancel(q)
  /\ startPromoted
  /\ UNCHANGED <<runVars, arriving, sweep>>

\* POST /v1/queue-requests/{id}/arrive.  A late arrival answers 422 and leaves
\* the truck it called up to the sweeper.
arriveQueueRequest(q) ==
  /\ arriving[q] = "idle"
  /\ Arrive(q)
  /\ \/ /\ rows'[q].status = "ARRIVED"
        /\ startPromoted
        /\ arriving' = [arriving EXCEPT ![q] = "recorded"]
     \/ /\ rows'[q].status = "FORFEITED"
        /\ UNCHANGED callVars
  /\ UNCHANGED <<runVars, sweep>>

\* The handler makes sure that the truck's own run exists, then signals it.
EnsureRun(q) ==
  /\ arriving[q] = "recorded"
  /\ Started(q, rows[q].grace)
  /\ arriving' = [arriving EXCEPT ![q] = "ensured"]
  /\ UNCHANGED <<queueVars, starts, sweep>>

SignalArrivalConfirmed(q) ==
  /\ arriving[q] = "ensured"
  /\ Running(q)
  /\ signalled' = [signalled EXCEPT ![q] = TRUE]
  /\ arriving' = [arriving EXCEPT ![q] = "idle"]
  /\ UNCHANGED <<queueVars, stage, deadline, starts, sweep>>

\* A start or the signal fails (502) or the server dies.
ArrivalLost(q) ==
  /\ arriving[q] # "idle"
  /\ arriving' = [arriving EXCEPT ![q] = "idle"]
  /\ UNCHANGED <<queueVars, runVars, starts, sweep>>

-----------------------------------------------------------------------------
\* The workflow run.

Goto(q, next) == /\ stage' = [stage EXCEPT ![q] = next]
                 /\ UNCHANGED <<deadline, signalled, callVars, sweep>>

ReceiveArrival(q) ==
  /\ stage[q] = "AWAITING_ARRIVAL"
  /\ signalled[q]
  /\ Goto(q, "ARRIVAL_CHECK")
  /\ UNCHANGED queueVars

\* Mutant: the timer is set half a grace window short.
GraceTimerShort(q) ==
  /\ stage[q] = "AWAITING_ARRIVAL"
  /\ ~signalled[q]
  /\ now + 1 >= deadline[q]
  /\ Goto(q, "GRACE_WINDOW_ELAPSED")
  /\ UNCHANGED queueVars

\* The selector takes a buffered signal before the timer.
GraceTimer(q) ==
  /\ stage[q] = "AWAITING_ARRIVAL"
  /\ ~signalled[q]
  /\ now >= deadline[q]
  /\ Goto(q, "GRACE_WINDOW_ELAPSED")
  /\ UNCHANGED queueVars

\* Retried for ever unless the arrival is on the row.
ArrivalCheck(q) ==
  /\ stage[q] = "ARRIVAL_CHECK"
  /\ rows[q].status = "ARRIVED"
  /\ Goto(q, "ARRIVED")
  /\ UNCHANGED queueVars

\* Mutant: the run closes and counts on the sweeper.
ForfeitCallUpSkipped(q) ==
  /\ stage[q] = "GRACE_WINDOW_ELAPSED"
  /\ Goto(q, "FORFEITED")
  /\ UNCHANGED queueVars

\* Mutant: the freed place is not passed on.
ForfeitCallUpUnpromoted(q) ==
  /\ stage[q] = "GRACE_WINDOW_ELAPSED"
  /\ rows[q].status \in CallUps
  /\ transitionOnlyTx(q, "FORFEITED")
  /\ Goto(q, "FORFEITED")
  /\ UNCHANGED <<now, capacity, requeued>>

\* Only the status is looked at, not the deadline on the row.  The commit's
\* report may be lost: then the activity runs again.
ForfeitCallUp(q) ==
  /\ stage[q] = "GRACE_WINDOW_ELAPSED"
  /\ \/ /\ rows[q].status \in CallUps
        /\ Forfeit(q)
        /\ Goto(q, "FORFEITED") \/ UNCHANGED <<runVars, callVars, sweep>>
     \/ /\ rows[q].status \notin CallUps
        /\ Goto(q, "FORFEITED")
        /\ UNCHANGED queueVars

-----------------------------------------------------------------------------
\* sweepTenant: three transactions, then the starts.

SweepExpire(S) ==
  /\ sweep = "ExpireStale"
  /\ ExpireStale(S)
  /\ sweep' = "ReconcileCallUps"
  /\ UNCHANGED <<runVars, callVars>>

SweepReconcile(S) ==
  /\ sweep = "ReconcileCallUps"
  /\ ReconcileCallUps(S)
  /\ sweep' = "ListActiveCallUps"
  /\ UNCHANGED <<runVars, callVars>>

SweepStart ==
  /\ sweep = "ListActiveCallUps"
  /\ starts' = starts \cup {<<q, rows[q].grace>> :
                              q \in {r \in Requests : rows[r].status \in CallUps}}
  /\ sweep' = "ExpireStale"
  /\ UNCHANGED <<queueVars, runVars, arriving>>

\* A transaction of the sweep fails or the worker restarts: the next tick
\* begins again.
SweepFails ==
  /\ sweep # "ExpireStale"
  /\ sweep' = "ExpireStale"
  /\ UNCHANGED <<queueVars, runVars, callVars>>

-----------------------------------------------------------------------------
Run(q) == \/ ReceiveArrival(q) \/ GraceTimer(q) \/ ArrivalCheck(q)
          \/ ForfeitCallUp(q)

FlowNext ==
  \/ StoreOnly
  \/ FlowTick
  \/ \E q \in Requests :
       \/ cancelQueueRequest(q) \/ arriveQueueRequest(q)
       \/ EnsureRun(q) \/ SignalArrivalConfirmed(q) \/ ArrivalLost(q)
       \/ Run(q)
  \/ \E st \in starts : StartCallUpWorkflow(st[1], st[2])
                        \/ StartLost(st[1], st[2])
  \/ \E S \in SUBSET Requests : SweepExpire(S) \/ SweepReconcile(S)
  \/ SweepStart \/ SweepFails

FlowSpec == FlowInit /\ [][FlowNext]_flowVars

\* The ticker keeps the sweep going, and a sweep is not for ever unlucky: some
\* sweep finds no row locked and does not fail.
SweepFairness ==
  /\ WF_flowVars(FlowTick)
  /\ WF_flowVars(\E S \in SUBSET Requests : SweepExpire(S))
  /\ SF_flowVars(SweepReconcile(Elapsed))
  /\ WF_flowVars(SweepStart)

\* Temporal keeps timers and retries activities without limit.
RunFairness ==
  /\ WF_flowVars(FlowTick)
  /\ \A q \in Requests :
       /\ WF_flowVars(ReceiveArrival(q) \/ GraceTimer(q) \/ ArrivalCheck(q))
       /\ WF_flowVars(ForfeitCallUp(q))

\* Temporal may be down: no run need start and none need move, the sweeper is
\* the only one that must.
SweepLiveSpec == FlowSpec /\ SweepFairness

\* The sweeper may stand still: the runs are alone.
RunLiveSpec == FlowSpec /\ RunFairness

\* The officer does what the 502 asks for, for as long as it is accepted, and
\* Temporal is not down for ever.
ArrivalRetrySpec ==
  /\ FlowSpec /\ RunFairness
  /\ \A q \in Requests : /\ SF_flowVars(arriveQueueRequest(q))
                         /\ SF_flowVars(EnsureRun(q))
                         /\ SF_flowVars(SignalArrivalConfirmed(q))

-----------------------------------------------------------------------------
\* Properties.

\* Handlers, runs and sweeps use the queue only through its operations.
ImplementsQueue == QueueSpec

\* A truck that was never requeued is forfeited only once its grace window is
\* over, whichever of timer, sweep, late start and arrival comes first
\* (ForfeitCallUp, ReconcileCallUps, Arrive).
FirstGraceHonoured ==
  [][\A q \in Requests \ requeued :
       /\ rows[q].status \in {"CALLED_UP", "EN_ROUTE"}
       /\ rows'[q].status = "FORFEITED"
       => now >= rows[q].grace]_flowVars

\* By the sweeper alone, whatever the runs do, every call-up is resolved once its grace window is
\* over: a stuck worker never silently extends it.
CallUpResolves ==
  \A q \in Requests :
    rows[q].status \in {"CALLED_UP", "EN_ROUTE"} /\ rows[q].grace < MaxTime ~>
      rows[q].status \notin {"CALLED_UP", "EN_ROUTE"}

\* By the sweeper alone no terminal keeps both a free place and a queue:
\* requests that nobody promoted on creation are called up all the same.
CapacityIsFilled ==
  \A t \in Terminals :
    [](<>(\/ Cardinality({q \in Requests : /\ Terminal[q] = t
                                           /\ rows[q].status \in
                                                {"CALLED_UP", "EN_ROUTE"}})
               >= capacity[t]
          \/ {q \in Requests : /\ Terminal[q] = t
                               /\ rows[q].status = "QUEUED"} = {}))

\* With the runs alone every supervised call-up is resolved by its timer.
GraceTimerResolves ==
  \A q \in Requests :
    /\ stage[q] = "AWAITING_ARRIVAL" /\ deadline[q] <= MaxTime
    /\ rows[q].status \in {"CALLED_UP", "EN_ROUTE"}
    ~> rows[q].status \notin {"CALLED_UP", "EN_ROUTE"}

\* What ForfeitCallUp says: a call-up is failed closed when its grace window
\* passes, and not before.
GraceHonoured ==
  [][\A q \in Requests :
       /\ rows[q].status \in {"CALLED_UP", "EN_ROUTE"}
       /\ rows'[q].status = "FORFEITED"
       => now >= rows[q].grace]_flowVars

\* What arriveQueueRequest says of an arrival whose signal failed: retrying the
\* arrival brings it to the run.
ArrivalReachesRun ==
  \A q \in Requests :
    rows[q].status = "ARRIVED" /\ stage[q] = "AWAITING_ARRIVAL" ~>
      stage[q] = "ARRIVED"
=============================================================================
