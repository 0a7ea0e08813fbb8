-------------------------- MODULE CalibrationProofs --------------------------
(***************************************************************************)
(* Proofs about CalibrationLifecycle for any callers, windows, limits and    *)
(* any number of reloads, about the two gates of PolicyGate for any Atlas,   *)
(* profile and batch, and about the RuntimeShield that they ask.             *)
(***************************************************************************)
EXTENDS CalibrationLifecycle, Integers, PrefixChains, FiniteSetTheorems, SequenceTheorems,
        TLAPS

(* Every drift among the first n events was answered by a reviewer who took  *)
(* the profile out of quarantine.                                            *)
Answered(h, n) ==
    \A i \in 2..n : Assessed(h, i, "drift") => \E p \in (i + 1)..n : Moved(h, p, "pending")

(* What the state after event n says about the first n events.  It is stated *)
(* of every n, because a reload makes an earlier event the last one.         *)
StateEarned(h, n) ==
    /\ h[n].current = "pending" => Answered(h, n)
    /\ h[n].current = "active" => Reviewed(h, n)

IInv ==
    /\ TypeOK
    /\ Len(history) >= 1
    /\ history[1].type = "registered"
    /\ \A n \in 1..Len(history) : StateEarned(history, n)

-----------------------------------------------------------------------------
(* The events before an appended one are the ones that were there. *)
LEMMA AppendKeeps ==
    ASSUME NEW S, NEW h \in Seq(S), NEW e \in S
    PROVE  /\ Len(Append(h, e)) = Len(h) + 1
           /\ \A i \in 1..Len(h) : Append(h, e)[i] = h[i]
           /\ Append(h, e)[Len(h) + 1] = e
  OBVIOUS

(* A claim about the first n events depends on these only. *)
LEMMA EarnedLocal ==
    ASSUME NEW g, NEW h, NEW n \in Nat,
           \A i \in 1..n : g[i] = h[i], n >= 1, StateEarned(h, n)
    PROVE  StateEarned(g, n)
<1>1. \A i \in 2..n : \A x : /\ Moved(g, i, x) <=> Moved(h, i, x)
                             /\ Assessed(g, i, x) <=> Assessed(h, i, x)
  BY DEF Moved, Assessed
<1>2. Answered(h, n) => Answered(g, n)
  BY <1>1 DEF Answered
<1>3. Reviewed(h, n) => Reviewed(g, n)
  BY <1>1 DEF Reviewed
<1> QED
  BY <1>2, <1>3 DEF StateEarned

(* An assessment: drift needs no answer yet, too little data withdraws an    *)
(* activation whose review stands, a stable window changes nothing.          *)
LEMMA AssessEarns ==
    ASSUME NEW h \in Seq(Events), Len(h) >= 1, StateEarned(h, Len(h)),
           State(h) \in States, NEW st \in Statuses, NEW g, NEW N \in Nat, N = Len(h) + 1,
           \A i \in 1..Len(h) : g[i] = h[i],
           Assessed(g, N, st), g[N].current = StateAfterAssessment(State(h), st)
    PROVE  StateEarned(g, N)
<1> DEFINE n == Len(h)
<1>0. n \in Nat /\ N = n + 1 /\ n >= 1
  OBVIOUS
<1>1. StateEarned(g, n)
  <2> HIDE DEF n
  <2> QED
    BY <1>0, EarnedLocal DEF n
<1>2. g[n].current = State(h)
  BY DEF State
<1> HIDE DEF n
<1>3. CASE st = "drift"
  <2>1. g[N].current = "quarantined"
    BY <1>3 DEF StateAfterAssessment
  <2> QED
    BY <2>1 DEF StateEarned
<1>4. CASE st # "drift" /\ State(h) = "active"
  <2>1. PICK k \in 2..n :
           /\ Moved(g, k, "active")
           /\ \E s \in 2..(k - 1) : Assessed(g, s, "stable")
           /\ \A i \in (k + 1)..n : Assessed(g, i, "stable")
           /\ \A i \in 2..n : Assessed(g, i, "drift") =>
                 \E p, s \in (i + 1)..(k - 1) : Moved(g, p, "pending") /\ Assessed(g, s, "stable")
    BY <1>1, <1>2, <1>4 DEF StateEarned, Reviewed
  <2>2. ~Assessed(g, N, "drift")
    BY <1>4 DEF Assessed
  <2>3. k \in 2..N /\ n \in Nat /\ N = n + 1
    BY <1>0
  <2>4. \A i \in 2..N : Assessed(g, i, "drift") =>
           \E p, s \in (i + 1)..(k - 1) : Moved(g, p, "pending") /\ Assessed(g, s, "stable")
    BY <2>1, <2>2, <2>3
  <2>5. CASE st = "stable"
    <3>1. \A i \in (k + 1)..N : Assessed(g, i, "stable")
      BY <2>1, <2>3, <2>5
    <3>2. Reviewed(g, N)
      BY <2>1, <2>3, <2>4, <3>1 DEF Reviewed
    <3>3. g[N].current = "active"
      BY <1>4, <2>5 DEF StateAfterAssessment
    <3> QED
      BY <3>2, <3>3 DEF StateEarned
  <2>6. CASE st = "insufficient"
    <3>1. Answered(g, N)
      BY <2>3, <2>4 DEF Answered
    <3>2. g[N].current = "pending"
      BY <1>4, <2>6 DEF StateAfterAssessment
    <3> QED
      BY <3>1, <3>2 DEF StateEarned
  <2> QED
    BY <1>4, <2>5, <2>6 DEF Statuses
<1>5. CASE st # "drift" /\ State(h) # "active"
  <2>1. g[N].current = State(h)
    BY <1>5 DEF StateAfterAssessment
  <2>2. ~Assessed(g, N, "drift")
    BY <1>5 DEF Assessed
  <2>3. ASSUME State(h) = "pending" PROVE Answered(g, N)
    <3>1. Answered(g, n)
      BY <1>1, <1>2, <2>3 DEF StateEarned
    <3> QED
      BY <1>0, <2>2, <3>1 DEF Answered
  <2> QED
    BY <1>5, <2>1, <2>3 DEF StateEarned
<1> QED
  BY <1>3, <1>4, <1>5

(* A transition: to pending it is the answer to every drift before it; to    *)
(* active it comes from pending, where every drift has its answer, and after *)
(* a stable window that no later assessment follows.                         *)
LEMMA MoveEarns ==
    ASSUME NEW h \in Seq(Events), Len(h) >= 1, StateEarned(h, Len(h)),
           h[1].type = "registered", State(h) \in States,
           NEW target \in States, TransitionAllowed(h, target),
           NEW g, NEW N \in Nat, N = Len(h) + 1,
           \A i \in 1..Len(h) : g[i] = h[i], Moved(g, N, target)
    PROVE  StateEarned(g, N)
<1> DEFINE n == Len(h)
<1>0. n \in Nat /\ N = n + 1 /\ n >= 1
  OBVIOUS
<1>1. StateEarned(g, n)
  <2> HIDE DEF n
  <2> QED
    BY <1>0, EarnedLocal DEF n
<1>2. g[n].current = State(h)
  BY DEF State
<1>3. g[N].current = target /\ g[N].type = "transition"
  BY DEF Moved
<1>4. CASE target = "pending"
  <2>1. Answered(g, N)
    <3> SUFFICES ASSUME NEW i \in 2..N, Assessed(g, i, "drift")
                 PROVE  \E p \in (i + 1)..N : Moved(g, p, "pending")
      BY DEF Answered
    <3>1. i # N
      BY <1>3 DEF Assessed
    <3>2. N \in (i + 1)..N
      BY <1>0, <3>1
    <3> QED
      BY <1>4, <3>2
  <2> QED
    BY <1>3, <1>4, <2>1 DEF StateEarned
<1>5. CASE target = "active"
  <2>1. State(h) = "pending" /\ LatestIs(h, "stable")
    BY <1>5 DEF TransitionAllowed, States
  <2>2. PICK s \in 1..n : /\ Assessed(h, s, "stable")
                          /\ \A j \in (s + 1)..n : h[j].type # "assessed"
    BY <2>1 DEF LatestIs
  <2>3. s \in 2..n /\ Assessed(g, s, "stable")
    BY <1>0, <2>2 DEF Assessed
  <2>4. Answered(g, n)
    BY <1>1, <1>2, <2>1 DEF StateEarned
  <2>5. ASSUME NEW i \in 2..N, Assessed(g, i, "drift")
        PROVE  \E p, t \in (i + 1)..(N - 1) : Moved(g, p, "pending") /\ Assessed(g, t, "stable")
    <3>1. i \in 2..n
      BY <1>0, <1>3, <2>5 DEF Assessed
    <3>2. h[i].type = "assessed" /\ h[i].status = "drift"
      BY <3>1, <2>5, <1>0 DEF Assessed
    <3>3. i # s
      BY <2>2, <3>2 DEF Assessed
    <3>4. i < s
      BY <1>0, <2>2, <3>1, <3>2, <3>3
    <3>5. PICK p \in (i + 1)..n : Moved(g, p, "pending")
      BY <2>4, <2>5, <3>1 DEF Answered
    <3>6. s \in (i + 1)..(N - 1) /\ p \in (i + 1)..(N - 1)
      BY <1>0, <2>3, <3>1, <3>4, <3>5
    <3> QED
      BY <2>3, <3>5, <3>6
  <2>6. Reviewed(g, N)
    <3>1. N \in 2..N /\ s \in 2..(N - 1)
      BY <1>0, <2>3
    <3>2. (N + 1)..N = {}
      BY <1>0
    <3> QED
      BY <1>5, <2>3, <2>5, <3>1, <3>2 DEF Reviewed
  <2> QED
    BY <1>3, <1>5, <2>6 DEF StateEarned
<1>6. CASE target \notin {"pending", "active"}
  BY <1>3, <1>6 DEF StateEarned
<1> QED
  BY <1>4, <1>5, <1>6

-----------------------------------------------------------------------------
LEMMA EventsTyped ==
    /\ Registered \in Events
    /\ \A e \in Events : e.current \in States
    /\ \A w \in Windows, s \in Statuses, t \in States :
          [type |-> "assessed", status |-> s, window |-> w, current |-> t] \in Events
    /\ \A t \in States : [type |-> "transition", current |-> t] \in Events
  BY DEF Registered, Events, States

LEMMA AfterAssessmentTyped ==
    ASSUME NEW state \in States, NEW s \in Statuses
    PROVE  StateAfterAssessment(state, s) \in States
  BY DEF StateAfterAssessment, States

(* A history that grows by an event that earns its state keeps the invariant. *)
LEMMA GrowKeeps ==
    ASSUME IInv, NEW e \in Events, NEW n \in EventLimits, Len(history) < n,
           history' = Append(history, e), UNCHANGED <<saved, seen, reloads>>,
           StateEarned(history', Len(history) + 1)
    PROVE  IInv'
<1>1. history \in Seq(Events) /\ Len(history) \in Nat /\ saved \in 0..Len(history)
  BY DEF IInv, TypeOK
<1>2. /\ Len(history') = Len(history) + 1
      /\ \A i \in 1..Len(history) : history'[i] = history[i]
      /\ history' \in Seq(Events)
  BY <1>1, AppendKeeps
<1>3. TypeOK'
  <2>1. \E m \in EventLimits : Len(history') <= m
    BY <1>1, <1>2, LimitsAssumption
  <2>2. saved' \in 0..Len(history')
    BY <1>1, <1>2
  <2> QED
    BY <1>2, <2>1, <2>2 DEF IInv, TypeOK
<1>4. Len(history') >= 1 /\ history'[1].type = "registered"
  BY <1>1, <1>2 DEF IInv
<1>5. ASSUME NEW k \in 1..Len(history') PROVE StateEarned(history', k)
  <2>1. CASE k = Len(history) + 1
    BY <2>1
  <2>2. CASE k # Len(history) + 1
    <3>1. k \in 1..Len(history) /\ k \in Nat /\ k >= 1
      BY <1>1, <1>2, <2>2
    <3>2. StateEarned(history, k) /\ \A i \in 1..k : history'[i] = history[i]
      BY <1>1, <1>2, <3>1 DEF IInv
    <3> HIDE DEF IInv
    <3> QED
      BY <3>1, <3>2, EarnedLocal
  <2> QED
    BY <2>1, <2>2
<1> QED
  BY <1>3, <1>4, <1>5 DEF IInv

LEMMA AssessStep ==
    ASSUME IInv, NEW c \in Callers, NEW w \in Windows, NEW s \in Statuses,
           NEW n \in EventLimits, Assess(c, w, s, n)
    PROVE  IInv'
<1> DEFINE e == [type |-> "assessed", status |-> s, window |-> w,
                 current |-> StateAfterAssessment(State(history), s)]
<1>1. /\ history \in Seq(Events) /\ Len(history) \in Nat /\ Len(history) >= 1
      /\ StateEarned(history, Len(history))
  BY DEF IInv, TypeOK
<1>2. State(history) \in States
  BY <1>1, EventsTyped DEF State
<1>3. e \in Events
  BY <1>2, EventsTyped, AfterAssessmentTyped
<1>4. e.type = "assessed" /\ e.status = s /\ e.current = StateAfterAssessment(State(history), s)
  OBVIOUS
<1>5. /\ Len(history) < n
      /\ history' = Append(history, e)
      /\ UNCHANGED <<saved, seen, reloads>>
  BY DEF Assess
<1> HIDE DEF e
<1>6. /\ \A i \in 1..Len(history) : history'[i] = history[i]
      /\ history'[Len(history) + 1] = e
  BY <1>1, <1>3, <1>5, AppendKeeps
<1>7. Assessed(history', Len(history) + 1, s)
  BY <1>4, <1>6 DEF Assessed
<1>8. StateEarned(history', Len(history) + 1)
  <2>1. \A N \in Nat : N = Len(history) + 1 => StateEarned(history', N)
    BY <1>1, <1>2, <1>4, <1>6, <1>7, AssessEarns
  <2> QED
    BY <1>1, <2>1
<1> QED
  BY <1>3, <1>5, <1>8, GrowKeeps

LEMMA TransitionStep ==
    ASSUME IInv, NEW c \in Callers, NEW target \in States,
           NEW n \in EventLimits, Transition(c, target, n)
    PROVE  IInv'
<1> DEFINE e == [type |-> "transition", current |-> target]
<1>1. /\ history \in Seq(Events) /\ Len(history) \in Nat /\ Len(history) >= 1
      /\ StateEarned(history, Len(history)) /\ history[1].type = "registered"
  BY DEF IInv, TypeOK
<1>2. State(history) \in States
  BY <1>1, EventsTyped DEF State
<1>3. e \in Events /\ e.type = "transition" /\ e.current = target
  BY EventsTyped
<1>5. /\ Len(history) < n
      /\ history' = Append(history, e)
      /\ UNCHANGED <<saved, seen, reloads>>
      /\ TransitionAllowed(history, target)
  BY DEF Transition
<1> HIDE DEF e
<1>6. /\ \A i \in 1..Len(history) : history'[i] = history[i]
      /\ history'[Len(history) + 1] = e
  BY <1>1, <1>3, <1>5, AppendKeeps
<1>7. Moved(history', Len(history) + 1, target)
  BY <1>3, <1>6 DEF Moved
<1>8. StateEarned(history', Len(history) + 1)
  <2>1. \A N \in Nat : N = Len(history) + 1 => StateEarned(history', N)
    BY <1>1, <1>2, <1>5, <1>6, <1>7, MoveEarns
  <2> QED
    BY <1>1, <2>1
<1> QED
  BY <1>3, <1>5, <1>8, GrowKeeps

(* The saved prefix earned its state when it was the whole history. *)
LEMMA ReloadStep ==
    ASSUME IInv, Reload
    PROVE  IInv'
<1>1. /\ history \in Seq(Events) /\ Len(history) \in Nat /\ saved \in 1..Len(history)
      /\ history' = SubSeq(history, 1, saved) /\ saved' = saved /\ seen' = seen
      /\ reloads' \in 0..MaxReloads
  BY LimitsAssumption DEF IInv, TypeOK, Reload
<1>2. /\ history' \in Seq(Events) /\ Len(history') = saved
      /\ \A i \in 1..saved : history'[i] = history[i]
  BY <1>1
<1>3. TypeOK'
  <2>1. \E m \in EventLimits : Len(history') <= m
    BY <1>1, <1>2, LimitsAssumption DEF IInv, TypeOK
  <2> QED
    BY <1>1, <1>2, <2>1 DEF IInv, TypeOK
<1>4. Len(history') >= 1 /\ history'[1].type = "registered"
  BY <1>1, <1>2 DEF IInv
<1>5. ASSUME NEW k \in 1..Len(history') PROVE StateEarned(history', k)
  <2>1. k \in 1..Len(history) /\ k \in Nat /\ k >= 1 /\ \A i \in 1..k : history'[i] = history[i]
    BY <1>1, <1>2
  <2>2. StateEarned(history, k)
    BY <2>1 DEF IInv
  <2> QED
    BY <2>1, <2>2, EarnedLocal
<1> QED
  BY <1>3, <1>4, <1>5 DEF IInv

LEMMA Initially == Init => IInv
<1> SUFFICES ASSUME Init PROVE IInv
  OBVIOUS
<1>1. /\ history = <<Registered>> /\ history \in Seq(Events) /\ Len(history) = 1
      /\ history[1] = Registered
  BY EventsTyped DEF Init
<1>2. TypeOK
  <2>1. \E n \in EventLimits : Len(history) <= n
    <3>1. PICK n \in EventLimits : n \in Nat \ {0}
      BY LimitsAssumption
    <3>2. Len(history) <= n
      BY <1>1, <3>1
    <3> QED
      BY <3>1, <3>2
  <2>2. <<>> \in Seq(Events)
    OBVIOUS
  <2>3. seen \in [Callers -> Seq(Events)]
    BY <2>2 DEF Init
  <2> QED
    BY <1>1, <2>1, <2>3, LimitsAssumption DEF Init, TypeOK
<1>3. StateEarned(history, 1)
  BY <1>1 DEF StateEarned, Registered, Answered
<1> QED
  BY <1>1, <1>2, <1>3 DEF IInv, Registered

LEMMA Inductive == IInv /\ [Next]_vars => IInv'
<1> SUFFICES ASSUME IInv, [Next]_vars PROVE IInv'
  OBVIOUS
<1>1. CASE Save
  BY <1>1 DEF Save, IInv, TypeOK
<1>2. CASE Reload
  BY <1>2, ReloadStep
<1>3. ASSUME NEW c \in Callers, ReadHead(c) PROVE IInv'
  BY <1>3 DEF ReadHead, IInv, TypeOK
<1>4. ASSUME NEW c \in Callers, NEW n \in EventLimits, NEW w \in Windows, NEW s \in Statuses,
             Assess(c, w, s, n)
      PROVE  IInv'
  BY <1>4, AssessStep
<1>5. ASSUME NEW c \in Callers, NEW n \in EventLimits, NEW target \in States,
             Transition(c, target, n)
      PROVE  IInv'
  BY <1>5, TransitionStep
<1>6. CASE UNCHANGED vars
  BY <1>6 DEF vars, IInv, TypeOK
<1> QED
  BY <1>1, <1>2, <1>3, <1>4, <1>5, <1>6 DEF Next

-----------------------------------------------------------------------------
(* The invariant holds for any callers, windows, limits and reloads. *)
THEOREM Invariance == Spec => []IInv
<1> QED
  BY Initially, Inductive, PTL DEF Spec

(* The lifecycle's state is typed, and no log outgrows every limit that was  *)
(* asked for.                                                                *)
THEOREM TypeCorrect == Spec => []TypeOK
<1>1. IInv => TypeOK
  BY DEF IInv
<1> QED
  BY <1>1, Invariance, PTL

(* check_proposals_guarded() lets nobody through on a history in which a     *)
(* detected drift has no reviewer's answer and stable window after it.       *)
THEOREM GateNeedsReview == Spec => []GateOpensAfterReview
<1>1. IInv => GateOpensAfterReview
  <2> SUFFICES ASSUME IInv, NEW c \in Callers, GateOpen(c)
               PROVE  Reviewed(history, Len(history))
    BY DEF GateOpensAfterReview
  <2>1. Len(history) \in 1..Len(history)
    BY DEF IInv, TypeOK
  <2>2. history[Len(history)].current = "active"
    BY DEF GateOpen, DeploymentReady, State
  <2> QED
    BY <2>1, <2>2 DEF IInv, StateEarned
<1> QED
  BY <1>1, Invariance, PTL

(* assess() and transition() extend exactly the history their caller read.   *)
THEOREM DecisionsInformed == Spec => DecisionsAreInformed
<1> DEFINE Grows == Len(history') > Len(history)
           Informed == \E c \in Callers : seen[c] = SubSeq(history', 1, Len(history') - 1)
<1>1. IInv /\ [Next]_vars => [Grows => Informed]_vars
  <2> SUFFICES ASSUME IInv, Next, Grows PROVE Informed
    OBVIOUS
  <2>0. history \in Seq(Events) /\ Len(history) \in Nat /\ saved \in 0..Len(history)
    BY DEF IInv, TypeOK
  <2>1. ASSUME NEW c \in Callers, NEW e, history' = Append(history, e), seen[c] = history
        PROVE  Informed
    <3>1. Len(history') - 1 = Len(history) /\ SubSeq(history', 1, Len(history)) = history
      BY <2>0, <2>1
    <3> QED
      BY <2>1, <3>1
  <2>2. CASE Save
    BY <2>0, <2>2 DEF Save
  <2>3. CASE Reload
    BY <2>0, <2>3 DEF Reload
  <2>4. ASSUME NEW c \in Callers, ReadHead(c) PROVE Informed
    BY <2>0, <2>4 DEF ReadHead
  <2> HIDE DEF Informed
  <2>5. ASSUME NEW c \in Callers, NEW n \in EventLimits, NEW w \in Windows, NEW s \in Statuses,
               Assess(c, w, s, n)
        PROVE  Informed
    BY <2>1, <2>5 DEF Assess, HeadIsExpected
  <2>6. ASSUME NEW c \in Callers, NEW n \in EventLimits, NEW target \in States,
               Transition(c, target, n)
        PROVE  Informed
    BY <2>1, <2>6 DEF Transition, HeadIsExpected
  <2> QED
    BY <2>2, <2>3, <2>4, <2>5, <2>6 DEF Next
<1> QED
  BY <1>1, Invariance, PTL DEF Spec, DecisionsAreInformed

(* No assess() or transition() leaves the retired state. *)
THEOREM RetirementFinal == Spec => RetiredIsFinal
<1> DEFINE Final == State(history) = "retired" => history' = history \/ reloads' > reloads
<1>1. IInv /\ [Next]_vars => [Final]_vars
  <2> SUFFICES ASSUME IInv, Next, State(history) = "retired"
               PROVE  history' = history \/ reloads' > reloads
    OBVIOUS
  <2>1. reloads \in Nat
    BY LimitsAssumption DEF IInv, TypeOK
  <2> QED
    BY <2>1 DEF Next, Save, Reload, ReadHead, Assess, Transition, TransitionAllowed
<1> QED
  BY <1>1, Invariance, PTL DEF Spec, RetiredIsFinal

-----------------------------------------------------------------------------
(* The gate and the calibrated gate (src/policy.cpp, src/calibration.cpp),   *)
(* beside the shield that they ask, for any number of proposals and bins.    *)
CONSTANTS Root, Atlases, Tolerance, Starts, Requests, WaypointLimit, TotalLimit,
          TrackingTolerance, Times, MaxDecisions, Proposals, MinimumConfidence,
          MaximumUncertainty, Modes, MaxBatch, MaxRecords, Scale, ProfileInputs,
          LowerBound(_, _), MinimumTotalSamples, MinimumBinSamples,
          MaximumExpectedError, MaximumBinError
VARIABLES decisions, monitor, observed, report, database

Gate == INSTANCE PolicyGate WITH seen <- observed

GateStep ==
    /\ Gate!Next \/ UNCHANGED Gate!vars
    /\ Gate!GateNext(Starts) \/ Gate!CalibratedNext(Starts) \/ UNCHANGED Gate!gateVars
GateSpec == Gate!Init /\ Gate!GateInit /\ [][GateStep]_<<Gate!vars, Gate!gateVars>>

(* Confidences, bounds and counts are numbers, and a mode is one of three.   *)
ProposalType == [request : {p.request : p \in Proposals}, confidence : Int,
                 uncertainty : Int, late : BOOLEAN]
BinType == [lower : Int, upper : Int, mean : Int, samples : Nat, successes : Nat]
ProfilesFit == Scale \in Nat /\ ProfileInputs \subseteq Seq(BinType)
PoliciesFit ==
    /\ ProfilesFit
    /\ Proposals \subseteq ProposalType /\ \A p \in Proposals : p.confidence \in 0..Scale
    /\ Modes \subseteq {"InputOrder", "HighestConfidence", "LowestUncertainty"}
    /\ MinimumConfidence \in Int /\ MaximumUncertainty \in Int /\ MaxBatch \in Nat
    /\ \A m, n \in Nat : LowerBound(m, n) \in Int

LEMMA BinFields ==
    \A b \in BinType : /\ b.lower \in Int /\ b.upper \in Int
                       /\ b.samples \in Nat /\ b.successes \in Nat
BY DEF BinType

LEMMA GateCounts == \A S : Gate!Cardinality(S) = Cardinality(S)
BY DEF Gate!Cardinality, Cardinality

(* The bins of a profile rise from 0 to Scale. *)
LEMMA BinsRise ==
    ASSUME ProfilesFit, NEW bins \in Gate!Profiles
    PROVE  /\ DOMAIN bins = 1..Len(bins) /\ Len(bins) \in Nat \ {0}
           /\ \A k \in 1..Len(bins) : bins[k] \in BinType
           /\ bins[1].lower = 0 /\ bins[Len(bins)].upper = Scale
           /\ \A k \in 2..Len(bins) : bins[k].lower = bins[k - 1].upper
           /\ \A j, k \in 1..Len(bins) : j < k => bins[j].upper <= bins[k].lower
<1>1. bins \in Seq(BinType) /\ Gate!ProfileValid(bins)
  BY DEF Gate!Profiles, ProfilesFit
<1>2. /\ Len(bins) \in Nat \ {0} /\ DOMAIN bins = 1..Len(bins)
      /\ \A k \in 1..Len(bins) : bins[k] \in BinType
  BY <1>1 DEF Gate!ProfileValid
<1>3. /\ bins[1].lower = 0 /\ bins[Len(bins)].upper = Scale
      /\ \A k \in 2..Len(bins) : bins[k].lower = bins[k - 1].upper
      /\ \A k \in 1..Len(bins) : bins[k].lower < bins[k].upper
  <2>1. /\ bins[1].lower = 0 /\ bins[Len(bins)].upper = Scale
        /\ \A k \in 1..Len(bins) : /\ k > 1 => bins[k].lower = bins[k - 1].upper
                                   /\ bins[k].lower < bins[k].upper
    BY <1>1, <1>2, Zenon DEF Gate!ProfileValid
  <2> QED
    BY <1>2, <2>1
<1>4. ASSUME NEW j \in 1..Len(bins)
      PROVE  \A k \in 1..Len(bins) : j < k => bins[j].upper <= bins[k].lower
  <2> DEFINE T == {n \in Nat : j + 1 + n \in 1..Len(bins) => bins[j].upper <= bins[j + 1 + n].lower}
  <2>1. 0 \in T
    BY <1>2, <1>3, BinFields
  <2>2. \A n \in Nat : n \in T => n + 1 \in T
    <3> SUFFICES ASSUME NEW n \in Nat, n \in T, j + 1 + (n + 1) \in 1..Len(bins)
                 PROVE  bins[j].upper <= bins[j + 1 + (n + 1)].lower
      OBVIOUS
    <3> DEFINE k == j + 1 + n
    <3>1. k \in 1..Len(bins) /\ k + 1 \in 2..Len(bins) /\ j + 1 + (n + 1) = k + 1
      BY <1>2
    <3>2. bins[j].upper <= bins[k].lower
      BY <3>1
    <3>3. bins[k].lower < bins[k].upper /\ bins[k + 1].lower = bins[(k + 1) - 1].upper /\ (k + 1) - 1 = k
      BY <3>1, <1>3
    <3>4. bins[j] \in BinType /\ bins[k] \in BinType /\ bins[k + 1] \in BinType
      BY <3>1, <1>2
    <3> HIDE DEF k
    <3> QED
      BY <3>1, <3>2, <3>3, <3>4, BinFields
  <2>3. Nat \subseteq T
    <3> HIDE DEF T
    <3> QED
      BY <2>1, <2>2, EveryNumber
  <2> SUFFICES ASSUME NEW k \in 1..Len(bins), j < k PROVE bins[j].upper <= bins[k].lower
    OBVIOUS
  <2>4. k - j - 1 \in Nat /\ j + 1 + (k - j - 1) = k
    BY <1>2
  <2> QED
    BY <2>3, <2>4
<1> QED
  BY <1>1, <1>2, <1>3, <1>4

(* lookup() finds a bin for every confidence, and there is no other. *)
LEMMA OneBin ==
    ASSUME ProfilesFit, NEW bins \in Gate!Profiles, NEW c \in 0..Scale
    PROVE  \E m \in 1..Len(bins) :
              /\ Gate!InBin(bins, m, c)
              /\ \A k \in 1..Len(bins) : Gate!InBin(bins, k, c) => k = m
<1> DEFINE n == Len(bins)
           In(k) == /\ bins[k].lower <= c
                    /\ c < bins[k].upper \/ (k = n /\ c = bins[k].upper)
           T == {k \in 1..n : c < bins[k].upper \/ k = n}
<1>1. /\ n \in Nat \ {0} /\ \A k \in 1..n : bins[k] \in BinType
      /\ bins[1].lower = 0 /\ bins[n].upper = Scale
      /\ \A k \in 2..n : bins[k].lower = bins[k - 1].upper
      /\ \A j, k \in 1..n : j < k => bins[j].upper <= bins[k].lower
  BY BinsRise
<1>2. c \in Int /\ 0 <= c /\ c <= Scale /\ Scale \in Int
  BY DEF ProfilesFit
<1>3. \A k : Gate!InBin(bins, k, c) <=> In(k)
  BY DEF Gate!InBin
<1> HIDE DEF n
<1>4. \A k \in 1..n : bins[k].lower \in Int /\ bins[k].upper \in Int
  BY <1>1, BinFields
<1>5. T \subseteq Nat /\ n \in T
  BY <1>1
<1>6. PICK m \in T : \A j \in T : m <= j
  <2> HIDE DEF T
  <2> QED
    BY <1>5, LeastExists
<1>7. m \in 1..n /\ (c < bins[m].upper \/ m = n)
  BY <1>6
<1>8. \A j \in 1..n : j < m => ~(c < bins[j].upper)
  BY <1>1, <1>6, <1>7
<1> HIDE DEF T
<1>9. bins[m].lower <= c
  <2>1. CASE m = 1
    BY <2>1, <1>1, <1>2
  <2>2. CASE m # 1
    <3>1. m \in 2..n /\ m - 1 \in 1..n /\ m - 1 < m
      BY <2>2, <1>7, <1>1
    <3>2. bins[m - 1].upper <= c
      BY <3>1, <1>8, <1>2, <1>4
    <3> QED
      BY <3>1, <3>2, <1>1
  <2> QED
    BY <2>1, <2>2
<1>10. In(m)
  BY <1>1, <1>2, <1>4, <1>7, <1>9
<1>11. ASSUME NEW k \in 1..n, In(k), NEW j \in 1..n, In(j), j < k
       PROVE  FALSE
  <2>1. bins[j].upper <= bins[k].lower /\ bins[k].lower <= c
    BY <1>1, <1>11
  <2>2. c < bins[j].upper
    BY <1>1, <1>11
  <2> QED
    BY <2>1, <2>2, <1>2, <1>4
<1> HIDE DEF In
<1>12. \A k \in 1..n : In(k) => k = m
  <2> SUFFICES ASSUME NEW k \in 1..n, In(k), k # m PROVE FALSE
    OBVIOUS
  <2>1. k < m \/ m < k
    BY <1>1, <1>7
  <2> QED
    BY <2>1, <1>7, <1>10, <1>11
<1>13. /\ m \in 1..Len(bins) /\ Gate!InBin(bins, m, c)
       /\ \A k \in 1..Len(bins) : Gate!InBin(bins, k, c) => k = m
  BY <1>3, <1>7, <1>10, <1>12 DEF n
<1> QED
  BY <1>13

(* PolicyCalibrationProfile::lookup(): see ProfilesCover of PolicyGate.      *)
THEOREM ProfilesAlwaysCover == ProfilesFit => Gate!ProfilesCover
<1> SUFFICES ASSUME ProfilesFit, NEW bins \in Gate!Profiles, NEW c \in 0..Scale
             PROVE  Gate!Cardinality({k \in DOMAIN bins : Gate!InBin(bins, k, c)}) = 1
  BY DEF Gate!ProfilesCover
<1>1. PICK m \in 1..Len(bins) : /\ Gate!InBin(bins, m, c)
                                /\ \A k \in 1..Len(bins) : Gate!InBin(bins, k, c) => k = m
  BY OneBin
<1>2. DOMAIN bins = 1..Len(bins)
  BY BinsRise
<1>3. {k \in DOMAIN bins : Gate!InBin(bins, k, c)} = {m}
  BY <1>1, <1>2
<1> QED
  BY <1>3, GateCounts, FS_Singleton

-----------------------------------------------------------------------------
(* What the gate says of one proposal, and the ranks that the properties     *)
(* compare: four numbers, of which the last is the place in the batch.       *)
Outcomes == {"accept", "repair", "reject", "error"}
DecisionType ==
    [proposal : ProposalType, eligible : BOOLEAN,
     reason : {"ConfidenceBelowMinimum", "UncertaintyExceeded", "TooLate", "Shield"},
     shield : Outcomes \cup {Gate!None}, evidence : {"CertifiedConnectivity", "Unknown"}]

Numbers4 == [1..4 -> Int]
Sooner(a, b) ==
    \/ a[1] < b[1]
    \/ a[1] = b[1] /\ a[2] < b[2]
    \/ a[1] = b[1] /\ a[2] = b[2] /\ a[3] < b[3]
    \/ a[1] = b[1] /\ a[2] = b[2] /\ a[3] = b[3] /\ a[4] < b[4]

LEMMA FourNumbers ==
    ASSUME NEW a \in Numbers4
    PROVE  DOMAIN a = 1..4 /\ a[1] \in Int /\ a[2] \in Int /\ a[3] \in Int /\ a[4] \in Int
BY DEF Numbers4

LEMMA RanksCompare ==
    ASSUME NEW a \in Numbers4, NEW b \in Numbers4
    PROVE  Gate!Before(a, b) <=> Sooner(a, b)
<1>1. DOMAIN a = 1..4
  BY FourNumbers
<1>2. \A n : n \in 1..4 <=> n = 1 \/ n = 2 \/ n = 3 \/ n = 4
  OBVIOUS
<1>3. /\ \A i : i \in 1..(1 - 1) <=> FALSE
      /\ \A i : i \in 1..(2 - 1) <=> i = 1
      /\ \A i : i \in 1..(3 - 1) <=> i = 1 \/ i = 2
      /\ \A i : i \in 1..(4 - 1) <=> i = 1 \/ i = 2 \/ i = 3
  OBVIOUS
<1>4. Gate!Before(a, b) <=>
        \E n \in DOMAIN a : a[n] < b[n] /\ \A i \in 1..(n - 1) : a[i] = b[i]
  BY DEF Gate!Before
<1>5. ASSUME Gate!Before(a, b) PROVE Sooner(a, b)
  <2>1. PICK n \in 1..4 : a[n] < b[n] /\ \A i \in 1..(n - 1) : a[i] = b[i]
    BY <1>1, <1>4, <1>5
  <2>2. n = 1 \/ n = 2 \/ n = 3 \/ n = 4
    BY <1>2
  <2> QED
    BY <2>1, <2>2, <1>3 DEF Sooner
<1>6. ASSUME Sooner(a, b) PROVE Gate!Before(a, b)
  <2>1. PICK n \in 1..4 : a[n] < b[n] /\ \A i \in 1..(n - 1) : a[i] = b[i]
    <3>1. CASE a[1] < b[1]
      BY <3>1, <1>2, <1>3
    <3>2. CASE a[1] = b[1] /\ a[2] < b[2]
      BY <3>2, <1>2, <1>3
    <3>3. CASE a[1] = b[1] /\ a[2] = b[2] /\ a[3] < b[3]
      BY <3>3, <1>2, <1>3
    <3>4. CASE a[1] = b[1] /\ a[2] = b[2] /\ a[3] = b[3] /\ a[4] < b[4]
      BY <3>4, <1>2, <1>3
    <3> QED
      BY <1>6, <3>1, <3>2, <3>3, <3>4 DEF Sooner
  <2> QED
    BY <2>1, <1>1, <1>4
<1> QED
  BY <1>5, <1>6

LEMMA SoonerOrders ==
    ASSUME NEW a \in Numbers4, NEW b \in Numbers4, NEW c \in Numbers4
    PROVE  /\ Sooner(a, b) /\ Sooner(b, c) => Sooner(a, c)
           /\ a[4] # b[4] => Sooner(a, b) \/ Sooner(b, a)
<1>1. /\ a[1] \in Int /\ a[2] \in Int /\ a[3] \in Int /\ a[4] \in Int
      /\ b[1] \in Int /\ b[2] \in Int /\ b[3] \in Int /\ b[4] \in Int
      /\ c[1] \in Int /\ c[2] \in Int /\ c[3] \in Int /\ c[4] \in Int
  BY FourNumbers
<1> QED
  BY <1>1 DEF Sooner

LEMMA FourJoined ==
    ASSUME NEW x \in Int, NEW u \in Int, NEW v \in Int, NEW k \in Int
    PROVE  LET r == <<x>> \o <<u, v>> \o <<k>> IN
           r \in Numbers4 /\ r[1] = x /\ r[2] = u /\ r[3] = v /\ r[4] = k
<1> DEFINE s == <<x>> \o <<u, v>>
           last == <<k>>
<1>1. s \in Seq(Int) /\ Len(s) = 3
  OBVIOUS
<1>2. s[1] = x /\ s[2] = u /\ s[3] = v
  OBVIOUS
<1>3. last \in Seq(Int) /\ Len(last) = 1 /\ last[1] = k
  OBVIOUS
<1> HIDE DEF s, last
<1> DEFINE r == s \o last
<1>4. r \in Seq(Int) /\ Len(r) = 4 /\ \A i \in 1..4 : r[i] = IF i <= 3 THEN s[i] ELSE last[i - 3]
  <2>1. /\ r \in Seq(Int) /\ Len(r) = Len(s) + Len(last)
        /\ \A i \in 1..(Len(s) + Len(last)) : r[i] = IF i <= Len(s) THEN s[i] ELSE last[i - Len(s)]
    BY <1>1, <1>3, ConcatProperties, Zenon
  <2> QED
    BY <2>1, <1>1, <1>3
<1> HIDE DEF r
<1>5. \A i \in 1..4 : r[i] = IF i <= 3 THEN s[i] ELSE last[i - 3]
  BY <1>4
<1>6. r \in Numbers4
  BY <1>4, LenProperties DEF Numbers4
<1> HIDE DEF r
<1>7. r[1] = x /\ r[2] = u /\ r[3] = v /\ r[4] = k
  BY <1>2, <1>3, <1>5
<1> QED
  BY <1>6, <1>7 DEF s, last, r

(* The rank in numbers. *)
LEMMA RankIs ==
    ASSUME NEW n \in Nat, NEW decided \in [1..n -> DecisionType], NEW k \in 1..n,
           NEW mode \in {"InputOrder", "HighestConfidence", "LowestUncertainty"}
    PROVE  LET r == Gate!Rank(decided, k, mode)
               p == decided[k].proposal
           IN /\ r \in Numbers4 /\ r[4] = k
              /\ r[1] = IF decided[k].shield = "accept" THEN 0 ELSE 1
              /\ mode = "InputOrder" => r[2] = 0 /\ r[3] = 0
              /\ mode = "HighestConfidence" => r[2] = -p.confidence /\ r[3] = p.uncertainty
              /\ mode = "LowestUncertainty" => r[2] = p.uncertainty /\ r[3] = -p.confidence
<1> DEFINE p == decided[k].proposal
           c == Gate!Criterion(decided[k], mode)
           x == IF decided[k].shield = "accept" THEN 0 ELSE 1
<1>1. p.confidence \in Int /\ p.uncertainty \in Int
  <2>1. decided[k] \in DecisionType
    OBVIOUS
  <2>2. p \in ProposalType
    BY <2>1 DEF DecisionType
  <2> QED
    BY <2>2 DEF ProposalType
<1>2. /\ mode = "InputOrder" => c = <<0, 0>>
      /\ mode = "HighestConfidence" => c = <<-p.confidence, p.uncertainty>>
      /\ mode = "LowestUncertainty" => c = <<p.uncertainty, -p.confidence>>
  BY DEF Gate!Criterion
<1>3. \E u, v \in Int : c = <<u, v>>
  BY <1>1, <1>2
<1>4. PICK u \in Int, v \in Int : c = <<u, v>>
  BY <1>3
<1>5. x \in Int /\ k \in Int
  OBVIOUS
<1> DEFINE r == Gate!Rank(decided, k, mode)
<1>6. r = <<x>> \o <<u, v>> \o <<k>>
  BY <1>4 DEF Gate!Rank
<1>7. /\ mode = "InputOrder" => u = 0 /\ v = 0
      /\ mode = "HighestConfidence" => u = -p.confidence /\ v = p.uncertainty
      /\ mode = "LowestUncertainty" => u = p.uncertainty /\ v = -p.confidence
  <2>1. \A s, t : c = <<s, t>> => u = s /\ v = t
    BY <1>4
  <2> QED
    BY <1>2, <2>1
<1> HIDE DEF c, x, p, r
<1>8. r \in Numbers4 /\ r[1] = x /\ r[2] = u /\ r[3] = v /\ r[4] = k
  BY <1>4, <1>5, <1>6, FourJoined
<1>9. /\ mode = "InputOrder" => r[2] = 0 /\ r[3] = 0
      /\ mode = "HighestConfidence" => r[2] = -p.confidence /\ r[3] = p.uncertainty
      /\ mode = "LowestUncertainty" => r[2] = p.uncertainty /\ r[3] = -p.confidence
  BY <1>7, <1>8
<1> QED
  BY <1>8, <1>9 DEF p, x, r

(* preferred_candidate() is the order of the ranks. *)
LEMMA PreferredRanks ==
    ASSUME NEW n \in Nat, NEW decided \in [1..n -> DecisionType],
           NEW mode \in {"InputOrder", "HighestConfidence", "LowestUncertainty"},
           NEW k \in 1..n, NEW j \in 1..n, j < k,
           Gate!Selectable(decided[j]), Gate!Selectable(decided[k])
    PROVE  Gate!Preferred(decided[k], decided[j], mode) <=>
               Sooner(Gate!Rank(decided, k, mode), Gate!Rank(decided, j, mode))
<1> DEFINE p == decided[k].proposal
           q == decided[j].proposal
           a == Gate!Rank(decided, k, mode)
           b == Gate!Rank(decided, j, mode)
           x == decided[k].shield
           y == decided[j].shield
<1>1. /\ p.confidence \in Int /\ p.uncertainty \in Int
      /\ q.confidence \in Int /\ q.uncertainty \in Int
  <2>1. decided[k] \in DecisionType /\ decided[j] \in DecisionType
    OBVIOUS
  <2>2. p \in ProposalType /\ q \in ProposalType
    BY <2>1 DEF DecisionType
  <2> QED
    BY <2>2 DEF ProposalType
<1>2. x \in {"accept", "repair"} /\ y \in {"accept", "repair"}
  BY DEF Gate!Selectable
<1>3. /\ a \in Numbers4 /\ a[4] = k /\ a[1] = IF x = "accept" THEN 0 ELSE 1
      /\ mode = "InputOrder" => a[2] = 0 /\ a[3] = 0
      /\ mode = "HighestConfidence" => a[2] = -p.confidence /\ a[3] = p.uncertainty
      /\ mode = "LowestUncertainty" => a[2] = p.uncertainty /\ a[3] = -p.confidence
  BY RankIs
<1>4. /\ b \in Numbers4 /\ b[4] = j /\ b[1] = IF y = "accept" THEN 0 ELSE 1
      /\ mode = "InputOrder" => b[2] = 0 /\ b[3] = 0
      /\ mode = "HighestConfidence" => b[2] = -q.confidence /\ b[3] = q.uncertainty
      /\ mode = "LowestUncertainty" => b[2] = q.uncertainty /\ b[3] = -q.confidence
  BY RankIs
<1>5. Gate!Preferred(decided[k], decided[j], mode) <=>
        IF x # y THEN x = "accept"
        ELSE \/ /\ mode = "HighestConfidence"
                /\ \/ p.confidence > q.confidence
                   \/ p.confidence = q.confidence /\ p.uncertainty < q.uncertainty
             \/ /\ mode = "LowestUncertainty"
                /\ \/ p.uncertainty < q.uncertainty
                   \/ p.uncertainty = q.uncertainty /\ p.confidence > q.confidence
  BY DEF Gate!Preferred, Gate!PreferredByMode
<1>6. k \in Int /\ j \in Int
  OBVIOUS
<1> HIDE DEF a, b, p, q, x, y
<1>7. Sooner(a, b) <=>
        IF x # y THEN x = "accept"
        ELSE \/ /\ mode = "HighestConfidence"
                /\ \/ p.confidence > q.confidence
                   \/ p.confidence = q.confidence /\ p.uncertainty < q.uncertainty
             \/ /\ mode = "LowestUncertainty"
                /\ \/ p.uncertainty < q.uncertainty
                   \/ p.uncertainty = q.uncertainty /\ p.confidence > q.confidence
  <2>1. CASE mode = "InputOrder"
    BY <2>1, <1>1, <1>2, <1>3, <1>4, <1>6 DEF Sooner
  <2>2. CASE mode = "HighestConfidence"
    BY <2>2, <1>1, <1>2, <1>3, <1>4, <1>6 DEF Sooner
  <2>3. CASE mode = "LowestUncertainty"
    BY <2>3, <1>1, <1>2, <1>3, <1>4, <1>6 DEF Sooner
  <2> QED
    BY <2>1, <2>2, <2>3
<1> QED
  BY <1>5, <1>7 DEF a, b

(* f lists the places that the scan of select_candidate() holds on its way. *)
Kept(decided, mode, k, before) ==
    IF ~Gate!Selectable(decided[k]) THEN before
    ELSE IF before = 0 \/ Gate!Preferred(decided[k], decided[before], mode) THEN k ELSE before
Scans(f, decided, mode, n) ==
    f = [k \in 0..n |-> IF k = 0 THEN 0 ELSE Kept(decided, mode, k, f[k - 1])]

LEMMA ScansExist ==
    ASSUME NEW decided, NEW mode, NEW m \in Nat
    PROVE  \E f : Scans(f, decided, mode, m)
<1> DEFINE T == {n \in Nat : \E f : Scans(f, decided, mode, n)}
<1>1. 0 \in T
  <2> DEFINE f == [k \in 0..0 |-> 0]
  <2>1. f = [k \in 0..0 |-> IF k = 0 THEN 0 ELSE Kept(decided, mode, k, f[k - 1])]
    OBVIOUS
  <2> QED
    BY <2>1 DEF Scans
<1>2. \A n \in Nat : n \in T => n + 1 \in T
  <2> SUFFICES ASSUME NEW n \in Nat, n \in T PROVE n + 1 \in T
    OBVIOUS
  <2>1. PICK f : Scans(f, decided, mode, n)
    OBVIOUS
  <2> DEFINE g == [k \in 0..(n + 1) |-> IF k = n + 1 THEN Kept(decided, mode, k, f[n]) ELSE f[k]]
  <2>2. \A k \in 0..n : f[k] = IF k = 0 THEN 0 ELSE Kept(decided, mode, k, f[k - 1])
    BY <2>1 DEF Scans
  <2>3. \A k \in 0..(n + 1) : g[k] = IF k = 0 THEN 0 ELSE Kept(decided, mode, k, g[k - 1])
    BY <2>2
  <2>4. g = [k \in 0..(n + 1) |-> g[k]]
    OBVIOUS
  <2> HIDE DEF g
  <2>5. g = [k \in 0..(n + 1) |-> IF k = 0 THEN 0 ELSE Kept(decided, mode, k, g[k - 1])]
    BY <2>3, <2>4
  <2> QED
    BY <2>5 DEF Scans
<1> QED
  BY <1>1, <1>2, EveryNumber

LEMMA SelectedScans ==
    ASSUME NEW n \in Nat, NEW decided \in [1..n -> DecisionType], NEW mode
    PROVE  \E f : Scans(f, decided, mode, n) /\ Gate!Selected(decided, mode) = f[n]
<1> DEFINE best == CHOOSE f : Scans(f, decided, mode, n)
<1>1. Scans(best, decided, mode, n)
  BY ScansExist
<1>2. Len(decided) = n
  OBVIOUS
<1>3. Gate!Selected(decided, mode) = best[n]
  BY <1>2 DEF Gate!Selected, Scans, Kept
<1> QED
  BY <1>1, <1>3

(* Of the first k decisions, b is the best that passes; 0 if none does. *)
Best(decided, mode, k, b) ==
    LET candidates == {j \in 1..k : Gate!Selectable(decided[j])} IN
    IF candidates = {} THEN b = 0
    ELSE /\ b \in candidates
         /\ \A j \in candidates \ {b} :
               Sooner(Gate!Rank(decided, b, mode), Gate!Rank(decided, j, mode))

LEMMA SelectedIsBest ==
    ASSUME NEW n \in Nat, NEW decided \in [1..n -> DecisionType],
           NEW mode \in {"InputOrder", "HighestConfidence", "LowestUncertainty"}
    PROVE  Best(decided, mode, n, Gate!Selected(decided, mode))
<1>1. PICK f : Scans(f, decided, mode, n) /\ Gate!Selected(decided, mode) = f[n]
  BY SelectedScans
<1>2. \A k \in 0..n : f[k] = IF k = 0 THEN 0 ELSE Kept(decided, mode, k, f[k - 1])
  BY <1>1 DEF Scans
<1> DEFINE T == {k \in Nat : k <= n => Best(decided, mode, k, f[k])}
           R(k) == Gate!Rank(decided, k, mode)
           C(k) == {j \in 1..k : Gate!Selectable(decided[j])}
<1>3. 0 \in T
  BY <1>2 DEF Best
<1>4. ASSUME NEW k \in Nat, k \in T, k + 1 <= n
      PROVE  Best(decided, mode, k + 1, f[k + 1])
  <2>1. /\ IF C(k) = {} THEN f[k] = 0
            ELSE f[k] \in C(k) /\ \A j \in C(k) \ {f[k]} : Sooner(R(f[k]), R(j))
    BY <1>4 DEF Best
  <2>2. f[k + 1] = Kept(decided, mode, k + 1, f[k])
    BY <1>2, <1>4
  <2>3. \A j : j \in 1..(k + 1) <=> j \in 1..k \/ j = k + 1
    BY <1>4
  <2>4. \A j \in C(k + 1) : j \in 1..n /\ R(j) \in Numbers4 /\ R(j)[4] = j
    <3>1. \A j \in C(k + 1) : j \in 1..n
      BY <1>4
    <3>2. \A j \in 1..n : R(j) \in Numbers4 /\ R(j)[4] = j
      BY RankIs, Zenon
    <3> QED
      BY <3>1, <3>2, Zenon
  <2>5. SUFFICES IF C(k + 1) = {} THEN f[k + 1] = 0
                 ELSE /\ f[k + 1] \in C(k + 1)
                      /\ \A j \in C(k + 1) \ {f[k + 1]} : Sooner(R(f[k + 1]), R(j))
    BY DEF Best
  <2>6. CASE ~Gate!Selectable(decided[k + 1])
    <3>1. C(k + 1) = C(k)
      BY <2>3, <2>6
    <3>2. f[k + 1] = f[k]
      BY <2>2, <2>6 DEF Kept
    <3> HIDE DEF C, R
    <3> QED
      BY <2>1, <3>1, <3>2
  <2>7. CASE Gate!Selectable(decided[k + 1])
    <3>1. C(k + 1) = C(k) \cup {k + 1} /\ k + 1 \notin C(k)
      BY <2>3, <2>7
    <3>2. CASE C(k) = {}
      <4>1. f[k + 1] = k + 1
        BY <2>1, <2>2, <2>7, <3>2 DEF Kept
      <4> HIDE DEF C, R
      <4> QED
        BY <3>1, <3>2, <4>1
    <3>3. CASE C(k) # {}
      <4>1. f[k] \in C(k) /\ \A j \in C(k) \ {f[k]} : Sooner(R(f[k]), R(j))
        BY <2>1, <3>3
      <4>2. f[k] \in 1..n /\ f[k] < k + 1 /\ f[k] # 0 /\ Gate!Selectable(decided[f[k]])
        BY <4>1, <1>4
      <4>3. k + 1 \in 1..n
        BY <1>4
      <4>4. Gate!Preferred(decided[k + 1], decided[f[k]], mode) <=> Sooner(R(k + 1), R(f[k]))
        BY <4>2, <4>3, <2>7, PreferredRanks
      <4>5. f[k + 1] = IF Sooner(R(k + 1), R(f[k])) THEN k + 1 ELSE f[k]
        BY <2>2, <2>7, <4>2, <4>4 DEF Kept
      <4> HIDE DEF C, R
      <4>6. CASE Sooner(R(k + 1), R(f[k]))
        <5>1. \A j \in C(k) : Sooner(R(k + 1), R(j))
          BY <4>6, <4>1, <3>1, <2>4, SoonerOrders
        <5> QED
          BY <5>1, <4>5, <4>6, <3>1
      <4>7. CASE ~Sooner(R(k + 1), R(f[k]))
        <5>1. R(k + 1) \in Numbers4 /\ R(f[k]) \in Numbers4 /\ R(k + 1)[4] # R(f[k])[4]
          BY <4>1, <4>2, <3>1, <2>4
        <5>2. Sooner(R(f[k]), R(k + 1))
          BY <5>1, <4>7, SoonerOrders
        <5> QED
          BY <5>2, <4>1, <4>5, <4>7, <3>1
      <4> QED
        BY <4>6, <4>7
    <3> QED
      BY <3>2, <3>3
  <2> QED
    BY <2>6, <2>7
<1>5. Nat \subseteq T
  <2>1. \A k \in Nat : k \in T => k + 1 \in T
    BY <1>4
  <2> HIDE DEF T
  <2> QED
    BY <1>3, <2>1, EveryNumber
<1> QED
  BY <1>1, <1>5

-----------------------------------------------------------------------------
(* The shield's verdict on a request is one of four. *)
LEMMA VerdictsKnown ==
    ASSUME NEW atlas, NEW current, NEW request, NEW d \in Gate!Checked(atlas, current, request)
    PROVE  d.outcome \in Outcomes
<1>1. \A reason : Gate!Reject(reason).outcome \in Outcomes
  BY DEF Gate!Reject, Gate!Decision, Outcomes
<1>2. \A reason, trajectory :
        /\ Gate!CertifiedDecision(atlas, "accept", reason, trajectory).outcome \in Outcomes
        /\ Gate!CertifiedDecision(atlas, "repair", reason, trajectory).outcome \in Outcomes
  BY DEF Gate!CertifiedDecision, Gate!Decision, Outcomes
<1>3. \/ \E reason : d = Gate!Reject(reason)
      \/ \E reason, trajectory : d = Gate!CertifiedDecision(atlas, "accept", reason, trajectory)
      \/ \E reason, trajectory : d = Gate!CertifiedDecision(atlas, "repair", reason, trajectory)
  BY Zenon DEF Gate!Checked
<1> QED
  BY <1>1, <1>2, <1>3

(* Decision d is the gate's of proposal p, whose own words are q. *)
DecidedOf(d, p) ==
    /\ d \in DecisionType /\ d.proposal = p
    /\ d.eligible <=> Gate!RejectedByPolicy(p) = ""
    /\ d.eligible <=> d.shield # Gate!None
    /\ Gate!Selectable(d) => d.evidence = "CertifiedConnectivity"
    /\ ~d.eligible => d.evidence = "Unknown"

LEMMA ProposalsDecided ==
    ASSUME NEW atlas \in Atlases, NEW current \in Starts, NEW p \in ProposalType,
           NEW d \in Gate!Decided(atlas, current, p)
    PROVE  DecidedOf(d, p)
<1>1. Gate!RejectedByPolicy(p) \in
        {"", "ConfidenceBelowMinimum", "UncertaintyExceeded", "TooLate"}
  BY DEF Gate!RejectedByPolicy
<1>2. CASE Gate!RejectedByPolicy(p) # ""
  <2>1. d = Gate!GateDecision(p, Gate!RejectedByPolicy(p), Gate!None)
    BY <1>2 DEF Gate!Decided
  <2> QED
    BY <1>1, <1>2, <2>1
       DEF Gate!GateDecision, Gate!None, Gate!Selectable, DecidedOf, DecisionType
<1>3. CASE Gate!RejectedByPolicy(p) = ""
  <2>1. PICK outcome \in Gate!Verdicts[atlas][current][p.request] :
           d = Gate!GateDecision(p, "Shield", outcome)
    BY <1>3 DEF Gate!Decided
  <2>2. p.request \in {q.request : q \in Proposals}
    BY DEF ProposalType
  <2>3. Gate!Verdicts[atlas][current][p.request] =
           {e.outcome : e \in Gate!Checked(atlas, current, p.request)}
    BY <2>2 DEF Gate!Verdicts
  <2>4. outcome \in Outcomes
    BY <2>1, <2>3, VerdictsKnown
  <2> QED
    BY <1>3, <2>1, <2>4
       DEF Gate!GateDecision, Gate!None, Gate!Selectable, DecidedOf, DecisionType, Outcomes
<1> QED
  BY <1>2, <1>3

(* What the gate goes by claims no more than the proposal does. *)
Modest(p, q) ==
    /\ p \in ProposalType /\ q \in ProposalType
    /\ p.confidence <= q.confidence /\ p.uncertainty = q.uncertainty /\ p.late = q.late

LEMMA ModestIsEligible ==
    ASSUME PoliciesFit, NEW p, NEW q, Modest(p, q), Gate!RejectedByPolicy(p) = ""
    PROVE  Gate!RejectedByPolicy(q) = ""
<1>1. /\ p.confidence \in Int /\ q.confidence \in Int /\ MinimumConfidence \in Int
      /\ p.uncertainty \in Int /\ MaximumUncertainty \in Int
      /\ p.confidence <= q.confidence /\ p.uncertainty = q.uncertainty /\ p.late = q.late
  BY DEF Modest, ProposalType, PoliciesFit
<1>2. /\ ~(p.confidence < MinimumConfidence) /\ ~(p.uncertainty > MaximumUncertainty) /\ ~p.late
  BY <1>1 DEF Gate!RejectedByPolicy
<1> QED
  BY <1>1, <1>2 DEF Gate!RejectedByPolicy

LEMMA EffectiveIsModest ==
    ASSUME PoliciesFit, NEW bins \in Gate!Profiles, NEW p \in Proposals
    PROVE  Modest(Gate!Effective(bins, p), p)
<1>1. p \in ProposalType /\ p.confidence \in 0..Scale /\ ProfilesFit
  BY DEF PoliciesFit
<1> DEFINE c == p.confidence
           k == Gate!Lookup(bins, c)
           bin == bins[k]
           low == LowerBound(bin.successes, bin.samples)
<1>2. k \in DOMAIN bins
  <2>1. PICK m \in 1..Len(bins) : /\ Gate!InBin(bins, m, c)
                                  /\ \A j \in 1..Len(bins) : Gate!InBin(bins, j, c) => j = m
    BY <1>1, OneBin
  <2>2. DOMAIN bins = 1..Len(bins) /\ Len(bins) \in Nat
    BY <1>1, BinsRise
  <2>3. \A j \in 1..(m - 1) : ~Gate!InBin(bins, j, c)
    BY <2>1, <2>2
  <2> QED
    BY <2>1, <2>2, <2>3 DEF Gate!Lookup
<1>3. bin \in BinType
  BY <1>1, <1>2, BinsRise
<1>4. low \in Int
  BY <1>3, BinFields DEF PoliciesFit
<1>5. Gate!Effective(bins, p) = [p EXCEPT !.confidence = Gate!MinOf(c, low)]
  BY DEF Gate!Effective
<1> HIDE DEF low
<1>6. Gate!MinOf(c, low) \in Int /\ Gate!MinOf(c, low) <= c
  BY <1>1, <1>4 DEF Gate!MinOf
<1> QED
  BY <1>1, <1>5, <1>6 DEF Modest, ProposalType

-----------------------------------------------------------------------------
(* A report is of decisions on what was proposed, with the selection made.   *)
ReportFits(r) ==
    \E n \in Nat, mode \in Modes :
       \E raw \in [1..n -> ProposalType], decided \in [1..n -> DecisionType] :
          /\ r = [mode |-> mode, raw |-> raw, decisions |-> decided,
                  selected |-> Gate!Selected(decided, mode)]
          /\ \A k \in 1..n : /\ DecidedOf(decided[k], decided[k].proposal)
                              /\ Modest(decided[k].proposal, raw[k])

GateInv ==
    /\ monitor \in [atlas : Atlases, active : {monitor.active}, last : {monitor.last}]
    /\ report = Gate!NoReport \/ ReportFits(report)

(* check_proposals() *)
LEMMA ChecksFit ==
    ASSUME PoliciesFit, NEW atlas \in Atlases, NEW current \in Starts, NEW n \in Nat,
           NEW raw \in [1..n -> ProposalType], NEW batch \in [1..n -> ProposalType],
           \A k \in 1..n : Modest(batch[k], raw[k]),
           NEW mode \in Modes, Gate!Checks(atlas, current, raw, batch, mode)
    PROVE  ReportFits(report')
<1>1. DOMAIN batch = 1..n
  OBVIOUS
<1>2. PICK decided \in [1..n -> UNION {Gate!Decided(atlas, current, batch[k]) : k \in 1..n}] :
         /\ \A k \in 1..n : decided[k] \in Gate!Decided(atlas, current, batch[k])
         /\ report' = [mode |-> mode, raw |-> raw, decisions |-> decided,
                       selected |-> Gate!Selected(decided, mode)]
  BY <1>1, Zenon DEF Gate!Checks
<1>3. \A k \in 1..n : DecidedOf(decided[k], batch[k])
  BY <1>2, ProposalsDecided
<1>4. /\ \A k \in 1..n : /\ DecidedOf(decided[k], decided[k].proposal)
                          /\ Modest(decided[k].proposal, raw[k])
      /\ \A k \in 1..n : decided[k] \in DecisionType
  BY <1>3 DEF DecidedOf
<1>5. decided \in [1..n -> DecisionType]
  BY <1>2, <1>4
<1> QED
  BY <1>2, <1>4, <1>5 DEF ReportFits

LEMMA GateFits ==
    ASSUME PoliciesFit, GateInv, Gate!GateNext(Starts) \/ Gate!CalibratedNext(Starts)
    PROVE  report' = Gate!NoReport \/ ReportFits(report')
<1>1. monitor.atlas \in Atlases
  BY DEF GateInv
<1>2. \A batch \in Gate!Batches : \E n \in Nat : batch \in [1..n -> Proposals]
  BY DEF Gate!Batches
<1>3. \A p \in Proposals : Modest(p, p)
  BY DEF PoliciesFit, Modest, ProposalType
<1>4. CASE Gate!AppendFeedback \/ Gate!Forget
  BY <1>4 DEF Gate!AppendFeedback, Gate!Forget, GateInv
<1>5. CASE \E current \in Starts, batch \in Gate!Batches, mode \in Modes :
             Gate!CheckProposals(monitor.atlas, current, batch, mode)
  <2>1. PICK current \in Starts, batch \in Gate!Batches, mode \in Modes :
           Gate!Checks(monitor.atlas, current, batch, batch, mode)
    BY <1>5 DEF Gate!CheckProposals
  <2>2. PICK n \in Nat : batch \in [1..n -> Proposals]
    BY <1>2
  <2>3. batch \in [1..n -> ProposalType]
    BY <2>2 DEF PoliciesFit
  <2> QED
    BY <1>1, <1>3, <2>1, <2>2, <2>3, ChecksFit
<1>6. CASE \E bins \in Gate!AdequateProfiles, current \in Starts, batch \in Gate!Batches, mode \in Modes :
             Gate!CheckCalibrated(bins, monitor.atlas, current, batch, mode)
  <2>1. PICK bins \in Gate!AdequateProfiles, current \in Starts, batch \in Gate!Batches, mode \in Modes :
           Gate!CheckCalibrated(bins, monitor.atlas, current, batch, mode)
    BY <1>6
  <2>2. PICK n \in Nat : batch \in [1..n -> Proposals]
    BY <1>2
  <2> DEFINE lowered == [k \in 1..n |-> Gate!Effective(bins, batch[k])]
  <2>3. Gate!Checks(monitor.atlas, current, batch, lowered, mode)
    BY <2>1, <2>2 DEF Gate!CheckCalibrated
  <2>4. bins \in Gate!Profiles
    BY <2>1 DEF Gate!AdequateProfiles
  <2>5. \A k \in 1..n : Modest(lowered[k], batch[k])
    BY <2>2, <2>4, EffectiveIsModest
  <2>6. lowered \in [1..n -> ProposalType] /\ batch \in [1..n -> ProposalType]
    BY <2>2, <2>5 DEF PoliciesFit, Modest
  <2> HIDE DEF lowered
  <2> QED
    BY <1>1, <2>1, <2>3, <2>5, <2>6, ChecksFit
<1> QED
  BY <1>4, <1>5, <1>6 DEF Gate!GateNext, Gate!CalibratedNext

THEOREM GateInvariance == PoliciesFit => (GateSpec => []GateInv)
<1> SUFFICES ASSUME PoliciesFit PROVE GateSpec => []GateInv
  OBVIOUS
<1>1. Gate!Init /\ Gate!GateInit => GateInv
  BY DEF Gate!Init, Gate!GateInit, GateInv
<1>2. ASSUME GateInv, [GateStep]_<<Gate!vars, Gate!gateVars>> PROVE GateInv'
  <2>1. monitor' \in [atlas : Atlases, active : {monitor'.active}, last : {monitor'.last}]
    BY <1>2 DEF GateInv, GateStep, Gate!Next, Gate!CheckAction, Gate!Arm, Gate!Disarm,
                Gate!Observe, Gate!vars
  <2>2. report' = Gate!NoReport \/ ReportFits(report')
    <3>1. CASE UNCHANGED Gate!gateVars
      BY <1>2, <3>1 DEF GateInv, Gate!gateVars
    <3>2. CASE Gate!GateNext(Starts) \/ Gate!CalibratedNext(Starts)
      BY <1>2, <3>2, GateFits
    <3> QED
      BY <1>2, <3>1, <3>2 DEF GateStep
  <2> QED
    BY <2>1, <2>2 DEF GateInv
<1> QED
  BY <1>1, <1>2, PTL DEF GateSpec

(* check_proposals(), and the feedback of its reports: see GateIsSound and   *)
(* CalibrationIsConservative of PolicyGate.                                  *)
THEOREM ChoicesAlwaysSound ==
    PoliciesFit => (GateSpec => [](Gate!GateIsSound /\ Gate!CalibrationIsConservative))
<1> SUFFICES ASSUME PoliciesFit
             PROVE  GateSpec => [](Gate!GateIsSound /\ Gate!CalibrationIsConservative)
  OBVIOUS
<1>1. ASSUME report = Gate!NoReport
      PROVE  Gate!GateIsSound /\ Gate!CalibrationIsConservative
  <2>1. report.decisions = <<>> /\ report.selected = 0 /\ DOMAIN report.decisions = {}
    BY <1>1 DEF Gate!NoReport
  <2> QED
    BY <2>1 DEF Gate!GateIsSound, Gate!CalibrationIsConservative
<1>2. ASSUME ReportFits(report)
      PROVE  Gate!GateIsSound /\ Gate!CalibrationIsConservative
  <2>1. PICK n \in Nat, mode \in Modes :
           \E raw \in [1..n -> ProposalType], decided \in [1..n -> DecisionType] :
              /\ report = [mode |-> mode, raw |-> raw, decisions |-> decided,
                           selected |-> Gate!Selected(decided, mode)]
              /\ \A k \in 1..n : /\ DecidedOf(decided[k], decided[k].proposal)
                                  /\ Modest(decided[k].proposal, raw[k])
    BY <1>2 DEF ReportFits
  <2>2. PICK raw \in [1..n -> ProposalType], decided \in [1..n -> DecisionType] :
              /\ report = [mode |-> mode, raw |-> raw, decisions |-> decided,
                           selected |-> Gate!Selected(decided, mode)]
              /\ \A k \in 1..n : /\ DecidedOf(decided[k], decided[k].proposal)
                                  /\ Modest(decided[k].proposal, raw[k])
    BY <2>1
  <2>3. /\ report.decisions = decided /\ report.raw = raw /\ report.mode = mode
        /\ report.selected = Gate!Selected(decided, mode) /\ DOMAIN decided = 1..n
    BY <2>2
  <2>4. mode \in {"InputOrder", "HighestConfidence", "LowestUncertainty"}
    BY DEF PoliciesFit
  <2> DEFINE candidates == {k \in 1..n : Gate!Selectable(decided[k])}
             best == Gate!Selected(decided, mode)
  <2>5. IF candidates = {} THEN best = 0
        ELSE /\ best \in candidates
             /\ \A k \in candidates \ {best} :
                   Gate!Before(Gate!Rank(decided, best, mode), Gate!Rank(decided, k, mode))
    <3>1. IF candidates = {} THEN best = 0
          ELSE /\ best \in candidates
               /\ \A k \in candidates \ {best} :
                     Sooner(Gate!Rank(decided, best, mode), Gate!Rank(decided, k, mode))
      BY <2>4, SelectedIsBest DEF Best
    <3>2. \A k \in candidates : Gate!Rank(decided, k, mode) \in Numbers4
      BY <2>4, RankIs
    <3> HIDE DEF candidates, best
    <3> QED
      BY <3>1, <3>2, RanksCompare
  <2>6. ASSUME NEW k \in 1..n PROVE Gate!RecordValid(Gate!Records(report)[k])
    <3>1. Gate!Records(report)[k] = Gate!Feedback(decided[k], k = best)
      BY <2>3 DEF Gate!Records
    <3>2. DecidedOf(decided[k], decided[k].proposal)
      BY <2>2
    <3> HIDE DEF best
    <3>3. Gate!RecordValid(Gate!Feedback(decided[k], k = best))
      BY <3>2 DEF DecidedOf, Gate!RecordValid, Gate!Feedback, Gate!FeedbackLabel,
                  Gate!Selectable, Gate!None
    <3> QED
      BY <3>1, <3>3
  <2>7. Gate!GateIsSound
    <3> HIDE DEF candidates, best
    <3> QED
      BY <2>3, <2>5, <2>6 DEF Gate!GateIsSound, candidates, best
  <2>8. ASSUME NEW k \in 1..n
        PROVE  /\ decided[k].eligible => Gate!RejectedByPolicy(raw[k]) = ""
               /\ decided[k].proposal.confidence <= raw[k].confidence
    BY <2>2, ModestIsEligible DEF DecidedOf, Modest
  <2> QED
    BY <2>3, <2>7, <2>8 DEF Gate!CalibrationIsConservative
<1>3. GateInv => Gate!GateIsSound /\ Gate!CalibrationIsConservative
  BY <1>1, <1>2 DEF GateInv
<1> QED
  BY <1>3, GateInvariance, PTL

-----------------------------------------------------------------------------
(* A recursion over the numbers, and one over the subsets of a finite set     *)
(* from which c takes one member at a time: each has a solution, if its step  *)
(* (a function) stays in V.                                                   *)
Recurs(V, base, g) == \E f \in [Nat -> V] : f[0] = base /\ \A n \in Nat : f[n + 1] = g[n][f[n]]

LEMMA NumbersRecur ==
    ASSUME NEW V, NEW base \in V, NEW g \in [Nat -> [V -> V]]
    PROVE  Recurs(V, base, g)
<1> DEFINE Upto(h, n) == h \in [0..n -> V] /\ h[0] = base /\ \A k \in 0..(n - 1) : h[k + 1] = g[k][h[k]]
           T == {n \in Nat : \E h : Upto(h, n)}
<1>1. 0 \in T
  <2>1. Upto([k \in 0..0 |-> base], 0)
    OBVIOUS
  <2> QED
    BY <2>1
<1>2. ASSUME NEW n \in Nat, n \in T PROVE n + 1 \in T
  <2>0. PICK h : Upto(h, n)
    BY <1>2
  <2> DEFINE d == [k \in 0..(n + 1) |-> IF k = n + 1 THEN g[n][h[n]] ELSE h[k]]
  <2>1. h \in [0..n -> V] /\ g[n] \in [V -> V] /\ h[n] \in V /\ g[n][h[n]] \in V
    BY <2>0
  <2>2. d \in [0..(n + 1) -> V] /\ d[0] = base
    BY <2>0, <2>1
  <2>3. \A k \in 0..((n + 1) - 1) : d[k + 1] = g[k][d[k]]
    BY <2>0, <2>1
  <2> HIDE DEF d
  <2>4. Upto(d, n + 1)
    BY <2>2, <2>3
  <2> QED
    BY <2>4
<1>3. \A n \in Nat : \E h : Upto(h, n)
  <2> HIDE DEF T
  <2>1. Nat \subseteq T
    BY <1>1, <1>2, EveryNumber
  <2> QED
    BY <2>1 DEF T
<1> HIDE DEF Upto
<1> DEFINE hist(n) == CHOOSE h : Upto(h, n)
<1>4. \A n \in Nat : Upto(hist(n), n)
  BY <1>3
<1> HIDE DEF hist
<1>5. \A n \in Nat : /\ hist(n) \in [0..n -> V] /\ hist(n)[0] = base
                     /\ \A k \in 0..(n - 1) : hist(n)[k + 1] = g[k][hist(n)[k]]
  BY <1>4 DEF Upto
<1>6. ASSUME NEW n \in Nat
      PROVE  hist(n + 1)[n] = hist(n)[n]
  <2> DEFINE U == {k \in Nat : k <= n => hist(n + 1)[k] = hist(n)[k]}
  <2>1. 0 \in U
    BY <1>5
  <2>2. ASSUME NEW k \in Nat, k \in U
        PROVE  k + 1 \in U
    <3> SUFFICES ASSUME k + 1 <= n
                 PROVE  hist(n + 1)[k + 1] = hist(n)[k + 1]
      OBVIOUS
    <3>1. k \in 0..(n - 1) /\ k \in 0..((n + 1) - 1) /\ hist(n + 1)[k] = hist(n)[k]
      BY <2>2
    <3> QED
      BY <3>1, <1>5
  <2> HIDE DEF U
  <2>3. Nat \subseteq U
    BY <2>1, <2>2, EveryNumber
  <2> QED
    BY <2>3 DEF U
<1> DEFINE f == [n \in Nat |-> hist(n)[n]]
<1>7. f \in [Nat -> V]
  BY <1>5
<1>8. f[0] = base
  BY <1>5
<1>9. ASSUME NEW n \in Nat
      PROVE  f[n + 1] = g[n][f[n]]
  <2>1. n \in 0..((n + 1) - 1) /\ n + 1 \in Nat
    OBVIOUS
  <2>2. hist(n + 1)[n + 1] = g[n][hist(n + 1)[n]]
    BY <2>1, <1>5
  <2> QED
    BY <2>1, <2>2, <1>6
<1> HIDE DEF f
<1> QED
  BY <1>7, <1>8, <1>9 DEF Recurs

(* c takes a member of each part of S that is not empty. *)
Takes(c, S) == \A s \in SUBSET S : s # {} => c[s] \in s

(* Induction over the subsets, from the empty one.                           *)
LEMMA EverySubset ==
    ASSUME NEW S, IsFiniteSet(S), NEW c, Takes(c, S),
           NEW T, {} \in T, \A s \in SUBSET S : s # {} /\ s \ {c[s]} \in T => s \in T
    PROVE  SUBSET S \subseteq T
<1> DEFINE U == {n \in Nat : \A s \in SUBSET S : Cardinality(s) = n => s \in T}
<1>1. \A s \in SUBSET S : IsFiniteSet(s) /\ Cardinality(s) \in Nat
  BY FS_Subset, FS_CardinalityType
<1>2. 0 \in U
  BY <1>1, FS_EmptySet
<1>3. \A n \in Nat : n \in U => n + 1 \in U
  <2> SUFFICES ASSUME NEW n \in Nat, n \in U, NEW s \in SUBSET S, Cardinality(s) = n + 1
               PROVE  s \in T
    OBVIOUS
  <2>1. s # {}
    BY FS_EmptySet
  <2>2. c[s] \in s
    BY <2>1 DEF Takes
  <2>3. Cardinality(s \ {c[s]}) = Cardinality(s) - 1
    BY <1>1, <2>2, FS_RemoveElement
  <2>4. Cardinality(s \ {c[s]}) = n /\ s \ {c[s]} \in SUBSET S
    BY <2>3
  <2> QED
    BY <2>1, <2>4
<1>4. Nat \subseteq U
  <2> HIDE DEF U
  <2> QED
    BY <1>2, <1>3, EveryNumber
<1> QED
  BY <1>1, <1>4

Folds(S, c, V, base, g) ==
    \E f \in [SUBSET S -> V] :
       \A s \in SUBSET S : f[s] = IF s = {} THEN base ELSE g[c[s]][f[s \ {c[s]}]]

LEMMA SubsetsRecur ==
    ASSUME NEW S, IsFiniteSet(S), NEW c, Takes(c, S), NEW V, NEW base \in V, NEW g \in [S -> [V -> V]]
    PROVE  Folds(S, c, V, base, g)
<1> DEFINE G == [n \in Nat |-> [z \in [SUBSET S -> V] |->
                    [s \in SUBSET S |-> IF s = {} THEN base ELSE g[c[s]][z[s \ {c[s]}]]]]]
           W == [SUBSET S -> V]
           start == [s \in SUBSET S |-> base]
<1>1. start \in W
  OBVIOUS
<1>2. G \in [Nat -> [W -> W]]
  <2> SUFFICES ASSUME NEW z \in W, NEW s \in SUBSET S, s # {}
               PROVE  g[c[s]][z[s \ {c[s]}]] \in V
    OBVIOUS
  <2>1. c[s] \in S /\ s \ {c[s]} \in SUBSET S
    BY DEF Takes
  <2> QED
    BY <2>1
<1> HIDE DEF W, G, start
<1>3. PICK h \in [Nat -> W] : h[0] = start /\ \A n \in Nat : h[n + 1] = G[n][h[n]]
  <2>1. Recurs(W, start, G)
    BY <1>1, <1>2, NumbersRecur
  <2> QED
    BY <2>1 DEF Recurs
<1>4. \A n \in Nat, s \in SUBSET S :
         h[n + 1][s] = IF s = {} THEN base ELSE g[c[s]][h[n][s \ {c[s]}]]
  <2> SUFFICES ASSUME NEW n \in Nat, NEW s \in SUBSET S
               PROVE  h[n + 1][s] = IF s = {} THEN base ELSE g[c[s]][h[n][s \ {c[s]}]]
    OBVIOUS
  <2>1. h[n] \in W /\ h[n + 1] = G[n][h[n]]
    BY <1>3
  <2>2. G[n][h[n]] = [x \in SUBSET S |-> IF x = {} THEN base ELSE g[c[x]][h[n][x \ {c[x]}]]]
    BY <2>1 DEF G, W
  <2> QED
    BY <2>1, <2>2
<1>5. \A s \in SUBSET S : IsFiniteSet(s) /\ Cardinality(s) \in Nat
  BY FS_Subset, FS_CardinalityType
<1> DEFINE f == [s \in SUBSET S |-> h[Cardinality(s) + 1][s]]
<1>6. f \in W
  BY <1>3, <1>5 DEF W
<1>7. ASSUME NEW s \in SUBSET S
      PROVE  f[s] = IF s = {} THEN base ELSE g[c[s]][f[s \ {c[s]}]]
  <2>1. CASE s = {}
    BY <2>1, <1>4, <1>5
  <2>2. CASE s # {}
    <3>1. c[s] \in s
      BY <2>2 DEF Takes
    <3>2. /\ Cardinality(s \ {c[s]}) + 1 = Cardinality(s)
          /\ s \ {c[s]} \in SUBSET S /\ Cardinality(s) \in Nat
      <4>1. Cardinality(s \ {c[s]}) = Cardinality(s) - 1
        BY <3>1, <1>5, FS_RemoveElement
      <4> QED
        BY <4>1, <1>5
    <3>3. f[s \ {c[s]}] = h[Cardinality(s)][s \ {c[s]}]
      BY <3>2
    <3>4. f[s] = g[c[s]][h[Cardinality(s)][s \ {c[s]}]]
      BY <2>2, <1>4, <1>5
    <3> QED
      BY <2>2, <3>3, <3>4
  <2> QED
    BY <2>1, <2>2
<1> HIDE DEF f
<1> QED
  BY <1>6, <1>7 DEF W, Folds

-----------------------------------------------------------------------------
(* The shield's numbers: a configuration has one for each joint, and no       *)
(* region of an Atlas is turned inside out.                                  *)
Points == [Gate!Axes -> Int]
BoxType == [lower : Points, upper : Points]
AtlasType == {atlas \in Seq(BoxType) :
                \A k \in DOMAIN atlas : \A i \in Gate!Axes : atlas[k].lower[i] <= atlas[k].upper[i]}
ShieldFits ==
    /\ IsFiniteSet(Gate!Axes) /\ Tolerance \in Nat
    /\ Atlases \subseteq AtlasType
    /\ Starts \subseteq Points /\ Requests \subseteq Seq(Points)

Factor(p, q, i) == IF p[i] = q[i] THEN 1 ELSE Gate!Abs(q[i] - p[i])
First == [s \in SUBSET Gate!Axes |-> CHOOSE x \in s : TRUE]

(* FoldSet takes some member, and always the same of the same set.           *)
LEMMA FirstTakes == Takes(First, Gate!Axes)
BY DEF First, Takes

(* What an axis adds to the number of parts.                                 *)
LEMMA FactorIs ==
    ASSUME NEW p \in Points, NEW q \in Points, NEW i \in Gate!Axes
    PROVE  /\ Factor(p, q, i) \in Nat \ {0}
           /\ p[i] < q[i] => Factor(p, q, i) = q[i] - p[i] /\ Gate!Abs(q[i] - p[i]) = q[i] - p[i]
           /\ q[i] < p[i] => Factor(p, q, i) = p[i] - q[i] /\ Gate!Abs(q[i] - p[i]) = p[i] - q[i]
<1>1. p[i] \in Int /\ q[i] \in Int
  BY DEF Points
<1> QED
  BY <1>1 DEF Factor, Gate!Abs

(* Parts() is a fold over the axes.                                          *)
LEMMA PartsFold ==
    ASSUME ShieldFits, NEW p \in Points, NEW q \in Points
    PROVE  \E f \in [SUBSET Gate!Axes -> Nat \ {0}] :
              /\ \A s \in SUBSET Gate!Axes :
                    f[s] = IF s = {} THEN 1 ELSE f[s \ {First[s]}] * Factor(p, q, First[s])
              /\ Gate!Parts(p, q) = f[Gate!Axes]
<1> DEFINE S == Gate!Axes
           V == Nat \ {0}
           g == [i \in S |-> [n \in V |-> n * Factor(p, q, i)]]
           Solves(f) == f = [s \in SUBSET S |-> IF s = {} THEN 1
                                ELSE f[s \ {CHOOSE x \in s : TRUE}] * Factor(p, q, CHOOSE x \in s : TRUE)]
           iter == CHOOSE f : Solves(f)
<1>1. \A i \in S : Factor(p, q, i) \in Nat \ {0}
  BY FactorIs
<1>2. g \in [S -> [V -> V]]
  <2> SUFFICES ASSUME NEW i \in S, NEW n \in V PROVE n * Factor(p, q, i) \in V
    OBVIOUS
  <2>1. Factor(p, q, i) \in Nat \ {0}
    BY <1>1
  <2> HIDE DEF g
  <2> QED
    BY <2>1
<1>3. PICK h \in [SUBSET S -> V] : \A s \in SUBSET S : h[s] = IF s = {} THEN 1 ELSE g[First[s]][h[s \ {First[s]}]]
  <2> HIDE DEF g
  <2>1. IsFiniteSet(S) /\ Takes(First, S) /\ 1 \in V
    BY FirstTakes DEF ShieldFits
  <2> HIDE DEF V, S, iter, Solves
  <2>2. Folds(S, First, V, 1, g)
    BY <1>2, <2>1, SubsetsRecur
  <2> QED
    BY <2>2 DEF Folds
<1>4. \A f : Solves(f) <=> /\ f = [s \in SUBSET S |-> f[s]]
                           /\ \A s \in SUBSET S : f[s] = IF s = {} THEN 1 ELSE f[s \ {First[s]}] * Factor(p, q, First[s])
  BY DEF First
<1>5. Solves(h)
  <2>1. \A s \in SUBSET S : s # {} => First[s] \in S /\ s \ {First[s]} \in SUBSET S
    BY FirstTakes DEF Takes
  <2>2. \A s \in SUBSET S : h[s] = IF s = {} THEN 1 ELSE h[s \ {First[s]}] * Factor(p, q, First[s])
    BY <1>3, <2>1
  <2>3. h = [s \in SUBSET S |-> h[s]]
    OBVIOUS
  <2> HIDE DEF Solves
  <2> QED
    BY <1>4, <2>2, <2>3
<1>6. Solves(iter)
  <2> HIDE DEF Solves
  <2> QED
    BY <1>5
<1>7. Gate!Parts(p, q) = iter[S]
  BY DEF Gate!Parts, Gate!FoldSet, Gate!MapThenFoldSet, Factor
<1>8. iter = [s \in SUBSET S |-> iter[s]] /\ \A s \in SUBSET S :
         iter[s] = IF s = {} THEN 1 ELSE iter[s \ {First[s]}] * Factor(p, q, First[s])
  BY <1>4, <1>6
<1> HIDE DEF iter, Solves
<1>9. \A s \in SUBSET S : iter[s] \in V
  <2> DEFINE T == {s \in SUBSET S : iter[s] \in V}
  <2>1. {} \in T
    <3>1. {} \in SUBSET S /\ iter[{}] = 1
      BY <1>8
    <3> QED
      BY <3>1
  <2>2. ASSUME NEW s \in SUBSET S, s # {}, s \ {First[s]} \in T
        PROVE  s \in T
    <3>1. First[s] \in S
      BY <2>2, FirstTakes DEF Takes
    <3>2. iter[s] = iter[s \ {First[s]}] * Factor(p, q, First[s])
      BY <2>2, <1>8
    <3>3. Factor(p, q, First[s]) \in Nat \ {0} /\ iter[s \ {First[s]}] \in Nat \ {0}
      BY <2>2, <3>1, <1>1
    <3> QED
      BY <3>2, <3>3
  <2>3. SUBSET S \subseteq T
    <3> HIDE DEF T
    <3> QED
      BY <2>1, <2>2, FirstTakes, EverySubset DEF ShieldFits
  <2> QED
    BY <2>3
<1>10. iter \in [SUBSET S -> V]
  BY <1>8, <1>9
<1> QED
  BY <1>7, <1>8, <1>10

(* Every axis divides the number of parts: so many units of it take so many  *)
(* parts.                                                                    *)
LEMMA PartsDivide ==
    ASSUME ShieldFits, NEW p \in Points, NEW q \in Points
    PROVE  /\ Gate!Parts(p, q) \in Nat \ {0}
           /\ \A i \in Gate!Axes : \E m \in Nat \ {0} : Gate!Parts(p, q) = m * Factor(p, q, i)
<1> DEFINE S == Gate!Axes
           V == Nat \ {0}
<1>1. PICK f \in [SUBSET S -> V] :
         /\ \A s \in SUBSET S :
               f[s] = IF s = {} THEN 1 ELSE f[s \ {First[s]}] * Factor(p, q, First[s])
         /\ Gate!Parts(p, q) = f[S]
  BY PartsFold
<1> DEFINE T == {s \in SUBSET S : \A i \in s : \E m \in V : f[s] = m * Factor(p, q, i)}
<1>2. {} \in T
  OBVIOUS
<1>3. ASSUME NEW s \in SUBSET S, s # {}, s \ {First[s]} \in T
      PROVE  s \in T
  <2>1. First[s] \in S /\ s \ {First[s]} \in SUBSET S
    BY <1>3, FirstTakes DEF Takes
  <2>2. f[s] = f[s \ {First[s]}] * Factor(p, q, First[s]) /\ f[s \ {First[s]}] \in V
    BY <1>1, <1>3, <2>1
  <2> SUFFICES ASSUME NEW i \in s PROVE \E m \in V : f[s] = m * Factor(p, q, i)
    OBVIOUS
  <2>3. CASE i = First[s]
    BY <2>2, <2>3
  <2>4. CASE i # First[s]
    <3>1. PICK m \in V : f[s \ {First[s]}] = m * Factor(p, q, i)
      BY <1>3, <2>4
    <3>2. Factor(p, q, First[s]) \in V /\ Factor(p, q, i) \in V
      BY <2>1, FactorIs
    <3> DEFINE x == Factor(p, q, i)
               y == Factor(p, q, First[s])
    <3>3. f[s] = (m * x) * y
      BY <2>2, <3>1
    <3> HIDE DEF x, y
    <3>4. (m * x) * y = (m * y) * x /\ m * y \in V
      BY <3>2 DEF x, y
    <3> QED
      BY <3>3, <3>4 DEF x
  <2> QED
    BY <2>3, <2>4
<1>4. SUBSET S \subseteq T
  <2> HIDE DEF T
  <2> QED
    BY <1>2, <1>3, FirstTakes, EverySubset DEF ShieldFits
<1> QED
  BY <1>1, <1>4

(* The quotient of a multiple. *)
LEMMA RateIs ==
    ASSUME NEW m \in Nat, NEW d \in Nat \ {0}
    PROVE  (m * d) \div d = m
<1> DEFINE r == (m * d) \div d
           t == (m * d) % d
<1>1. m * d \in Nat /\ r \in Int /\ t \in Int /\ m * d = d * r + t /\ 0 <= t /\ t < d
  OBVIOUS
<1> HIDE DEF r, t
<1>2. m * d = d * m
  OBVIOUS
<1>3. d * (m - r) = t
  BY <1>1, <1>2
<1>4. \A x \in Int : x >= 1 => d * x >= d
  OBVIOUS
<1>5. \A x \in Int : x <= -1 => d * x <= -d
  OBVIOUS
<1>6. ~(m - r >= 1) /\ ~(m - r <= -1)
  BY <1>1, <1>3, <1>4, <1>5
<1> QED
  BY <1>1, <1>6 DEF r

Rate(p, q, i) == Gate!Parts(p, q) \div Gate!Abs(q[i] - p[i])

(* The parts that one unit of an axis takes.                                 *)
LEMMA RateFits ==
    ASSUME ShieldFits, NEW p \in Points, NEW q \in Points, NEW i \in Gate!Axes, p[i] # q[i]
    PROVE  /\ Rate(p, q, i) \in Nat \ {0}
           /\ p[i] < q[i] => Gate!Parts(p, q) = (q[i] - p[i]) * Rate(p, q, i)
           /\ q[i] < p[i] => Gate!Parts(p, q) = (p[i] - q[i]) * Rate(p, q, i)
<1> DEFINE d == Gate!Abs(q[i] - p[i])
<1>1. p[i] \in Int /\ q[i] \in Int
  BY DEF Points
<1>2. d \in Nat \ {0} /\ Factor(p, q, i) = d
  BY <1>1, FactorIs DEF Factor
<1>3. PICK m \in Nat \ {0} : Gate!Parts(p, q) = m * d
  BY <1>2, PartsDivide
<1>4. Rate(p, q, i) = m
  BY <1>2, <1>3, RateIs DEF Rate
<1>5. m * d = d * m
  BY <1>2
<1>6. /\ p[i] < q[i] => d = q[i] - p[i]
      /\ q[i] < p[i] => d = p[i] - q[i]
  BY FactorIs
<1> HIDE DEF d
<1> QED
  BY <1>3, <1>4, <1>5, <1>6

(* Part k lies between the bounds of a box on axis i. *)
Between(p, q, b, k, i) ==
    LET m == Rate(p, q, i) IN
    CASE p[i] < q[i] -> (b.lower[i] - p[i]) * m <= k /\ k + 1 <= (b.upper[i] - p[i]) * m
      [] q[i] < p[i] -> (p[i] - b.upper[i]) * m <= k /\ k + 1 <= (p[i] - b.lower[i]) * m
      [] OTHER -> b.lower[i] <= p[i] /\ p[i] <= b.upper[i]

(* PartsIn(), axis by axis.                                                  *)
LEMMA PartIs ==
    ASSUME ShieldFits, NEW p \in Points, NEW q \in Points, NEW b
    PROVE  Gate!PartsIn(p, q, b) =
              {k \in 0..(Gate!Parts(p, q) - 1) : \A i \in Gate!Axes : Between(p, q, b, k, i)}
<1>1. \A i \in Gate!Axes : p[i] \in Int /\ q[i] \in Int
  BY DEF Points
<1>2. ASSUME NEW i \in Gate!Axes, NEW k
      PROVE  Between(p, q, b, k, i) <=>
                IF p[i] = q[i] THEN b.lower[i] <= p[i] /\ p[i] <= b.upper[i]
                ELSE /\ (IF p[i] < q[i] THEN b.lower[i] - p[i] ELSE p[i] - b.upper[i]) * Rate(p, q, i) <= k
                     /\ k + 1 <= (IF p[i] < q[i] THEN b.upper[i] - p[i] ELSE p[i] - b.lower[i]) * Rate(p, q, i)
  BY <1>1 DEF Between
<1> QED
  BY <1>2, Zenon DEF Gate!PartsIn, Rate

(* Factors that can be cancelled.                                            *)
LEMMA Scaled ==
    ASSUME NEW x \in Int, NEW y \in Int, NEW m \in Nat \ {0}
    PROVE  x * m <= y * m <=> x <= y
<1>1. x <= y => x * m <= y * m
  OBVIOUS
<1>2. ~(x <= y) => ~(x * m <= y * m)
  <2> SUFFICES ASSUME x >= y + 1 PROVE ~(x * m <= y * m)
    OBVIOUS
  <2>1. x * m >= (y + 1) * m /\ (y + 1) * m = y * m + m
    OBVIOUS
  <2>2. x * m \in Int /\ y * m \in Int /\ (y + 1) * m \in Int
    OBVIOUS
  <2> QED
    BY <2>1, <2>2
<1> QED
  BY <1>1, <1>2

(* The numbers of a box and of a configuration.                              *)
LEMMA BoxNumbers ==
    ASSUME NEW b \in BoxType, NEW p \in Points, NEW i \in Gate!Axes
    PROVE  b.lower[i] \in Int /\ b.upper[i] \in Int /\ p[i] \in Int
BY DEF BoxType, Points

(* The first part of a segment lies where the segment starts. *)
LEMMA FirstPart ==
    ASSUME ShieldFits, NEW p \in Points, NEW q \in Points, NEW b \in BoxType, 0 \in Gate!PartsIn(p, q, b)
    PROVE  Gate!InBox(p, b)
<1> SUFFICES ASSUME NEW i \in Gate!Axes
             PROVE  b.lower[i] <= p[i] /\ p[i] <= b.upper[i]
  BY DEF Gate!InBox
<1> DEFINE m == Rate(p, q, i)
           lo == b.lower[i]
           hi == b.upper[i]
<1>1. Between(p, q, b, 0, i)
  BY PartIs
<1>2. lo \in Int /\ hi \in Int /\ p[i] \in Int /\ q[i] \in Int
  BY BoxNumbers
<1>3. p[i] # q[i] => m \in Nat \ {0}
  BY RateFits
<1>4. CASE p[i] < q[i]
  <2>1. (lo - p[i]) * m <= 0 /\ 0 + 1 <= (hi - p[i]) * m
    BY <1>1, <1>2, <1>4 DEF Between
  <2> HIDE DEF m, lo, hi
  <2>2. m \in Nat \ {0} /\ 0 * m = 0 /\ (lo - p[i]) * m \in Int /\ (hi - p[i]) * m \in Int
    BY <1>2, <1>3, <1>4
  <2>3. lo - p[i] <= 0 /\ 0 <= hi - p[i]
    <3>1. lo - p[i] \in Int /\ hi - p[i] \in Int
      BY <1>2
    <3>2. (lo - p[i]) * m <= 0 * m /\ 0 * m <= (hi - p[i]) * m
      BY <2>1, <2>2
    <3> QED
      BY <3>1, <3>2, <2>2, Scaled
  <2> QED
    BY <1>2, <2>3 DEF lo, hi
<1>5. CASE q[i] < p[i]
  <2>1. (p[i] - hi) * m <= 0 /\ 0 + 1 <= (p[i] - lo) * m
    BY <1>1, <1>2, <1>5 DEF Between
  <2> HIDE DEF m, lo, hi
  <2>2. m \in Nat \ {0} /\ 0 * m = 0 /\ (p[i] - hi) * m \in Int /\ (p[i] - lo) * m \in Int
    BY <1>2, <1>3, <1>5
  <2>3. p[i] - hi <= 0 /\ 0 <= p[i] - lo
    <3>1. p[i] - hi \in Int /\ p[i] - lo \in Int
      BY <1>2
    <3>2. (p[i] - hi) * m <= 0 * m /\ 0 * m <= (p[i] - lo) * m
      BY <2>1, <2>2
    <3> QED
      BY <3>1, <3>2, <2>2, Scaled
  <2> QED
    BY <1>2, <2>3 DEF lo, hi
<1>6. CASE p[i] = q[i]
  BY <1>1, <1>2, <1>6 DEF Between
<1> QED
  BY <1>2, <1>4, <1>5, <1>6

(* The last part lies where the segment ends. *)
LEMMA LastPart ==
    ASSUME ShieldFits, NEW p \in Points, NEW q \in Points, NEW b \in BoxType,
           Gate!Parts(p, q) - 1 \in Gate!PartsIn(p, q, b)
    PROVE  Gate!InBox(q, b)
<1> SUFFICES ASSUME NEW i \in Gate!Axes
             PROVE  b.lower[i] <= q[i] /\ q[i] <= b.upper[i]
  BY DEF Gate!InBox
<1> DEFINE m == Rate(p, q, i)
           n == Gate!Parts(p, q)
           lo == b.lower[i]
           hi == b.upper[i]
<1>1. Between(p, q, b, n - 1, i)
  BY PartIs
<1>2. lo \in Int /\ hi \in Int /\ p[i] \in Int /\ q[i] \in Int
  BY BoxNumbers
<1>3. n \in Nat \ {0}
  BY PartsDivide
<1>4. CASE p[i] < q[i]
  <2>1. (lo - p[i]) * m <= n - 1 /\ (n - 1) + 1 <= (hi - p[i]) * m
    BY <1>1, <1>2, <1>4 DEF Between
  <2>2. m \in Nat \ {0} /\ n = (q[i] - p[i]) * m
    BY <1>2, <1>4, RateFits
  <2> HIDE DEF m, lo, hi, n
  <2>3. lo - p[i] <= q[i] - p[i] /\ q[i] - p[i] <= hi - p[i]
    <3>1. lo - p[i] \in Int /\ hi - p[i] \in Int /\ q[i] - p[i] \in Int
      BY <1>2
    <3>2. (lo - p[i]) * m \in Int /\ (hi - p[i]) * m \in Int
      BY <3>1, <2>2
    <3>3. (lo - p[i]) * m <= (q[i] - p[i]) * m /\ (q[i] - p[i]) * m <= (hi - p[i]) * m
      BY <2>1, <2>2, <3>2, <1>3
    <3> QED
      BY <3>1, <3>3, <2>2, Scaled
  <2> QED
    BY <1>2, <2>3 DEF lo, hi
<1>5. CASE q[i] < p[i]
  <2>1. (p[i] - hi) * m <= n - 1 /\ (n - 1) + 1 <= (p[i] - lo) * m
    BY <1>1, <1>2, <1>5 DEF Between
  <2>2. m \in Nat \ {0} /\ n = (p[i] - q[i]) * m
    BY <1>2, <1>5, RateFits
  <2> HIDE DEF m, lo, hi, n
  <2>3. p[i] - hi <= p[i] - q[i] /\ p[i] - q[i] <= p[i] - lo
    <3>1. p[i] - lo \in Int /\ p[i] - hi \in Int /\ p[i] - q[i] \in Int
      BY <1>2
    <3>2. (p[i] - hi) * m \in Int /\ (p[i] - lo) * m \in Int
      BY <3>1, <2>2
    <3>3. (p[i] - hi) * m <= (p[i] - q[i]) * m /\ (p[i] - q[i]) * m <= (p[i] - lo) * m
      BY <2>1, <2>2, <3>2, <1>3
    <3> QED
      BY <3>1, <3>3, <2>2, Scaled
  <2> QED
    BY <1>2, <2>3 DEF lo, hi
<1>6. CASE p[i] = q[i]
  BY <1>1, <1>2, <1>6 DEF Between
<1> QED
  BY <1>2, <1>4, <1>5, <1>6

(* Boxes with a part each, of which one follows the other, meet. *)
LEMMA NextPart ==
    ASSUME ShieldFits, NEW p \in Points, NEW q \in Points, NEW a \in BoxType, NEW b \in BoxType,
           NEW k \in Nat, k \in Gate!PartsIn(p, q, a), k + 1 \in Gate!PartsIn(p, q, b)
    PROVE  Gate!Overlap(a, b, 0)
<1> SUFFICES ASSUME NEW i \in Gate!Axes
             PROVE  a.lower[i] <= b.upper[i] + 0 /\ b.lower[i] <= a.upper[i] + 0
  BY DEF Gate!Overlap
<1> DEFINE m == Rate(p, q, i)
           alo == a.lower[i]
           ahi == a.upper[i]
           blo == b.lower[i]
           bhi == b.upper[i]
<1>1. Between(p, q, a, k, i) /\ Between(p, q, b, k + 1, i)
  BY PartIs
<1>2. /\ alo \in Int /\ ahi \in Int /\ blo \in Int /\ bhi \in Int
      /\ p[i] \in Int /\ q[i] \in Int
  BY BoxNumbers
<1>3. p[i] # q[i] => m \in Nat \ {0}
  BY RateFits
<1>4. CASE p[i] < q[i]
  <2>1. /\ (alo - p[i]) * m <= k /\ k + 1 <= (ahi - p[i]) * m
        /\ (blo - p[i]) * m <= k + 1 /\ (k + 1) + 1 <= (bhi - p[i]) * m
    BY <1>1, <1>2, <1>4 DEF Between
  <2>2. m \in Nat \ {0}
    BY <1>2, <1>3, <1>4
  <2> HIDE DEF m, alo, ahi, blo, bhi
  <2>3. alo - p[i] <= bhi - p[i] /\ blo - p[i] <= ahi - p[i]
    <3>1. alo - p[i] \in Int /\ ahi - p[i] \in Int /\ blo - p[i] \in Int /\ bhi - p[i] \in Int
      BY <1>2
    <3>2. /\ (alo - p[i]) * m \in Int /\ (ahi - p[i]) * m \in Int
          /\ (blo - p[i]) * m \in Int /\ (bhi - p[i]) * m \in Int
      BY <3>1, <2>2
    <3>3. (alo - p[i]) * m <= (bhi - p[i]) * m /\ (blo - p[i]) * m <= (ahi - p[i]) * m
      BY <2>1, <3>2
    <3> QED
      BY <3>1, <3>3, <2>2, Scaled
  <2> QED
    BY <1>2, <2>3 DEF alo, ahi, blo, bhi
<1>5. CASE q[i] < p[i]
  <2>1. /\ (p[i] - ahi) * m <= k /\ k + 1 <= (p[i] - alo) * m
        /\ (p[i] - bhi) * m <= k + 1 /\ (k + 1) + 1 <= (p[i] - blo) * m
    BY <1>1, <1>2, <1>5 DEF Between
  <2>2. m \in Nat \ {0}
    BY <1>2, <1>3, <1>5
  <2> HIDE DEF m, alo, ahi, blo, bhi
  <2>3. p[i] - ahi <= p[i] - blo /\ p[i] - bhi <= p[i] - alo
    <3>1. p[i] - alo \in Int /\ p[i] - ahi \in Int /\ p[i] - blo \in Int /\ p[i] - bhi \in Int
      BY <1>2
    <3>2. /\ (p[i] - alo) * m \in Int /\ (p[i] - ahi) * m \in Int
          /\ (p[i] - blo) * m \in Int /\ (p[i] - bhi) * m \in Int
      BY <3>1, <2>2
    <3>3. (p[i] - ahi) * m <= (p[i] - blo) * m /\ (p[i] - bhi) * m <= (p[i] - alo) * m
      BY <2>1, <3>2
    <3> QED
      BY <3>1, <3>3, <2>2, Scaled
  <2> QED
    BY <1>2, <2>3 DEF alo, ahi, blo, bhi
<1>6. CASE p[i] = q[i]
  BY <1>1, <1>2, <1>6 DEF Between
<1> QED
  BY <1>2, <1>4, <1>5, <1>6

(* A box holds every part between two points that it holds. *)
LEMMA BoxesAreConvex ==
    ASSUME ShieldFits, NEW p \in Points, NEW q \in Points, NEW b \in BoxType,
           Gate!InBox(p, b), Gate!InBox(q, b)
    PROVE  Gate!PartsIn(p, q, b) = 0..(Gate!Parts(p, q) - 1)
<1> DEFINE n == Gate!Parts(p, q)
<1>1. n \in Nat \ {0}
  BY PartsDivide
<1> SUFFICES ASSUME NEW k \in 0..(n - 1), NEW i \in Gate!Axes
             PROVE  Between(p, q, b, k, i)
  <2>1. Gate!PartsIn(p, q, b) = {k \in 0..(n - 1) : \A i \in Gate!Axes : Between(p, q, b, k, i)}
    BY PartIs
  <2> HIDE DEF n
  <2> SUFFICES {k \in 0..(n - 1) : \A i \in Gate!Axes : Between(p, q, b, k, i)} = 0..(n - 1)
    BY <2>1 DEF n
  <2> QED
    OBVIOUS
<1> DEFINE m == Rate(p, q, i)
           lo == b.lower[i]
           hi == b.upper[i]
<1>2. lo \in Int /\ hi \in Int /\ p[i] \in Int /\ q[i] \in Int
  BY BoxNumbers
<1>3. lo <= p[i] /\ p[i] <= hi /\ lo <= q[i] /\ q[i] <= hi
  BY DEF Gate!InBox
<1>4. k \in Int /\ 0 <= k /\ k + 1 <= n
  BY <1>1
<1>5. CASE p[i] < q[i]
  <2>1. m \in Nat \ {0} /\ n = (q[i] - p[i]) * m
    BY <1>2, <1>5, RateFits
  <2> HIDE DEF m, lo, hi, n
  <2>2. lo - p[i] \in Int /\ hi - p[i] \in Int /\ q[i] - p[i] \in Int /\ 0 \in Int
    BY <1>2
  <2>3. lo - p[i] <= 0 /\ q[i] - p[i] <= hi - p[i]
    BY <1>2, <1>3
  <2>4. (lo - p[i]) * m <= 0 * m /\ (q[i] - p[i]) * m <= (hi - p[i]) * m
    BY <2>1, <2>2, <2>3, Scaled
  <2>5. (lo - p[i]) * m \in Int /\ (hi - p[i]) * m \in Int /\ 0 * m = 0
    BY <2>1, <2>2
  <2>6. (lo - p[i]) * m <= k /\ k + 1 <= (hi - p[i]) * m
    BY <1>1, <1>4, <2>1, <2>4, <2>5
  <2> QED
    BY <1>2, <1>5, <2>6 DEF Between, m, lo, hi
<1>6. CASE q[i] < p[i]
  <2>1. m \in Nat \ {0} /\ n = (p[i] - q[i]) * m
    BY <1>2, <1>6, RateFits
  <2> HIDE DEF m, lo, hi, n
  <2>2. p[i] - hi \in Int /\ p[i] - lo \in Int /\ p[i] - q[i] \in Int /\ 0 \in Int
    BY <1>2
  <2>3. p[i] - hi <= 0 /\ p[i] - q[i] <= p[i] - lo
    BY <1>2, <1>3
  <2>4. (p[i] - hi) * m <= 0 * m /\ (p[i] - q[i]) * m <= (p[i] - lo) * m
    BY <2>1, <2>2, <2>3, Scaled
  <2>5. (p[i] - hi) * m \in Int /\ (p[i] - lo) * m \in Int /\ 0 * m = 0
    BY <2>1, <2>2
  <2>6. (p[i] - hi) * m <= k /\ k + 1 <= (p[i] - lo) * m
    BY <1>1, <1>4, <2>1, <2>4, <2>5
  <2> QED
    BY <1>2, <1>6, <2>6 DEF Between, m, lo, hi
<1>7. CASE p[i] = q[i]
  BY <1>2, <1>3, <1>7 DEF Between
<1> QED
  BY <1>2, <1>5, <1>6, <1>7

-----------------------------------------------------------------------------
(* The regions of an Atlas.                                                  *)
LEMMA AtlasFields ==
    ASSUME NEW atlas \in AtlasType
    PROVE  /\ Len(atlas) \in Nat /\ DOMAIN atlas = 1..Len(atlas)
           /\ \A k \in DOMAIN atlas : /\ atlas[k] \in BoxType
                                      /\ \A i \in Gate!Axes : /\ atlas[k].lower[i] \in Int
                                                              /\ atlas[k].upper[i] \in Int
                                                              /\ atlas[k].lower[i] <= atlas[k].upper[i]
<1>1. atlas \in Seq(BoxType) /\ \A k \in DOMAIN atlas : \A i \in Gate!Axes : atlas[k].lower[i] <= atlas[k].upper[i]
  BY DEF AtlasType
<1>2. Len(atlas) \in Nat /\ DOMAIN atlas = 1..Len(atlas) /\ \A k \in DOMAIN atlas : atlas[k] \in BoxType
  BY <1>1
<1>3. \A b \in BoxType, i \in Gate!Axes : b.lower[i] \in Int /\ b.upper[i] \in Int
  BY DEF BoxType, Points
<1> QED
  BY <1>1, <1>2, <1>3

(* Sequences of regions each of which meets the next. *)
Path(atlas, p, n, s) ==
    /\ s \in [1..n -> DOMAIN atlas]
    /\ Gate!InBox(p, atlas[s[1]])
    /\ \A k \in 1..(n - 1) : s[k + 1] \in Gate!CertifiedNeighbours(atlas, s[k])

(* The regions that such a sequence reaches from a point. *)
Ways(atlas, p) == {k \in DOMAIN atlas : \E n \in Nat \ {0} : \E s : Path(atlas, p, n, s) /\ s[n] = k}

(* The regions that a point is in.                                           *)
LEMMA WayStarts ==
    ASSUME NEW atlas \in AtlasType, NEW p, NEW k \in DOMAIN atlas, Gate!InBox(p, atlas[k])
    PROVE  k \in Ways(atlas, p)
<1> DEFINE s == [x \in 1..1 |-> k]
<1>1. s \in [1..1 -> DOMAIN atlas] /\ s[1] = k
  OBVIOUS
<1> HIDE DEF s
<1>2. Path(atlas, p, 1, s)
  BY <1>1 DEF Path
<1> QED
  BY <1>1, <1>2 DEF Ways

(* And those that overlap a region reached.                                  *)
LEMMA WayGoesOn ==
    ASSUME ShieldFits, NEW atlas \in AtlasType, NEW p, NEW j \in Ways(atlas, p), NEW k \in DOMAIN atlas,
           Gate!Overlap(atlas[j], atlas[k], 0)
    PROVE  k \in Ways(atlas, p)
<1>1. CASE k = j
  BY <1>1
<1>2. CASE k # j
  <2>1. PICK n \in Nat \ {0} : \E s : Path(atlas, p, n, s) /\ s[n] = j
    BY DEF Ways
  <2>2. PICK s : Path(atlas, p, n, s) /\ s[n] = j
    BY <2>1
  <2>3. j \in DOMAIN atlas
    BY DEF Ways
  <2>4. k \in Gate!CertifiedNeighbours(atlas, j)
    <3>1. \A i \in Gate!Axes : /\ atlas[j].lower[i] <= atlas[k].upper[i] + 0
                               /\ atlas[k].lower[i] <= atlas[j].upper[i] + 0
      BY DEF Gate!Overlap
    <3>2. Tolerance \in Nat
      BY DEF ShieldFits
    <3>3. ASSUME NEW i \in Gate!Axes
          PROVE  /\ atlas[j].lower[i] <= atlas[k].upper[i] + Tolerance
                 /\ atlas[k].lower[i] <= atlas[j].upper[i] + Tolerance
      <4>1. /\ atlas[j].lower[i] \in Int /\ atlas[j].upper[i] \in Int
            /\ atlas[k].lower[i] \in Int /\ atlas[k].upper[i] \in Int
        BY <2>3, AtlasFields
      <4> QED
        BY <3>1, <3>2, <4>1
    <3>4. Gate!Overlap(atlas[j], atlas[k], Tolerance)
      BY <3>3 DEF Gate!Overlap
    <3> QED
      BY <1>2, <3>4 DEF Gate!CertifiedNeighbours, Gate!Adjacent
  <2> DEFINE t == [x \in 1..(n + 1) |-> IF x = n + 1 THEN k ELSE s[x]]
  <2>5. s \in [1..n -> DOMAIN atlas]
    BY <2>2 DEF Path
  <2>6. t \in [1..(n + 1) -> DOMAIN atlas] /\ t[1] = s[1] /\ t[n + 1] = k
    BY <2>5
  <2>7. ASSUME NEW x \in 1..((n + 1) - 1)
        PROVE  t[x + 1] \in Gate!CertifiedNeighbours(atlas, t[x])
    <3>1. CASE x = n
      <4>1. t[x + 1] = k /\ t[x] = j
        BY <2>2, <3>1
      <4> QED
        BY <2>4, <4>1
    <3>2. CASE x # n
      <4>1. t[x + 1] = s[x + 1] /\ t[x] = s[x] /\ x \in 1..(n - 1)
        BY <3>2
      <4> QED
        BY <2>2, <4>1 DEF Path
    <3> QED
      BY <3>1, <3>2
  <2> HIDE DEF t
  <2>8. Path(atlas, p, n + 1, t)
    BY <2>2, <2>6, <2>7 DEF Path
  <2> QED
    BY <2>6, <2>8 DEF Ways
<1> QED
  BY <1>1, <1>2

(* A shortest sequence has no region twice. *)
LEMMA ShortestIsShort ==
    ASSUME NEW atlas \in AtlasType, NEW p, NEW q, NEW m \in Nat \ {0}, NEW s,
           Path(atlas, p, m, s), Gate!InBox(q, atlas[s[m]]),
           \A n \in Nat \ {0} : \A t : Path(atlas, p, n, t) /\ Gate!InBox(q, atlas[t[n]]) => m <= n
    PROVE  m <= Len(atlas)
<1>1. s \in [1..m -> DOMAIN atlas]
  BY DEF Path
<1>2. ASSUME NEW a \in 1..m, NEW b \in 1..m, a < b, s[a] = s[b]
      PROVE  FALSE
  <2> DEFINE n == m - (b - a)
             t == [x \in 1..n |-> IF x <= a THEN s[x] ELSE s[x + (b - a)]]
  <2>1. n \in Nat \ {0} /\ a <= n /\ n < m /\ a \in Int /\ b \in Int
    BY <1>2
  <2>2. t \in [1..n -> DOMAIN atlas]
    BY <1>1, <1>2
  <2>3. t[1] = s[1]
    BY <2>1
  <2>4. t[n] = s[m]
    <3>1. CASE n = a
      <4>1. b = m
        BY <3>1, <2>1
      <4> QED
        BY <3>1, <4>1, <1>2, <2>1
    <3>2. CASE n # a
      BY <3>2, <2>1
    <3> QED
      BY <3>1, <3>2
  <2>5. ASSUME NEW x \in 1..(n - 1)
        PROVE  t[x + 1] \in Gate!CertifiedNeighbours(atlas, t[x])
    <3>1. CASE x < a
      <4>1. t[x + 1] = s[x + 1] /\ t[x] = s[x] /\ x \in 1..(m - 1)
        BY <3>1, <2>1
      <4> QED
        BY <4>1 DEF Path
    <3>2. CASE a <= x
      <4>1. t[x + 1] = s[(x + (b - a)) + 1] /\ x + (b - a) \in 1..(m - 1)
        BY <3>2, <2>1, <1>2
      <4>2. t[x] = s[x + (b - a)]
        <5>1. CASE x = a
          BY <5>1, <1>2, <2>1
        <5>2. CASE x # a
          BY <5>2, <3>2, <2>1
        <5> QED
          BY <5>1, <5>2
      <4> QED
        BY <4>1, <4>2 DEF Path
    <3> QED
      BY <3>1, <3>2, <2>1
  <2> HIDE DEF n, t
  <2>6. Path(atlas, p, n, t) /\ Gate!InBox(q, atlas[t[n]])
    BY <2>2, <2>3, <2>4, <2>5 DEF Path
  <2> QED
    BY <2>1, <2>6
<1>3. \A a, b \in 1..m : s[a] = s[b] => a = b
  BY <1>2
<1>4. s \in Injection(1..m, 1..Len(atlas))
  BY <1>1, <1>3, AtlasFields DEF Injection, IsInjective
<1>5. Cardinality(1..m) = m /\ Cardinality(1..Len(atlas)) = Len(atlas) /\ IsFiniteSet(1..Len(atlas))
  <2>1. Len(atlas) \in Nat
    BY AtlasFields
  <2>2. \A n \in Nat : IsFiniteSet(1..n) /\ Cardinality(1..n) = IF 1 > n THEN 0 ELSE n - 1 + 1
    BY FS_Interval
  <2> QED
    BY <2>1, <2>2
<1>6. Cardinality(1..m) <= Cardinality(1..Len(atlas))
  BY <1>4, <1>5, FS_Injection
<1> QED
  BY <1>5, <1>6

(* route() finds one of the shortest of them. *)
ChainsOf(atlas, p, q, n) ==
    {s \in [1..n -> DOMAIN atlas] : Path(atlas, p, n, s) /\ Gate!InBox(q, atlas[s[n]])}
Lengths(atlas, p, q) == {n \in 1..Len(atlas) : ChainsOf(atlas, p, q, n) # {}}

(* Chains(), in these terms.                                                 *)
LEMMA ChainsAre ==
    ASSUME NEW atlas, NEW p, NEW q
    PROVE  Gate!Chains(atlas, p, q) =
              IF Lengths(atlas, p, q) = {} THEN {}
              ELSE ChainsOf(atlas, p, q, Gate!Min(Lengths(atlas, p, q)))
<1> DEFINE of(n) == {s \in [1..n -> DOMAIN atlas] :
                       /\ Gate!InBox(p, atlas[s[1]]) /\ Gate!InBox(q, atlas[s[n]])
                       /\ \A k \in 1..(n - 1) : s[k + 1] \in Gate!CertifiedNeighbours(atlas, s[k])}
           lengths == {n \in 1..Len(atlas) : of(n) # {}}
<1>1. Gate!Chains(atlas, p, q) = IF lengths = {} THEN {} ELSE of(Gate!Min(lengths))
  BY DEF Gate!Chains
<1>2. ASSUME NEW n PROVE of(n) = ChainsOf(atlas, p, q, n)
  BY DEF ChainsOf, Path
<1> HIDE DEF of
<1>3. lengths = Lengths(atlas, p, q)
  BY <1>2 DEF Lengths
<1> QED
  BY <1>1, <1>2, <1>3

(* A number of regions that is the least.                                    *)
LEMMA LeastLength ==
    ASSUME NEW atlas \in AtlasType, NEW p, NEW q, Lengths(atlas, p, q) # {}
    PROVE  Gate!Min(Lengths(atlas, p, q)) \in Lengths(atlas, p, q)
<1> DEFINE N == Lengths(atlas, p, q)
<1>1. N \subseteq Nat
  BY DEF Lengths
<1> HIDE DEF N
<1>2. \E m \in N : \A j \in N : m <= j
  BY <1>1, LeastExists DEF N
<1>3. Gate!Min(N) = CHOOSE x \in N : \A y \in N : x <= y
  BY DEF Gate!Min
<1> QED
  BY <1>2, <1>3 DEF N

(* What route() finds is such a sequence.                                    *)
LEMMA ChainIsPath ==
    ASSUME NEW atlas \in AtlasType, NEW p, NEW q, NEW s \in Gate!Chains(atlas, p, q)
    PROVE  \E n \in Nat \ {0} : s \in [1..n -> DOMAIN atlas] /\ Path(atlas, p, n, s) /\ Gate!InBox(q, atlas[s[n]])
<1> DEFINE n == Gate!Min(Lengths(atlas, p, q))
<1>1. Lengths(atlas, p, q) # {} /\ s \in ChainsOf(atlas, p, q, n)
  BY ChainsAre
<1>2. n \in 1..Len(atlas) /\ Len(atlas) \in Nat
  BY <1>1, LeastLength, AtlasFields DEF Lengths
<1> HIDE DEF n
<1>3. n \in Nat \ {0} /\ s \in [1..n -> DOMAIN atlas] /\ Path(atlas, p, n, s) /\ Gate!InBox(q, atlas[s[n]])
  BY <1>1, <1>2 DEF ChainsOf
<1> QED
  BY <1>3

(* connected(): what is reached by overlapping regions has a route. *)
LEMMA WayEnds ==
    ASSUME NEW atlas \in AtlasType, NEW p, NEW q, NEW k \in Ways(atlas, p), Gate!InBox(q, atlas[k])
    PROVE  Gate!Connected(atlas, p, q)
<1> DEFINE N == {n \in Nat \ {0} : \E s : Path(atlas, p, n, s) /\ Gate!InBox(q, atlas[s[n]])}
<1>1. N # {} /\ N \subseteq Nat
  BY DEF Ways
<1>2. PICK m \in N : \A n \in N : m <= n
  <2> HIDE DEF N
  <2> QED
    BY <1>1, LeastExists
<1>3. PICK s : Path(atlas, p, m, s) /\ Gate!InBox(q, atlas[s[m]])
  BY <1>2
<1>4. m <= Len(atlas)
  <2>1. \A n \in Nat \ {0} : \A t : Path(atlas, p, n, t) /\ Gate!InBox(q, atlas[t[n]]) => m <= n
    BY <1>2
  <2>2. m \in Nat \ {0}
    BY <1>2
  <2> HIDE DEF N
  <2> QED
    BY <1>3, <2>1, <2>2, ShortestIsShort
<1>5. m \in 1..Len(atlas)
  BY <1>2, <1>4, AtlasFields
<1>6. s \in ChainsOf(atlas, p, q, m)
  BY <1>3 DEF ChainsOf, Path
<1>7. Lengths(atlas, p, q) # {}
  BY <1>5, <1>6 DEF Lengths
<1>8. ChainsOf(atlas, p, q, Gate!Min(Lengths(atlas, p, q))) # {}
  BY <1>7, LeastLength DEF Lengths
<1> QED
  BY <1>7, <1>8, ChainsAre DEF Gate!Connected

-----------------------------------------------------------------------------
(* Boxes with a point in common overlap.                                     *)
LEMMA SharedPoint ==
    ASSUME NEW p \in Points, NEW a \in BoxType, NEW b \in BoxType, Gate!InBox(p, a), Gate!InBox(p, b)
    PROVE  Gate!Overlap(a, b, 0)
<1> SUFFICES ASSUME NEW i \in Gate!Axes
             PROVE  a.lower[i] <= b.upper[i] + 0 /\ b.lower[i] <= a.upper[i] + 0
  BY DEF Gate!Overlap
<1>1. /\ a.lower[i] \in Int /\ a.upper[i] \in Int /\ b.lower[i] \in Int /\ b.upper[i] \in Int
      /\ p[i] \in Int
  BY BoxNumbers
<1>2. a.lower[i] <= p[i] /\ p[i] <= a.upper[i] /\ b.lower[i] <= p[i] /\ p[i] <= b.upper[i]
  BY DEF Gate!InBox
<1> QED
  BY <1>1, <1>2

RegionsOf(atlas) == {atlas[k] : k \in DOMAIN atlas}

(* A covered segment leads from a region to a region. *)
LEMMA SegmentGoesOn ==
    ASSUME ShieldFits, NEW atlas \in AtlasType, NEW x, NEW p \in Points, NEW q \in Points,
           Gate!SegmentCovered(p, q, RegionsOf(atlas)),
           NEW j \in Ways(atlas, x), Gate!InBox(p, atlas[j])
    PROVE  \E k \in Ways(atlas, x) : Gate!InBox(q, atlas[k])
<1> DEFINE n == Gate!Parts(p, q)
           T == {m \in Nat : m <= n - 1 => \E k \in Ways(atlas, x) : m \in Gate!PartsIn(p, q, atlas[k])}
<1>1. n \in Nat \ {0}
  BY PartsDivide
<1>2. ASSUME NEW m \in 0..(n - 1)
      PROVE  \E k \in DOMAIN atlas : m \in Gate!PartsIn(p, q, atlas[k])
  BY DEF Gate!SegmentCovered, RegionsOf
<1>3. \A k \in Ways(atlas, x) : k \in DOMAIN atlas
  BY DEF Ways
<1>4. \A k \in DOMAIN atlas : atlas[k] \in BoxType
  BY AtlasFields
<1> HIDE DEF n
<1>5. 0 \in T
  <2>1. PICK k \in DOMAIN atlas : 0 \in Gate!PartsIn(p, q, atlas[k])
    BY <1>1, <1>2
  <2>2. Gate!InBox(p, atlas[k])
    BY <2>1, <1>4, FirstPart
  <2>3. Gate!Overlap(atlas[j], atlas[k], 0)
    BY <2>2, <1>3, <1>4, SharedPoint
  <2>4. k \in Ways(atlas, x)
    BY <2>3, WayGoesOn
  <2> QED
    BY <2>1, <2>4
<1>6. ASSUME NEW m \in Nat, m \in T
      PROVE  m + 1 \in T
  <2> SUFFICES ASSUME m + 1 <= n - 1
               PROVE  \E k \in Ways(atlas, x) : m + 1 \in Gate!PartsIn(p, q, atlas[k])
    OBVIOUS
  <2>1. PICK h \in Ways(atlas, x) : m \in Gate!PartsIn(p, q, atlas[h])
    BY <1>1, <1>6
  <2>2. PICK k \in DOMAIN atlas : m + 1 \in Gate!PartsIn(p, q, atlas[k])
    BY <1>1, <1>2
  <2>3. Gate!Overlap(atlas[h], atlas[k], 0)
    BY <2>1, <2>2, <1>3, <1>4, NextPart
  <2>4. k \in Ways(atlas, x)
    BY <2>3, WayGoesOn
  <2> QED
    BY <2>2, <2>4
<1>7. n - 1 \in T
  <2> HIDE DEF T
  <2>1. Nat \subseteq T
    BY <1>5, <1>6, EveryNumber
  <2> QED
    BY <1>1, <2>1
<1>8. PICK k \in Ways(atlas, x) : n - 1 \in Gate!PartsIn(p, q, atlas[k])
  BY <1>1, <1>7
<1> QED
  BY <1>3, <1>4, <1>8, LastPart DEF n

(* audit(), connected(): the audit goes by the parts of each segment, the    *)
(* search for a route by which regions overlap; a trajectory that the audit  *)
(* passes has a route from its start to its end, so that certified_decision() *)
(* never finds the one without the other.                                    *)
THEOREM AuditedConnects ==
    ASSUME ShieldFits, NEW atlas \in AtlasType, NEW w \in Seq(Points), Len(w) >= 2, Gate!Audited(atlas, w)
    PROVE  Gate!Connected(atlas, w[1], w[Len(w)])
<1>1. Len(w) \in Nat /\ \A i \in 1..Len(w) : w[i] \in Points
  OBVIOUS
<1>2. \A i \in 1..(Len(w) - 1) : Gate!SegmentCovered(w[i], w[i + 1], RegionsOf(atlas))
  BY DEF Gate!Audited, Gate!Certified, RegionsOf
<1> DEFINE T == {j \in Nat : j + 1 <= Len(w) => \E k \in Ways(atlas, w[1]) : Gate!InBox(w[j + 1], atlas[k])}
<1>3. 0 \in T
  <2>1. w[1] \in Points /\ w[2] \in Points /\ Gate!SegmentCovered(w[1], w[2], RegionsOf(atlas))
    <3>1. 1 \in 1..(Len(w) - 1) /\ 1 \in 1..Len(w) /\ 2 \in 1..Len(w) /\ 1 + 1 = 2
      BY <1>1
    <3> QED
      BY <3>1, <1>1, <1>2
  <2>2. 0 \in 0..(Gate!Parts(w[1], w[2]) - 1)
    <3>1. Gate!Parts(w[1], w[2]) \in Nat \ {0}
      BY <2>1, PartsDivide
    <3> QED
      BY <3>1
  <2>3. PICK k \in DOMAIN atlas : 0 \in Gate!PartsIn(w[1], w[2], atlas[k])
    BY <2>1, <2>2 DEF Gate!SegmentCovered, RegionsOf
  <2>4. Gate!InBox(w[1], atlas[k])
    BY <2>1, <2>3, AtlasFields, FirstPart
  <2>5. k \in Ways(atlas, w[1])
    BY <2>4, WayStarts
  <2> QED
    BY <2>4, <2>5
<1>4. ASSUME NEW j \in Nat, j \in T
      PROVE  j + 1 \in T
  <2> SUFFICES ASSUME (j + 1) + 1 <= Len(w)
               PROVE  \E k \in Ways(atlas, w[1]) : Gate!InBox(w[(j + 1) + 1], atlas[k])
    OBVIOUS
  <2>1. PICK h \in Ways(atlas, w[1]) : Gate!InBox(w[j + 1], atlas[h])
    BY <1>1, <1>4
  <2>2. j + 1 \in 1..(Len(w) - 1) /\ j + 1 \in 1..Len(w) /\ (j + 1) + 1 \in 1..Len(w)
    BY <1>1
  <2>3. /\ Gate!SegmentCovered(w[j + 1], w[(j + 1) + 1], RegionsOf(atlas))
        /\ w[j + 1] \in Points /\ w[(j + 1) + 1] \in Points
    BY <1>1, <1>2, <2>2
  <2> QED
    BY <2>1, <2>3, SegmentGoesOn
<1>5. Len(w) - 1 \in T
  <2> HIDE DEF T
  <2>1. Nat \subseteq T
    BY <1>3, <1>4, EveryNumber
  <2> QED
    BY <1>1, <2>1
<1>6. PICK k \in Ways(atlas, w[1]) : Gate!InBox(w[Len(w)], atlas[k])
  <2>1. (Len(w) - 1) + 1 = Len(w)
    BY <1>1
  <2> QED
    BY <1>1, <1>5, <2>1
<1> QED
  BY <1>6, WayEnds

-----------------------------------------------------------------------------
(* A trajectory all of whose segments lie in a region each. *)
LEMMA HeldIsAudited ==
    ASSUME ShieldFits, NEW atlas \in AtlasType, NEW w \in Seq(Points),
           \A k \in 1..(Len(w) - 1) : \E j \in DOMAIN atlas :
               Gate!InBox(w[k], atlas[j]) /\ Gate!InBox(w[k + 1], atlas[j])
    PROVE  Gate!Audited(atlas, w)
<1> SUFFICES ASSUME NEW k \in 1..(Len(w) - 1)
             PROVE  Gate!SegmentCovered(w[k], w[k + 1], RegionsOf(atlas))
  BY DEF Gate!Audited, Gate!Certified, RegionsOf
<1> DEFINE p == w[k]
           q == w[k + 1]
           n == Gate!Parts(p, q)
<1>1. p \in Points /\ q \in Points
  OBVIOUS
<1>2. PICK j \in DOMAIN atlas : Gate!InBox(p, atlas[j]) /\ Gate!InBox(q, atlas[j])
  OBVIOUS
<1> HIDE DEF p, q
<1>3. Gate!PartsIn(p, q, atlas[j]) = 0..(n - 1)
  BY <1>1, <1>2, AtlasFields, BoxesAreConvex
<1>4. \A b : Gate!PartsIn(p, q, b) \subseteq 0..(n - 1)
  BY DEF Gate!PartsIn
<1>5. atlas[j] \in RegionsOf(atlas)
  BY <1>2 DEF RegionsOf
<1>6. UNION {Gate!PartsIn(p, q, b) : b \in RegionsOf(atlas)} = 0..(n - 1)
  BY <1>3, <1>4, <1>5
<1>7. Gate!SegmentCovered(p, q, RegionsOf(atlas))
  BY <1>6 DEF Gate!SegmentCovered
<1> QED
  BY <1>7 DEF p, q

(* The middle of what two boxes have in common lies in both. *)
LEMMA WitnessInBoth ==
    ASSUME NEW a \in BoxType, NEW b \in BoxType, Gate!Overlap(a, b, 0),
           \A i \in Gate!Axes : a.lower[i] <= a.upper[i] /\ b.lower[i] <= b.upper[i]
    PROVE  /\ Gate!Witness(a, b) \in Points
           /\ Gate!InBox(Gate!Witness(a, b), a) /\ Gate!InBox(Gate!Witness(a, b), b)
<1> DEFINE w == Gate!Witness(a, b)
<1>1. ASSUME NEW i \in Gate!Axes
      PROVE  /\ w[i] \in Int
             /\ a.lower[i] <= w[i] /\ w[i] <= a.upper[i] /\ b.lower[i] <= w[i] /\ w[i] <= b.upper[i]
  <2> DEFINE lo == Gate!MaxOf(a.lower[i], b.lower[i])
             hi == Gate!MinOf(a.upper[i], b.upper[i])
             m == (lo + hi) \div 2
  <2>1. /\ a.lower[i] \in Int /\ a.upper[i] \in Int /\ b.lower[i] \in Int /\ b.upper[i] \in Int
    BY DEF BoxType, Points
  <2>2. /\ a.lower[i] <= a.upper[i] /\ b.lower[i] <= b.upper[i]
        /\ a.lower[i] <= b.upper[i] + 0 /\ b.lower[i] <= a.upper[i] + 0
    BY DEF Gate!Overlap
  <2>3. /\ lo \in Int /\ hi \in Int /\ lo <= hi
        /\ a.lower[i] <= lo /\ b.lower[i] <= lo /\ hi <= a.upper[i] /\ hi <= b.upper[i]
    BY <2>1, <2>2 DEF Gate!MaxOf, Gate!MinOf
  <2>4. w[i] = m
    BY DEF Gate!Witness
  <2> HIDE DEF lo, hi, w
  <2>5. m \in Int /\ lo <= m /\ m <= hi
    BY <2>3
  <2> HIDE DEF m
  <2> QED
    BY <2>1, <2>3, <2>4, <2>5
<1>2. w \in Points
  <2>1. w = [i \in Gate!Axes |-> w[i]]
    BY DEF Gate!Witness
  <2> HIDE DEF w
  <2> QED
    BY <1>1, <2>1 DEF Points
<1> QED
  BY <1>1, <1>2 DEF Gate!InBox

(* route(): from p to q, within the regions of the Atlas. *)
LEMMA RoutesAreAudited ==
    ASSUME ShieldFits, NEW atlas \in AtlasType, NEW p \in Points, NEW q \in Points,
           NEW route \in Gate!Routes(atlas, p, q)
    PROVE  /\ route \in Seq(Points) /\ Len(route) >= 2 /\ route[1] = p /\ route[Len(route)] = q
           /\ Gate!Audited(atlas, route) /\ Gate!Connected(atlas, p, q)
<1>1. PICK s \in Gate!Chains(atlas, p, q) : route = Gate!Waypoints(atlas, s, p, q)
  BY DEF Gate!Routes
<1>2. PICK n \in Nat \ {0} : /\ s \in [1..n -> DOMAIN atlas] /\ Path(atlas, p, n, s)
                             /\ Gate!InBox(q, atlas[s[n]])
  BY ChainIsPath
<1> DEFINE mid == [k \in 1..(n - 1) |-> Gate!Witness(atlas[s[k]], atlas[s[k + 1]])]
<1>3. ASSUME NEW k \in 1..(n - 1)
      PROVE  /\ mid[k] \in Points
             /\ Gate!InBox(mid[k], atlas[s[k]]) /\ Gate!InBox(mid[k], atlas[s[k + 1]])
  <2>1. k \in 1..n /\ k + 1 \in 1..n
    OBVIOUS
  <2>2. s[k] \in DOMAIN atlas /\ s[k + 1] \in DOMAIN atlas
    BY <1>2, <2>1
  <2>3. Gate!Overlap(atlas[s[k]], atlas[s[k + 1]], 0)
    BY <1>2 DEF Path, Gate!CertifiedNeighbours
  <2>4. mid[k] = Gate!Witness(atlas[s[k]], atlas[s[k + 1]])
    OBVIOUS
  <2> HIDE DEF mid
  <2> QED
    BY <2>2, <2>3, <2>4, AtlasFields, WitnessInBoth
<1>4. Len(s) = n
  BY <1>2
<1>5. route = <<p>> \o mid \o <<q>>
  BY <1>1, <1>4 DEF Gate!Waypoints
<1> HIDE DEF mid
<1>6. mid \in Seq(Points) /\ Len(mid) = n - 1
  <2>1. mid = [k \in 1..(n - 1) |-> mid[k]]
    BY DEF mid
  <2>2. mid \in [1..(n - 1) -> Points]
    BY <1>3, <2>1
  <2> QED
    BY <2>2
<1>7. /\ route \in Seq(Points) /\ Len(route) = n + 1 /\ route[1] = p /\ route[n + 1] = q
      /\ \A k \in 2..n : route[k] = mid[k - 1]
  BY <1>5, <1>6
<1>8. ASSUME NEW k \in 1..n
      PROVE  Gate!InBox(route[k], atlas[s[k]]) /\ Gate!InBox(route[k + 1], atlas[s[k]])
  <2>1. Gate!InBox(route[k], atlas[s[k]])
    <3>1. CASE k = 1
      BY <3>1, <1>2, <1>7 DEF Path
    <3>2. CASE k # 1
      <4>1. k - 1 \in 1..(n - 1) /\ k \in 2..n /\ (k - 1) + 1 = k
        BY <3>2
      <4> QED
        BY <4>1, <1>3, <1>7
    <3> QED
      BY <3>1, <3>2
  <2>2. Gate!InBox(route[k + 1], atlas[s[k]])
    <3>1. CASE k = n
      BY <3>1, <1>2, <1>7
    <3>2. CASE k # n
      <4>1. k \in 1..(n - 1) /\ k + 1 \in 2..n /\ (k + 1) - 1 = k
        BY <3>2
      <4> QED
        BY <4>1, <1>3, <1>7
    <3> QED
      BY <3>1, <3>2
  <2> QED
    BY <2>1, <2>2
<1>9. Gate!Audited(atlas, route)
  <2>1. ASSUME NEW k \in 1..(Len(route) - 1)
        PROVE  \E j \in DOMAIN atlas : Gate!InBox(route[k], atlas[j]) /\ Gate!InBox(route[k + 1], atlas[j])
    <3>1. k \in 1..n
      BY <1>7
    <3>2. s[k] \in DOMAIN atlas
      BY <1>2, <3>1
    <3> QED
      BY <1>8, <3>1, <3>2
  <2> QED
    BY <1>7, <2>1, HeldIsAudited
<1> QED
  BY <1>1, <1>7, <1>9 DEF Gate!Connected

-----------------------------------------------------------------------------
(* append_route(), one waypoint after the other. *)
Steps(f, output, route) ==
    /\ f \in [0..Len(route) -> Seq(Points)]
    /\ f[0] = output
    /\ \A k \in 1..Len(route) : f[k] = Gate!Append1(f[k - 1], route[k])

Last(n) == [s \in SUBSET (1..n) |-> Gate!Max(s)]

(* FoldLeft takes the last of the waypoints left.                            *)
LEMMA GreatestIs ==
    ASSUME NEW n \in Nat, NEW s \in SUBSET (1..n), s # {}
    PROVE  Gate!Max(s) \in s /\ \A x \in s : x <= Gate!Max(s)
<1> DEFINE N == {n - x : x \in s}
<1>0. \A x \in s : x \in Int /\ 1 <= x /\ x <= n
  OBVIOUS
<1>1. N \subseteq Nat /\ N # {}
  <2>1. \A x \in s : n - x \in Nat
    BY <1>0
  <2> QED
    BY <2>1
<1>2. PICK m \in N : \A j \in N : m <= j
  <2> HIDE DEF N
  <2> QED
    BY <1>1, LeastExists
<1>3. PICK x \in s : m = n - x
  BY <1>2
<1>4. \A y \in s : x >= y
  <2> SUFFICES ASSUME NEW y \in s PROVE x >= y
    OBVIOUS
  <2>1. n - x <= n - y
    BY <1>2, <1>3
  <2> QED
    BY <1>0, <2>1
<1>5. Gate!Max(s) = CHOOSE x1 \in s : \A y \in s : x1 >= y
  BY DEF Gate!Max
<1> HIDE DEF N
<1>6. Gate!Max(s) \in s /\ \A y \in s : Gate!Max(s) >= y
  BY <1>3, <1>4, <1>5
<1> QED
  BY <1>0, <1>6

LEMMA LastTakes == ASSUME NEW n \in Nat PROVE Takes(Last(n), 1..n)
BY GreatestIs DEF Takes, Last

(* Appended() is such a fold.                                                *)
LEMMA AppendedSteps ==
    ASSUME NEW output \in Seq(Points), NEW route \in Seq(Points)
    PROVE  \E f : Steps(f, output, route) /\ f[Len(route)] = Gate!Appended(output, route)
<1> DEFINE n == Len(route)
           S == 1..n
           V == Seq(Points)
           c == Last(n)
           g == [i \in S |-> [z \in V |-> Gate!Append1(z, route[i])]]
           Solves(f) == f = [s \in SUBSET S |-> IF s = {} THEN output
                                ELSE Gate!Append1(f[s \ {Gate!Max(s)}], route[Gate!Max(s)])]
           iter == CHOOSE f : Solves(f)
<1>1. n \in Nat /\ \A i \in S : route[i] \in Points
  OBVIOUS
<1>2. g \in [S -> [V -> V]]
  <2> SUFFICES ASSUME NEW i \in S, NEW z \in V PROVE Gate!Append1(z, route[i]) \in V
    OBVIOUS
  <2> QED
    BY <1>1 DEF Gate!Append1
<1>3. DOMAIN route = S
  OBVIOUS
<1>4. Gate!Appended(output, route) = iter[S]
  BY <1>3 DEF Gate!Appended, Gate!FoldLeft, Gate!MapThenFoldSet
<1>5. PICK h \in [SUBSET S -> V] : \A s \in SUBSET S : h[s] = IF s = {} THEN output ELSE g[c[s]][h[s \ {c[s]}]]
  <2> HIDE DEF g
  <2>1. IsFiniteSet(S) /\ Takes(c, S) /\ output \in V
    BY <1>1, FS_Interval, LastTakes
  <2> HIDE DEF V, S, c, iter, Solves
  <2>2. Folds(S, c, V, output, g)
    BY <1>2, <2>1, SubsetsRecur
  <2> QED
    BY <2>2 DEF Folds
<1>6. ASSUME NEW s \in SUBSET S, s # {}
      PROVE  c[s] = Gate!Max(s) /\ c[s] \in s /\ \A x \in s : x <= c[s]
  BY <1>1, <1>6, GreatestIs DEF Last
<1>7. Solves(h)
  <2>1. ASSUME NEW s \in SUBSET S
        PROVE  h[s] = IF s = {} THEN output ELSE Gate!Append1(h[s \ {Gate!Max(s)}], route[Gate!Max(s)])
    <3>1. CASE s = {}
      BY <3>1, <1>5
    <3>2. CASE s # {}
      <4>1. c[s] = Gate!Max(s) /\ c[s] \in S /\ s \ {c[s]} \in SUBSET S
        BY <3>2, <1>6
      <4>2. h[s] = g[c[s]][h[s \ {c[s]}]] /\ h[s \ {c[s]}] \in V
        BY <3>2, <1>5, <4>1
      <4> HIDE DEF c
      <4> QED
        BY <3>2, <4>1, <4>2
    <3> QED
      BY <3>1, <3>2
  <2>2. h = [s \in SUBSET S |-> h[s]]
    OBVIOUS
  <2> QED
    BY <2>1, <2>2
<1>8. Solves(iter)
  <2> HIDE DEF Solves
  <2> QED
    BY <1>7
<1>9. \A s \in SUBSET S : iter[s] = IF s = {} THEN output ELSE Gate!Append1(iter[s \ {Gate!Max(s)}], route[Gate!Max(s)])
  BY <1>8
<1> HIDE DEF iter, Solves, g
<1> DEFINE f == [k \in 0..n |-> iter[1..k]]
<1>10. ASSUME NEW k \in 1..n
       PROVE  iter[1..k] = Gate!Append1(iter[1..(k - 1)], route[k])
  <2>1. 1..k \in SUBSET S /\ 1..k # {}
    OBVIOUS
  <2>2. Gate!Max(1..k) \in 1..k /\ \A x \in 1..k : x <= Gate!Max(1..k)
    BY <2>1, <1>1, GreatestIs
  <2>3. Gate!Max(1..k) = k
    BY <2>2
  <2>4. (1..k) \ {k} = 1..(k - 1)
    OBVIOUS
  <2> QED
    BY <1>9, <2>1, <2>3, <2>4
<1>11. f[0] = output
  <2>1. 1..0 = {} /\ {} \in SUBSET S
    OBVIOUS
  <2>2. iter[{}] = output
    BY <1>9, <2>1
  <2>3. f[0] = iter[1..0]
    BY <1>1
  <2> QED
    BY <2>1, <2>2, <2>3
<1>12. \A k \in 1..n : f[k] = Gate!Append1(f[k - 1], route[k])
  BY <1>10
<1>13. f[n] = iter[S]
  BY <1>1
<1> HIDE DEF f
<1>14. \A k \in 0..n : f[k] \in V
  <2> DEFINE T == {k \in Nat : k <= n => f[k] \in V}
  <2>1. 0 \in T
    BY <1>11
  <2>2. ASSUME NEW k \in Nat, k \in T
        PROVE  k + 1 \in T
    <3> SUFFICES ASSUME k + 1 <= n PROVE f[k + 1] \in V
      OBVIOUS
    <3>1. k + 1 \in 1..n /\ (k + 1) - 1 = k /\ f[k] \in V
      BY <1>1, <2>2
    <3>2. f[k + 1] = Gate!Append1(f[k], route[k + 1]) /\ route[k + 1] \in Points
      BY <1>1, <1>12, <3>1
    <3> QED
      BY <3>1, <3>2 DEF Gate!Append1
  <2> HIDE DEF T
  <2>3. Nat \subseteq T
    BY <2>1, <2>2, EveryNumber
  <2> QED
    BY <2>3 DEF T
<1>15. f \in [0..n -> V]
  <2>1. f = [k \in 0..n |-> f[k]]
    BY DEF f
  <2> QED
    BY <1>14, <2>1
<1> QED
  BY <1>4, <1>11, <1>12, <1>13, <1>15 DEF Steps

(* One waypoint is appended, or left out.                                    *)
LEMMA Append1Is ==
    ASSUME NEW w \in Seq(Points), w # <<>>, NEW p \in Points
    PROVE  /\ Gate!Append1(w, p) = (IF w[Len(w)] = p THEN w ELSE Append(w, p))
           /\ Gate!Append1(w, p) \in Seq(Points) /\ Gate!Append1(w, p) # <<>>
           /\ Gate!Append1(w, p)[1] = w[1]
           /\ Gate!Append1(w, p)[Len(Gate!Append1(w, p))] = p
<1>1. Gate!Append1(w, p) = (IF w[Len(w)] = p THEN w ELSE Append(w, p))
  BY DEF Gate!Append1
<1>2. /\ Append(w, p) \in Seq(Points) /\ Append(w, p) # <<>> /\ Append(w, p)[1] = w[1]
      /\ Append(w, p)[Len(Append(w, p))] = p
  OBVIOUS
<1> QED
  BY <1>1, <1>2

(* An output is never empty.                                                 *)
LEMMA AppendedGrows ==
    ASSUME NEW output \in Seq(Points), output # <<>>, NEW route \in Seq(Points)
    PROVE  Gate!Appended(output, route) \in Seq(Points) /\ Gate!Appended(output, route) # <<>>
<1>1. PICK f : Steps(f, output, route) /\ f[Len(route)] = Gate!Appended(output, route)
  BY AppendedSteps
<1> DEFINE T == {k \in Nat : k <= Len(route) => f[k] # <<>>}
<1>2. 0 \in T
  BY <1>1 DEF Steps
<1>3. ASSUME NEW k \in Nat, k \in T
      PROVE  k + 1 \in T
  <2> SUFFICES ASSUME k + 1 <= Len(route) PROVE f[k + 1] # <<>>
    OBVIOUS
  <2>1. k + 1 \in 1..Len(route) /\ k \in 0..Len(route) /\ (k + 1) - 1 = k
    OBVIOUS
  <2>2. f[k] \in Seq(Points) /\ f[k] # <<>> /\ route[k + 1] \in Points
    BY <1>1, <1>3, <2>1 DEF Steps
  <2>3. f[k + 1] = Gate!Append1(f[k], route[k + 1])
    BY <1>1, <2>1 DEF Steps
  <2> QED
    BY <2>2, <2>3, Append1Is
<1>4. Nat \subseteq T
  <2> HIDE DEF T
  <2> QED
    BY <1>2, <1>3, EveryNumber
<1> QED
  BY <1>1, <1>4 DEF Steps

(* A trajectory is audited, and one more segment after it. *)
LEMMA AuditGoesOn ==
    ASSUME NEW atlas, NEW w \in Seq(Points), w # <<>>, Gate!Audited(atlas, w), NEW p \in Points,
           Gate!SegmentCovered(w[Len(w)], p, RegionsOf(atlas))
    PROVE  Gate!Audited(atlas, Append(w, p))
<1> SUFFICES ASSUME NEW k \in 1..(Len(Append(w, p)) - 1)
             PROVE  Gate!SegmentCovered(Append(w, p)[k], Append(w, p)[k + 1], RegionsOf(atlas))
  BY DEF Gate!Audited, Gate!Certified, RegionsOf
<1>1. CASE k = Len(w)
  <2>1. Append(w, p)[k] = w[Len(w)] /\ Append(w, p)[k + 1] = p
    BY <1>1
  <2> QED
    BY <2>1
<1>2. CASE k # Len(w)
  <2>1. Append(w, p)[k] = w[k] /\ Append(w, p)[k + 1] = w[k + 1] /\ k \in 1..(Len(w) - 1)
    BY <1>2
  <2> QED
    BY <2>1 DEF Gate!Audited, Gate!Certified, RegionsOf
<1> QED
  BY <1>1, <1>2

(* A route that starts where the output ends. *)
LEMMA AppendedIsAudited ==
    ASSUME NEW atlas, NEW output \in Seq(Points), output # <<>>, Gate!Audited(atlas, output),
           NEW route \in Seq(Points), route # <<>>, Gate!Audited(atlas, route),
           route[1] = output[Len(output)]
    PROVE  LET w == Gate!Appended(output, route) IN
           /\ w \in Seq(Points) /\ w # <<>> /\ w[1] = output[1] /\ w[Len(w)] = route[Len(route)]
           /\ Gate!Audited(atlas, w)
<1>1. PICK f : Steps(f, output, route) /\ f[Len(route)] = Gate!Appended(output, route)
  BY AppendedSteps
<1> DEFINE Fits(k) == /\ f[k] # <<>> /\ f[k][1] = output[1] /\ f[k][Len(f[k])] = route[k]
                      /\ Gate!Audited(atlas, f[k])
           T == {k \in Nat : k + 1 <= Len(route) => Fits(k + 1)}
<1>2. 0 \in T
  <2>1. 1 \in 1..Len(route) /\ route[1] \in Points /\ Len(route) \in Nat
    OBVIOUS
  <2>2. f[1] = Gate!Append1(output, route[1])
    <3>1. f[1] = Gate!Append1(f[1 - 1], route[1]) /\ f[0] = output
      BY <1>1, <2>1 DEF Steps
    <3> QED
      BY <3>1
  <2>3. f[1] = output
    BY <2>1, <2>2, Append1Is
  <2> QED
    BY <2>3
<1>3. ASSUME NEW k \in Nat, k \in T
      PROVE  k + 1 \in T
  <2> SUFFICES ASSUME (k + 1) + 1 <= Len(route)
               PROVE  Fits((k + 1) + 1)
    OBVIOUS
  <2>1. /\ (k + 1) + 1 \in 1..Len(route) /\ k + 1 \in 0..Len(route) /\ k + 1 \in 1..(Len(route) - 1)
        /\ ((k + 1) + 1) - 1 = k + 1
    OBVIOUS
  <2> DEFINE p == route[(k + 1) + 1]
  <2>2. Fits(k + 1) /\ f[k + 1] \in Seq(Points) /\ p \in Points
    <3>1. Fits(k + 1)
      BY <1>3, <2>1
    <3>2. f[k + 1] \in Seq(Points)
      BY <1>1, <2>1 DEF Steps
    <3>3. p \in Points
      BY <2>1
    <3> QED
      BY <3>1, <3>2, <3>3
  <2>3. f[(k + 1) + 1] = Gate!Append1(f[k + 1], p)
    BY <1>1, <2>1 DEF Steps
  <2>4. Gate!SegmentCovered(route[k + 1], p, RegionsOf(atlas))
    BY <2>1 DEF Gate!Audited, Gate!Certified, RegionsOf
  <2> DEFINE z == f[k + 1]
             y == f[(k + 1) + 1]
  <2> HIDE DEF p, z, y
  <2>5. /\ z \in Seq(Points) /\ z # <<>> /\ z[1] = output[1] /\ Gate!Audited(atlas, z)
        /\ Gate!SegmentCovered(z[Len(z)], p, RegionsOf(atlas)) /\ y = Gate!Append1(z, p) /\ p \in Points
    BY <2>2, <2>3, <2>4 DEF z, y
  <2>6. Gate!Audited(atlas, Append(z, p))
    BY <2>5, AuditGoesOn
  <2>7. Gate!Audited(atlas, y) /\ y # <<>> /\ y[1] = output[1] /\ y[Len(y)] = p
    BY <2>5, <2>6, Append1Is
  <2> QED
    BY <2>7 DEF p, y
<1>4. Nat \subseteq T
  <2> HIDE DEF T
  <2> QED
    BY <1>2, <1>3, EveryNumber
<1>5. Len(route) - 1 \in Nat /\ (Len(route) - 1) + 1 = Len(route)
  OBVIOUS
<1>6. Fits(Len(route))
  BY <1>4, <1>5
<1> QED
  BY <1>1, <1>6, AppendedGrows

(* A trajectory has two waypoints or more, the same twice if need be.        *)
LEMMA ClosedIs ==
    ASSUME NEW w \in Seq(Points), w # <<>>
    PROVE  /\ Gate!Closed(w) \in Seq(Points) /\ Len(Gate!Closed(w)) >= 2
           /\ Gate!Closed(w)[1] = w[1]
           /\ IF Len(w) = 1 THEN Len(Gate!Closed(w)) = 2 /\ Gate!Closed(w)[2] = w[1] ELSE Gate!Closed(w) = w
<1>0. Len(w) \in Nat \ {0}
  OBVIOUS
<1>1. CASE Len(w) = 1
  <2>1. w \o w \in Seq(Points) /\ Len(w \o w) = 2 /\ (w \o w)[1] = w[1] /\ (w \o w)[2] = w[1]
    <3>1. w \o w \in Seq(Points) /\ Len(w \o w) = Len(w) + Len(w)
      OBVIOUS
    <3>2. \A k \in 1..(Len(w) + Len(w)) :
             (w \o w)[k] = IF k <= Len(w) THEN w[k] ELSE w[k - Len(w)]
      OBVIOUS
    <3>3. (w \o w)[1] = w[1] /\ (w \o w)[2] = w[2 - 1]
      BY <1>1, <3>2
    <3> QED
      BY <1>1, <3>1, <3>3
  <2>2. Gate!Closed(w) = w \o w
    BY <1>1 DEF Gate!Closed
  <2> QED
    BY <1>1, <2>1, <2>2
<1>2. CASE Len(w) # 1
  <2>1. Gate!Closed(w) = w /\ Len(w) >= 2
    BY <1>0, <1>2 DEF Gate!Closed
  <2> QED
    BY <1>2, <2>1
<1> QED
  BY <1>1, <1>2

(* A stop in a region is covered.                                            *)
LEMMA ClosedIsAudited ==
    ASSUME ShieldFits, NEW atlas \in AtlasType, NEW w \in Seq(Points), w # <<>>,
           Gate!Audited(atlas, w), Gate!AtlasContains(atlas, w[1])
    PROVE  Gate!Audited(atlas, Gate!Closed(w))
<1>1. CASE Len(w) = 1
  <2>1. PICK j \in DOMAIN atlas : Gate!InBox(w[1], atlas[j])
    BY DEF Gate!AtlasContains, Gate!At
  <2> DEFINE v == Gate!Closed(w)
  <2>2. v \in Seq(Points) /\ Len(v) = 2 /\ v[1] = w[1] /\ v[2] = w[1]
    BY <1>1, ClosedIs
  <2> HIDE DEF v
  <2>3. \A k \in 1..(Len(v) - 1) : v[k] = w[1] /\ v[k + 1] = w[1]
    BY <2>2
  <2>4. Gate!Audited(atlas, v)
    BY <2>1, <2>2, <2>3, HeldIsAudited
  <2> QED
    BY <2>4 DEF v
<1>2. CASE Len(w) # 1
  BY <1>2, ClosedIs
<1> QED
  BY <1>1, <1>2

-----------------------------------------------------------------------------
(* Distance() is a sum of gaps, none of them negative.                       *)
LEMMA DistanceIsNumber ==
    ASSUME ShieldFits, NEW p \in Points, NEW q \in Points
    PROVE  Gate!Distance(p, q) \in Nat
<1> DEFINE S == Gate!Axes
           gap(i) == Gate!Abs(p[i] - q[i])
           g == [i \in S |-> [n \in Nat |-> n + gap(i)]]
           Solves(f) == f = [s \in SUBSET S |-> IF s = {} THEN 0
                                ELSE f[s \ {CHOOSE x \in s : TRUE}] + gap(CHOOSE x \in s : TRUE)]
           iter == CHOOSE f : Solves(f)
<1>1. \A i \in S : gap(i) \in Nat
  <2>1. \A i \in S : p[i] \in Int /\ q[i] \in Int
    BY DEF Points
  <2> QED
    BY <2>1 DEF Gate!Abs
<1>2. Gate!Distance(p, q) = iter[S]
  BY DEF Gate!Distance, Gate!FoldSet, Gate!MapThenFoldSet
<1> HIDE DEF gap
<1>3. g \in [S -> [Nat -> Nat]]
  BY <1>1
<1>4. PICK h \in [SUBSET S -> Nat] : \A s \in SUBSET S : h[s] = IF s = {} THEN 0 ELSE g[First[s]][h[s \ {First[s]}]]
  <2> HIDE DEF g
  <2>1. IsFiniteSet(S) /\ Takes(First, S)
    BY FirstTakes DEF ShieldFits
  <2> HIDE DEF S, iter, Solves
  <2>2. Folds(S, First, Nat, 0, g)
    BY <1>3, <2>1, SubsetsRecur
  <2> QED
    BY <2>2 DEF Folds
<1>5. \A f : Solves(f) <=> /\ f = [s \in SUBSET S |-> f[s]]
                           /\ \A s \in SUBSET S : f[s] = IF s = {} THEN 0 ELSE f[s \ {First[s]}] + gap(First[s])
  BY DEF First
<1>6. Solves(h)
  <2>1. \A s \in SUBSET S : s # {} => First[s] \in S /\ s \ {First[s]} \in SUBSET S
    BY FirstTakes DEF Takes
  <2>2. \A s \in SUBSET S : h[s] = IF s = {} THEN 0 ELSE h[s \ {First[s]}] + gap(First[s])
    BY <1>4, <2>1
  <2>3. h = [s \in SUBSET S |-> h[s]]
    OBVIOUS
  <2> HIDE DEF Solves
  <2> QED
    BY <1>5, <2>2, <2>3
<1>7. Solves(iter)
  <2> HIDE DEF Solves
  <2> QED
    BY <1>6
<1>8. \A s \in SUBSET S : iter[s] = IF s = {} THEN 0 ELSE iter[s \ {First[s]}] + gap(First[s])
  BY <1>5, <1>7
<1> HIDE DEF iter, Solves
<1> DEFINE T == {s \in SUBSET S : iter[s] \in Nat}
<1>9. {} \in T
  <2>1. {} \in SUBSET S /\ iter[{}] = 0
    BY <1>8
  <2> QED
    BY <2>1
<1>10. ASSUME NEW s \in SUBSET S, s # {}, s \ {First[s]} \in T
       PROVE  s \in T
  <2>1. First[s] \in S
    BY <1>10, FirstTakes DEF Takes
  <2>2. iter[s] = iter[s \ {First[s]}] + gap(First[s])
    BY <1>8, <1>10
  <2> QED
    BY <1>1, <1>10, <2>1, <2>2
<1>11. SUBSET S \subseteq T
  <2> HIDE DEF T
  <2> QED
    BY <1>9, <1>10, FirstTakes, EverySubset DEF ShieldFits
<1> QED
  BY <1>2, <1>11

(* connected_components(): some regions, those that the search starts from   *)
(* among them.                                                               *)
LEMMA SpreadIs ==
    ASSUME NEW atlas \in AtlasType, NEW from \in SUBSET DOMAIN atlas
    PROVE  from \subseteq Gate!Spread(atlas, from) /\ Gate!Spread(atlas, from) \subseteq DOMAIN atlas
<1> DEFINE V == SUBSET DOMAIN atlas
           more(z) == z \cup UNION {Gate!Adjacent(atlas, k) : k \in z}
           g == [n \in Nat |-> [z \in V |-> more(z)]]
           Solves(f) == f = [n \in Nat |-> IF n = 0 THEN from ELSE more(f[n - 1])]
           grown == CHOOSE f : Solves(f)
<1>1. \A z \in V : more(z) \in V
  BY DEF Gate!Adjacent
<1>2. Gate!Spread(atlas, from) = grown[Len(atlas)]
  BY DEF Gate!Spread
<1>3. \A z : z \subseteq more(z)
  OBVIOUS
<1> HIDE DEF more
<1>4. g \in [Nat -> [V -> V]]
  BY <1>1
<1>5. PICK h \in [Nat -> V] : h[0] = from /\ \A n \in Nat : h[n + 1] = g[n][h[n]]
  <2> HIDE DEF V, g
  <2>1. from \in V
    BY DEF V
  <2>2. Recurs(V, from, g)
    BY <1>4, <2>1, NumbersRecur
  <2> QED
    BY <2>2 DEF Recurs
<1>6. Solves(h)
  <2>1. ASSUME NEW n \in Nat PROVE h[n] = IF n = 0 THEN from ELSE more(h[n - 1])
    <3>1. CASE n = 0
      BY <3>1, <1>5
    <3>2. CASE n # 0
      <4>1. n - 1 \in Nat /\ (n - 1) + 1 = n
        BY <3>2
      <4>2. h[n] = g[n - 1][h[n - 1]] /\ h[n - 1] \in V
        BY <1>5, <4>1
      <4> QED
        BY <3>2, <4>1, <4>2
    <3> QED
      BY <3>1, <3>2
  <2>2. h = [n \in Nat |-> h[n]]
    OBVIOUS
  <2> QED
    BY <2>1, <2>2
<1>7. Solves(grown)
  <2> HIDE DEF Solves
  <2> QED
    BY <1>6
<1>8. \A n \in Nat : grown[n] = IF n = 0 THEN from ELSE more(grown[n - 1])
  BY <1>7
<1> HIDE DEF grown, Solves
<1> DEFINE T == {n \in Nat : from \subseteq grown[n] /\ grown[n] \in V}
<1>9. 0 \in T
  BY <1>8
<1>10. ASSUME NEW n \in Nat, n \in T
       PROVE  n + 1 \in T
  <2>1. grown[n + 1] = more(grown[n])
    <3>1. grown[n + 1] = IF n + 1 = 0 THEN from ELSE more(grown[(n + 1) - 1])
      BY <1>8
    <3> QED
      BY <3>1
  <2> QED
    BY <1>1, <1>3, <1>10, <2>1
<1>11. Nat \subseteq T
  <2> HIDE DEF T
  <2> QED
    BY <1>9, <1>10, EveryNumber
<1>12. Len(atlas) \in Nat
  BY AtlasFields
<1> QED
  BY <1>2, <1>11, <1>12

(* project_to_reachable_region(): a configuration of the nearest region. *)
LEMMA ProjectedIsPoint ==
    ASSUME ShieldFits, NEW atlas \in AtlasType, NEW current, Gate!AtlasContains(atlas, current),
           NEW p \in Points
    PROVE  Gate!Projected(atlas, current, p) \in Points
<1> DEFINE R == Gate!Reachable(atlas, current)
           gap(k) == Gate!Distance(p, Gate!Clamp(p, atlas[k]))
           N == {gap(k) : k \in R}
<1>1. R # {} /\ R \subseteq DOMAIN atlas
  <2>1. Gate!At(atlas, current) \in SUBSET DOMAIN atlas /\ Gate!At(atlas, current) # {}
    BY DEF Gate!At, Gate!AtlasContains
  <2> QED
    BY <2>1, SpreadIs DEF Gate!Reachable
<1>2. ASSUME NEW k \in DOMAIN atlas
      PROVE  Gate!Clamp(p, atlas[k]) \in Points
  <2>1. ASSUME NEW i \in Gate!Axes
        PROVE  Gate!MaxOf(atlas[k].lower[i], Gate!MinOf(p[i], atlas[k].upper[i])) \in Int
    <3>1. p[i] \in Int /\ atlas[k].lower[i] \in Int /\ atlas[k].upper[i] \in Int
      BY AtlasFields DEF Points
    <3> QED
      BY <3>1 DEF Gate!MaxOf, Gate!MinOf
  <2> QED
    BY <2>1 DEF Gate!Clamp, Points
<1>3. Gate!Nearest(atlas, current, p) =
         CHOOSE k \in R : \A n \in R : gap(k) < gap(n) \/ (gap(k) = gap(n) /\ k <= n)
  BY DEF Gate!Nearest
<1>4. \A k \in R : gap(k) \in Nat
  BY <1>1, <1>2, DistanceIsNumber
<1>5. \A k \in R : k \in Nat
  <2>1. DOMAIN atlas = 1..Len(atlas) /\ Len(atlas) \in Nat
    BY AtlasFields
  <2> QED
    BY <1>1, <2>1
<1>6. Gate!Projected(atlas, current, p) = Gate!Clamp(p, atlas[Gate!Nearest(atlas, current, p)])
  BY DEF Gate!Projected
<1> HIDE DEF R, gap
<1>7. PICK m \in N : \A y \in N : m <= y
  <2>1. N \subseteq Nat /\ N # {}
    BY <1>1, <1>4
  <2> HIDE DEF N
  <2> QED
    BY <2>1, LeastExists
<1> DEFINE M == {k \in R : gap(k) = m}
<1>8. PICK k \in M : \A y \in M : k <= y
  <2>1. M \subseteq Nat /\ M # {}
    BY <1>5, <1>7
  <2> HIDE DEF M
  <2> QED
    BY <2>1, LeastExists
<1>9. k \in R /\ \A n \in R : gap(k) < gap(n) \/ (gap(k) = gap(n) /\ k <= n)
  <2>1. k \in R /\ gap(k) = m
    BY <1>8
  <2>2. ASSUME NEW n \in R PROVE gap(k) < gap(n) \/ (gap(k) = gap(n) /\ k <= n)
    <3>1. m <= gap(n)
      BY <1>7
    <3>2. CASE m = gap(n)
      BY <3>2, <1>8, <2>1
    <3>3. CASE m # gap(n)
      BY <3>1, <3>3, <1>4, <2>1
    <3> QED
      BY <3>2, <3>3
  <2> QED
    BY <2>1, <2>2
<1>10. Gate!Nearest(atlas, current, p) \in R
  BY <1>3, <1>9
<1> QED
  BY <1>1, <1>2, <1>6, <1>10

-----------------------------------------------------------------------------
(* An output of a repair: audited, from current to p. *)
Output(atlas, w, current, p) ==
    w \in Seq(Points) /\ w # <<>> /\ w[1] = current /\ w[Len(w)] = p /\ Gate!Audited(atlas, w)

(* A repair goes from target to target. *)
LEMMA VisitsAreAudited ==
    ASSUME ShieldFits, NEW atlas \in AtlasType, NEW current \in Points,
           NEW targets, NEW n \in Nat, targets \in [1..n -> Points],
           NEW w \in Gate!Visits(atlas, current, targets)
    PROVE  w \in Seq(Points) /\ w # <<>> /\ w[1] = current /\ Gate!Audited(atlas, w)
<1> DEFINE W == SUBSET (Seq(Points) \ {<<>>})
           from(k) == IF k = 1 THEN current ELSE targets[k - 1]
           onward(X, k) == {Gate!Appended(output, route) :
                               output \in X, route \in Gate!Routes(atlas, from(k), targets[k])}
           g == [k \in Nat |-> [X \in W |-> IF k + 1 \in 1..n THEN onward(X, k + 1) ELSE X]]
           Solves(f) == f = [k \in 0..n |-> IF k = 0 THEN {<<current>>} ELSE onward(f[k - 1], k)]
           reach == CHOOSE f : Solves(f)
<1>1. Len(targets) = n
  OBVIOUS
<1>2. w \in reach[n]
  BY <1>1 DEF Gate!Visits
<1>3. \A k \in 1..n : from(k) \in Points /\ targets[k] \in Points
  OBVIOUS
<1>4. ASSUME NEW k \in 1..n, NEW route \in Gate!Routes(atlas, from(k), targets[k])
      PROVE  /\ route \in Seq(Points) /\ route # <<>> /\ route[1] = from(k)
             /\ route[Len(route)] = targets[k] /\ Gate!Audited(atlas, route)
  <2>1. /\ route \in Seq(Points) /\ Len(route) >= 2 /\ route[1] = from(k)
        /\ route[Len(route)] = targets[k] /\ Gate!Audited(atlas, route)
    <3> HIDE DEF from
    <3> QED
      BY <1>3, RoutesAreAudited
  <2>2. route # <<>>
    BY <2>1
  <2> QED
    BY <2>1, <2>2
<1>5. ASSUME NEW k \in 1..n, NEW X, \A x \in X : Output(atlas, x, current, from(k)),
             NEW y \in onward(X, k)
      PROVE  Output(atlas, y, current, targets[k])
  <2>1. PICK x \in X, route \in Gate!Routes(atlas, from(k), targets[k]) : y = Gate!Appended(x, route)
    BY <1>5
  <2>2. Output(atlas, x, current, from(k))
    BY <1>5, <2>1
  <2> HIDE DEF from
  <2> QED
    BY <1>4, <2>1, <2>2, AppendedIsAudited DEF Output
<1>6. ASSUME NEW k \in 1..n, NEW X \in W
      PROVE  onward(X, k) \in W
  <2> SUFFICES ASSUME NEW x \in X, NEW route \in Gate!Routes(atlas, from(k), targets[k])
               PROVE  Gate!Appended(x, route) \in Seq(Points) \ {<<>>}
    OBVIOUS
  <2>1. x \in Seq(Points) /\ x # <<>>
    OBVIOUS
  <2>2. route \in Seq(Points)
    BY <1>4
  <2> QED
    BY <2>1, <2>2, AppendedGrows
<1> HIDE DEF onward
<1>7. g \in [Nat -> [W -> W]]
  BY <1>6
<1>8. PICK h \in [Nat -> W] : h[0] = {<<current>>} /\ \A k \in Nat : h[k + 1] = g[k][h[k]]
  <2>1. {<<current>>} \in W
    OBVIOUS
  <2> HIDE DEF g, W
  <2>2. Recurs(W, {<<current>>}, g)
    BY <1>7, <2>1, NumbersRecur
  <2> QED
    BY <2>2 DEF Recurs
<1>9. \A k \in Nat : k + 1 \in 1..n => h[k + 1] = onward(h[k], k + 1)
  BY <1>8
<1> DEFINE z == [k \in 0..n |-> h[k]]
<1>10. Solves(z)
  <2> SUFFICES ASSUME NEW k \in 0..n
               PROVE  z[k] = IF k = 0 THEN {<<current>>} ELSE onward(z[k - 1], k)
    OBVIOUS
  <2>1. CASE k = 0
    BY <2>1, <1>8
  <2>2. CASE k # 0
    <3>1. k - 1 \in Nat /\ k - 1 \in 0..n /\ (k - 1) + 1 = k /\ k \in 1..n
      BY <2>2
    <3>2. h[k] = onward(h[k - 1], k)
      BY <1>9, <3>1
    <3> QED
      BY <2>2, <3>1, <3>2
  <2> QED
    BY <2>1, <2>2
<1>11. Solves(reach)
  <2> HIDE DEF Solves
  <2> QED
    BY <1>10
<1>12. reach[0] = {<<current>>} /\ \A k \in 1..n : reach[k] = onward(reach[k - 1], k)
  <2>1. \A k \in 0..n : reach[k] = IF k = 0 THEN {<<current>>} ELSE onward(reach[k - 1], k)
    BY <1>11
  <2> HIDE DEF reach, Solves, g, z, W
  <2>2. 0 \in 0..n /\ \A k \in 1..n : k \in 0..n /\ k # 0
    OBVIOUS
  <2> QED
    BY <2>1, <2>2
<1> HIDE DEF reach, Solves, g, z
<1> DEFINE at(k) == IF k = 0 THEN current ELSE targets[k]
           T == {k \in Nat : k <= n => \A x \in reach[k] : Output(atlas, x, current, at(k))}
<1>13. 0 \in T
  <2>1. /\ <<current>> \in Seq(Points) /\ <<current>> # <<>> /\ <<current>>[1] = current
        /\ <<current>>[Len(<<current>>)] = current /\ Gate!Audited(atlas, <<current>>)
    BY DEF Gate!Audited, Gate!Certified
  <2>2. Output(atlas, <<current>>, current, current)
    BY <2>1 DEF Output
  <2>3. at(0) = current /\ \A x \in reach[0] : x = <<current>>
    BY <1>12
  <2> HIDE DEF at
  <2>4. \A x \in reach[0] : Output(atlas, x, current, at(0))
    BY <2>2, <2>3, Zenon
  <2> QED
    BY <2>4
<1>14. ASSUME NEW k \in Nat, k \in T
       PROVE  k + 1 \in T
  <2> SUFFICES ASSUME k + 1 <= n, NEW x \in reach[k + 1]
               PROVE  Output(atlas, x, current, at(k + 1))
    OBVIOUS
  <2>1. k + 1 \in 1..n /\ (k + 1) - 1 = k /\ at(k + 1) = targets[k + 1] /\ from(k + 1) = at(k)
    OBVIOUS
  <2>2. x \in onward(reach[k], k + 1)
    BY <1>12, <2>1
  <2>3. \A y \in reach[k] : Output(atlas, y, current, from(k + 1))
    BY <1>14, <2>1
  <2> HIDE DEF at, from
  <2> QED
    BY <1>5, <2>1, <2>2, <2>3
<1>15. Nat \subseteq T
  <2> HIDE DEF T
  <2> QED
    BY <1>13, <1>14, EveryNumber
<1> QED
  BY <1>2, <1>15 DEF Output

(* certified_decision(): what it emits passes the audit, and its ends have a  *)
(* route.                                                                    *)
LEMMA OutputsAreCertified ==
    ASSUME ShieldFits, NEW atlas \in AtlasType, NEW w \in Seq(Points), w # <<>>,
           NEW outcome \in {"accept", "repair"}, NEW reason,
           Gate!Audited(atlas, Gate!Closed(w))
    PROVE  Gate!CertifiedDecision(atlas, outcome, reason, Gate!Closed(w)).outcome # "error"
<1> DEFINE v == Gate!Closed(w)
<1>1. v \in Seq(Points) /\ Len(v) >= 2 /\ Gate!Audited(atlas, v)
  BY ClosedIs
<1> HIDE DEF v
<1>2. Gate!Connected(atlas, v[1], v[Len(v)])
  BY <1>1, AuditedConnects
<1>3. Gate!CertifiedDecision(atlas, outcome, reason, v).outcome = outcome
  BY <1>1, <1>2 DEF Gate!CertifiedDecision, Gate!Decision
<1> QED
  BY <1>3 DEF v

(* check_joint() and check_trajectory() *)
LEMMA CheckedIsCertified ==
    ASSUME ShieldFits, NEW atlas \in AtlasType, NEW current \in Points, NEW waypoints \in Seq(Points),
           NEW d \in Gate!Checked(atlas, current, waypoints)
    PROVE  d.outcome # "error"
<1> DEFINE direct == Gate!Closed(Gate!Appended(<<current>>, waypoints))
           targets == [k \in DOMAIN waypoints |-> Gate!Projected(atlas, current, waypoints[k])]
<1>1. \/ \E reason : d = Gate!Reject(reason)
      \/ /\ Gate!Audited(atlas, direct)
         /\ d = Gate!CertifiedDecision(atlas, "accept", "Certified", direct)
      \/ /\ Gate!AtlasContains(atlas, current)
         /\ \E output \in Gate!Visits(atlas, current, targets) :
               d = Gate!CertifiedDecision(atlas, "repair", "Repaired", Gate!Closed(output))
  BY Zenon DEF Gate!Checked
<1>2. CASE \E reason : d = Gate!Reject(reason)
  BY <1>2 DEF Gate!Reject, Gate!Decision
<1>3. CASE /\ Gate!Audited(atlas, direct)
           /\ d = Gate!CertifiedDecision(atlas, "accept", "Certified", direct)
  <2>1. <<current>> \in Seq(Points) /\ <<current>> # <<>>
    OBVIOUS
  <2>2. Gate!Appended(<<current>>, waypoints) \in Seq(Points) /\ Gate!Appended(<<current>>, waypoints) # <<>>
    BY <2>1, AppendedGrows
  <2> QED
    BY <1>3, <2>2, OutputsAreCertified
<1>4. CASE /\ Gate!AtlasContains(atlas, current)
           /\ \E output \in Gate!Visits(atlas, current, targets) :
                 d = Gate!CertifiedDecision(atlas, "repair", "Repaired", Gate!Closed(output))
  <2>1. PICK output \in Gate!Visits(atlas, current, targets) :
           d = Gate!CertifiedDecision(atlas, "repair", "Repaired", Gate!Closed(output))
    BY <1>4
  <2>2. Len(waypoints) \in Nat /\ targets \in [1..Len(waypoints) -> Points]
    <3>1. \A k \in DOMAIN waypoints : Gate!Projected(atlas, current, waypoints[k]) \in Points
      BY <1>4, ProjectedIsPoint
    <3> QED
      BY <3>1
  <2> HIDE DEF targets
  <2>3. output \in Seq(Points) /\ output # <<>> /\ output[1] = current /\ Gate!Audited(atlas, output)
    BY <2>2, VisitsAreAudited
  <2>4. Gate!Audited(atlas, Gate!Closed(output))
    BY <1>4, <2>3, ClosedIsAudited
  <2> QED
    BY <2>1, <2>3, <2>4, OutputsAreCertified
<1> QED
  BY <1>1, <1>2, <1>3, <1>4

(* check_end_effector() *)
LEMMA CheckedPoseIsCertified ==
    ASSUME ShieldFits, NEW atlas \in AtlasType, NEW current \in Points, NEW solution \in Points,
           NEW d \in Gate!CheckedPose(atlas, current, solution)
    PROVE  d.outcome # "error"
<1>1. \/ \E reason : d = Gate!Reject(reason)
      \/ \E route \in Gate!Routes(atlas, current, solution) :
            d = Gate!CertifiedDecision(atlas, IF current = solution THEN "accept" ELSE "repair",
                                       "SafeIkRoute", route)
  BY Zenon DEF Gate!CheckedPose
<1>2. CASE \E reason : d = Gate!Reject(reason)
  BY <1>2 DEF Gate!Reject, Gate!Decision
<1>3. ASSUME NEW route \in Gate!Routes(atlas, current, solution), NEW outcome \in {"accept", "repair"},
             d = Gate!CertifiedDecision(atlas, outcome, "SafeIkRoute", route)
      PROVE  d.outcome # "error"
  <2>1. Gate!Audited(atlas, route) /\ Gate!Connected(atlas, route[1], route[Len(route)])
    BY RoutesAreAudited
  <2> QED
    BY <1>3, <2>1 DEF Gate!CertifiedDecision, Gate!Decision
<1>4. (IF current = solution THEN "accept" ELSE "repair") \in {"accept", "repair"}
  OBVIOUS
<1> QED
  BY <1>1, <1>2, <1>3, <1>4

-----------------------------------------------------------------------------
(* The Atlas a monitor has and the plan it follows.                          *)
ShieldInv ==
    /\ \A d \in decisions : d.outcome # "error"
    /\ \E atlas \in Atlases : \E active, last :
          /\ monitor = [atlas |-> atlas, active |-> active, last |-> last]
          /\ active # Gate!Nothing => Gate!Audited(atlas, active)

(* certified_decision(), arm(): see PlansAreCertified of RuntimeShield.       *)
THEOREM PlansAlwaysCertified == ShieldFits => (Gate!Spec => []Gate!PlansAreCertified)
<1> SUFFICES ASSUME ShieldFits PROVE Gate!Spec => []Gate!PlansAreCertified
  OBVIOUS
<1>1. Gate!Init => ShieldInv
  BY DEF Gate!Init, ShieldInv
<1>2. ASSUME ShieldInv, [Gate!Next]_Gate!vars PROVE ShieldInv'
  <2>1. PICK atlas \in Atlases : \E active, last :
           /\ monitor = [atlas |-> atlas, active |-> active, last |-> last]
           /\ active # Gate!Nothing => Gate!Audited(atlas, active)
    BY <1>2 DEF ShieldInv
  <2>2. PICK active, last :
           /\ monitor = [atlas |-> atlas, active |-> active, last |-> last]
           /\ active # Gate!Nothing => Gate!Audited(atlas, active)
    BY <2>1
  <2>3. ASSUME NEW own \in Atlases, NEW current \in Starts, Gate!CheckAction(own, current)
        PROVE  ShieldInv'
    <3>1. PICK d \in Gate!Answers[own][current] : decisions' = decisions \cup {d}
      BY <2>3 DEF Gate!CheckAction
    <3>2. own \in AtlasType /\ current \in Points
      BY DEF ShieldFits
    <3>3. d.outcome # "error"
      <4>1. \/ \E request \in Requests : d \in Gate!Checked(own, current, request)
            \/ \E solution \in Starts : d \in Gate!CheckedPose(own, current, solution)
        BY <3>1 DEF Gate!Answers
      <4>2. Requests \subseteq Seq(Points) /\ Starts \subseteq Points
        BY DEF ShieldFits
      <4> QED
        BY <3>2, <4>1, <4>2, CheckedIsCertified, CheckedPoseIsCertified
    <3>4. monitor' = monitor
      BY <2>3 DEF Gate!CheckAction
    <3> QED
      BY <1>2, <3>1, <3>3, <3>4 DEF ShieldInv
  <2>4. ASSUME NEW d \in decisions, Gate!Arm(d)
        PROVE  ShieldInv'
    <3>1. Gate!Audited(atlas, d.trajectory)
      BY <2>2, <2>4 DEF Gate!Arm, Gate!MayArm
    <3>2. monitor' = [atlas |-> atlas, active |-> d.trajectory, last |-> Gate!Never]
      BY <2>2, <2>4 DEF Gate!Arm
    <3>3. decisions' = decisions
      BY <2>4 DEF Gate!Arm
    <3> QED
      BY <1>2, <3>1, <3>2, <3>3 DEF ShieldInv
  <2>5. CASE Gate!Disarm
    <3>1. monitor' = [atlas |-> atlas, active |-> Gate!Nothing, last |-> Gate!Never]
      BY <2>2, <2>5 DEF Gate!Disarm
    <3>2. decisions' = decisions
      BY <2>5 DEF Gate!Disarm
    <3> QED
      BY <1>2, <3>1, <3>2 DEF ShieldInv
  <2>6. ASSUME NEW p, NEW timestamp, Gate!Observe(p, timestamp)
        PROVE  ShieldInv'
    <3>1. monitor' = [atlas |-> atlas, active |-> active, last |-> timestamp]
      BY <2>2, <2>6 DEF Gate!Observe
    <3>2. decisions' = decisions
      BY <2>6 DEF Gate!Observe
    <3> QED
      BY <1>2, <2>2, <3>1, <3>2 DEF ShieldInv
  <2>7. CASE UNCHANGED Gate!vars
    BY <1>2, <2>7 DEF ShieldInv, Gate!vars
  <2> QED
    BY <1>2, <2>3, <2>4, <2>5, <2>6, <2>7 DEF Gate!Next
<1>3. ShieldInv => Gate!PlansAreCertified
  BY DEF ShieldInv, Gate!PlansAreCertified
<1> QED
  BY <1>1, <1>2, <1>3, PTL DEF Gate!Spec
=============================================================================
