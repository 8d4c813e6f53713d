------------------------- MODULE RunRouting_proofs -------------------------
(***************************************************************************)
(* Proofs about the control leases of module LeaseAuthority and about      *)
(* Agent Runs, for every number of Runs, Bindings and Connectors, every    *)
(* route plan, capacity, deadline and clock behaviour.                     *)
(***************************************************************************)
EXTENDS RunStreams, FiniteSetTheorems, TLAPS

-----------------------------------------------------------------------------
(* Control leases *)

\* The control plane starts without leases.
LEMMA LeaseInitInv == LeaseInit => LeaseInv
BY LeaseConstants DEF LeaseInit, LeaseInv, LeaseTypeOK, NewestLease, LeaseRow, NoLease

\* Every step of the control plane keeps the newest-lease invariant.
LEMMA LeaseStepInv == LeaseInv /\ [LeaseStep]_leaseVars => LeaseInv'
<1> SUFFICES ASSUME LeaseInv, [LeaseStep]_leaseVars PROVE LeaseInv'
  OBVIOUS
<1> USE LeaseConstants DEF LeaseInv, LeaseTypeOK, NewestLease, LeaseRow, NoLease
<1>1. CASE Clock
  BY <1>1 DEF Clock
<1>2. ASSUME NEW c \in Connectors, Grant(c) PROVE LeaseInv'
  BY <1>2 DEF Grant
<1>3. ASSUME NEW c \in Connectors, Withdraw(c) PROVE LeaseInv'
  BY <1>3 DEF Withdraw
<1>4. ASSUME NEW c \in Connectors, NEW ready \in BOOLEAN, SetReady(c, ready) PROVE LeaseInv'
  BY <1>4 DEF SetReady
<1>5. ASSUME NEW c \in Connectors, NEW ready \in BOOLEAN,
             NEW h \in 1..MaxHeartbeat, NEW available \in 0..MaxConcurrency[c],
             Renew(c, h, available, ready)
      PROVE  LeaseInv'
  BY <1>5 DEF Renew
<1>6. CASE UNCHANGED leaseVars
  BY <1>6 DEF leaseVars
<1> QED
  BY <1>1, <1>2, <1>3, <1>4, <1>5, <1>6 DEF LeaseStep

\* No step revives a fence or shortens the lease it names.
LEMMA LeaseStepMonotone ==
    ASSUME LeaseInv, [LeaseStep]_leaseVars, NEW d \in Connectors
    PROVE  IF lease'[d].epoch = lease[d].epoch /\ Held(d)
           THEN lease'[d].expires >= lease[d].expires
           ELSE lease'[d].epoch = 0 \/ lease'[d].epoch > highEpoch[d]
<1> USE LeaseConstants DEF LeaseInv, LeaseTypeOK, NewestLease, LeaseRow, NoLease, Held
<1>1. CASE Clock
  BY <1>1 DEF Clock
<1>2. ASSUME NEW c \in Connectors, Grant(c)
      PROVE  IF lease'[d].epoch = lease[d].epoch /\ Held(d)
             THEN lease'[d].expires >= lease[d].expires
             ELSE lease'[d].epoch = 0 \/ lease'[d].epoch > highEpoch[d]
  BY <1>2 DEF Grant
<1>3. ASSUME NEW c \in Connectors, Withdraw(c)
      PROVE  IF lease'[d].epoch = lease[d].epoch /\ Held(d)
             THEN lease'[d].expires >= lease[d].expires
             ELSE lease'[d].epoch = 0 \/ lease'[d].epoch > highEpoch[d]
  BY <1>3 DEF Withdraw
<1>4. ASSUME NEW c \in Connectors, NEW ready \in BOOLEAN, SetReady(c, ready)
      PROVE  IF lease'[d].epoch = lease[d].epoch /\ Held(d)
             THEN lease'[d].expires >= lease[d].expires
             ELSE lease'[d].epoch = 0 \/ lease'[d].epoch > highEpoch[d]
  BY <1>4 DEF SetReady
<1>5. ASSUME NEW c \in Connectors, NEW ready \in BOOLEAN,
             NEW h \in 1..MaxHeartbeat, NEW available \in 0..MaxConcurrency[c],
             Renew(c, h, available, ready)
      PROVE  IF lease'[d].epoch = lease[d].epoch /\ Held(d)
             THEN lease'[d].expires >= lease[d].expires
             ELSE lease'[d].epoch = 0 \/ lease'[d].epoch > highEpoch[d]
  BY <1>5 DEF Renew
<1>6. CASE UNCHANGED leaseVars
  BY <1>6 DEF leaseVars
<1> QED
  BY <1>1, <1>2, <1>3, <1>4, <1>5, <1>6 DEF LeaseStep

\* Epochs are never taken back.
LEMMA EpochsGrow ==
    ASSUME LeaseInv, [LeaseStep]_leaseVars, NEW d \in Connectors
    PROVE  highEpoch'[d] >= highEpoch[d]
<1> USE LeaseConstants DEF LeaseInv, LeaseTypeOK
<1>1. CASE UNCHANGED highEpoch
  BY <1>1
<1>2. ASSUME NEW c \in Connectors, Grant(c) PROVE highEpoch'[d] >= highEpoch[d]
  BY <1>2 DEF Grant
<1> QED
  BY <1>1, <1>2 DEF LeaseStep, Clock, Withdraw, SetReady, Renew, leaseVars

\* The control lease of every Connector is the newest one, in every behaviour.
THEOREM LeaseSafety == LeaseSpec => []LeaseInv
BY LeaseInitInv, LeaseStepInv, PTL DEF LeaseSpec

\* A fence that stopped being current never comes back (FenceNeverRevives).
THEOREM LeaseMonotone == LeaseSpec => FenceNeverRevives
<1>1. LeaseInv /\ [LeaseStep]_leaseVars =>
        [\A c \in Connectors :
          IF lease'[c].epoch = lease[c].epoch /\ Held(c)
          THEN lease'[c].expires >= lease[c].expires
          ELSE \/ lease'[c].epoch = 0
               \/ lease'[c].epoch > highEpoch[c]]_leaseVars
  BY LeaseStepMonotone
<1> QED
  BY <1>1, LeaseSafety, PTL DEF LeaseSpec, FenceNeverRevives

-----------------------------------------------------------------------------
(* Agent Runs *)

\* What the assumptions on the constants say of single Runs and Bindings.
LEMMA ConstantTypes ==
    /\ OfferTtl \in Nat /\ OfferTtl > 0 /\ RunTtl \in Nat /\ RunTtl > 0 /\ MaxTime \in Nat
    /\ \A r \in Runs : QueueDeadline[r] \in Nat /\ GrantExpires[r] \in Nat
    /\ \A b \in Bindings : BindingConnector[b] \in Connectors /\ BindingMax[b] \in Nat
    /\ \A c \in Connectors : MaxConcurrency[c] \in Nat
BY RunConstants, LeaseConstants

\* A route plan is a non-empty sequence of Bindings.
LEMMA PlanTypes ==
    ASSUME NEW r \in Runs
    PROVE  /\ Len(Candidates[r]) \in Nat /\ Len(Candidates[r]) > 0
           /\ \A i \in 1..Len(Candidates[r]) : Candidates[r][i] \in Bindings
BY RunConstants

\* What TypeOK says of single rows.
LEMMA RowTypes ==
    ASSUME TypeOK
    PROVE  /\ now \in Nat
           /\ \A c \in Connectors : /\ lease[c].epoch \in Nat /\ lease[c].expires \in Nat
                                     /\ lease[c].heartbeat \in Nat /\ lease[c].available \in Nat
                                     /\ highEpoch[c] \in Nat /\ reserved[c] \in Nat
           /\ \A r \in Runs : /\ offer[r].attempt \in Nat /\ offer[r].fence \in Nat
                               /\ offer[r].expires \in Nat
                               /\ highAttempt[r] \in Nat /\ highRunEpoch[r] \in Nat
                               /\ runHigh[r] \in Nat
                               /\ cursor[r] \in Nat /\ cursor[r] \in 1..Len(Candidates[r])
           /\ \A b \in Bindings : bindingReserved[b] \in Nat
BY DEF TypeOK, LeaseTypeOK, LeaseRow, OfferRow

\* What TypeOK says of the row of a Run lease.
LEMMA RunLeaseTypes ==
    ASSUME TypeOK, NEW r \in Runs
    PROVE  /\ runLease[r].epoch \in Nat /\ runLease[r].attempt \in Nat
           /\ runLease[r].fence \in Nat /\ runLease[r].expires \in Nat
           /\ runLease[r].status \in {"none", "active", "released", "expired"}
           /\ runLease[r] \in RunLeaseRow
BY DEF TypeOK, RunLeaseRow

-----------------------------------------------------------------------------
(* Type correctness *)

\* A position computed modulo the plan is a position of the plan.
LEMMA CyclicPosition ==
    ASSUME NEW n \in Nat, n > 0, NEW x \in Nat
    PROVE  (x % n) + 1 \in 1..n
OBVIOUS

\* The current candidate of a Run is a Binding with a Connector.
LEMMA CandidateType ==
    ASSUME TypeOK, NEW r \in Runs
    PROVE  /\ BindingOf(r) \in Bindings
           /\ ConnectorOf(r) \in Connectors
BY RowTypes, PlanTypes, ConstantTypes DEF BindingOf, ConnectorOf

\* Every position visited by a dispatch is one of the plan.
LEMMA PositionType ==
    ASSUME TypeOK, NEW r \in Runs, NEW k \in Nat
    PROVE  /\ Position(r, k) \in 1..Len(Candidates[r])
           /\ NextCandidate(r) \in 1..Len(Candidates[r])
           /\ Candidates[r][Position(r, k)] \in Bindings
<1>1. /\ Len(Candidates[r]) \in Nat /\ Len(Candidates[r]) > 0
      /\ cursor[r] \in Nat /\ cursor[r] - 1 + k \in Nat
  BY RowTypes, PlanTypes
<1>2. /\ Position(r, k) \in 1..Len(Candidates[r])
      /\ NextCandidate(r) \in 1..Len(Candidates[r])
  BY <1>1, CyclicPosition DEF Position, NextCandidate
<1> QED
  BY <1>2, PlanTypes

\* The observation the router works with is well formed.
LEMMA ObservationType ==
    ASSUME TypeOK, NEW c \in Connectors
    PROVE  Observation(c) \in ObservationRow
BY DEF TypeOK, LeaseTypeOK, LeaseRow, Observation, Rebased, ObservationRow

\* Deadlines are times.
LEMMA DeadlineType ==
    ASSUME TypeOK, NEW r \in Runs, NEW c \in Connectors
    PROVE  OfferDeadline(r, c) \in Nat /\ LeaseDeadline(r, c) \in Nat
BY RowTypes, ConstantTypes DEF OfferDeadline, LeaseDeadline, Lesser

\* The initial state is well typed.
LEMMA InitType == Init => TypeOK
<1> SUFFICES ASSUME Init PROVE TypeOK
  OBVIOUS
<1>1. LeaseTypeOK
  BY LeaseInitInv DEF Init, LeaseInv
<1>2. \A r \in Runs : 1 \in 1..Len(Candidates[r])
  BY PlanTypes
<1>3. exec \in [Runs -> ExecRow]
  <2>1. NoExec \in ExecRow
    BY DEF NoExec, ExecRow
  <2> QED
    BY <2>1 DEF Init, RunInit
<1> QED
  BY <1>1, <1>2, <1>3 DEF Init, RunInit, TypeOK, States, NoOffer, OfferRow, NoRunLease,
     RunLeaseRow, NoCancel, Unobserved, ObservationRow

\* Leaving an execution lease keeps everything but exec well typed.
LEMMA ReconcileType ==
    ASSUME TypeOK, NEW r \in Runs, NEW status \in {"released", "expired"},
           Reconcile(r, status), exec' \in [Runs -> ExecRow]
    PROVE  TypeOK'
<1>1. BindingOf(r) \in Bindings /\ ConnectorOf(r) \in Connectors
  BY CandidateType
<1>2. reserved' \in [Connectors -> Nat] /\ bindingReserved' \in [Bindings -> Nat]
  BY <1>1 DEF TypeOK, Reconcile, Unreserve
<1>3. runLease' \in [Runs -> RunLeaseRow]
  BY DEF TypeOK, Reconcile, ClosedLease, RunLeaseRow
<1>4. /\ state' \in [Runs -> States] /\ runHigh' \in [Runs -> Nat]
      /\ LeaseTypeOK'
  BY DEF TypeOK, LeaseTypeOK, Reconcile, States, leaseVars
<1> QED
  BY <1>2, <1>3, <1>4 DEF TypeOK, Reconcile, policy

\* Every transaction on a Run keeps the types.
LEMMA RunStepType ==
    ASSUME TypeOK, NEW r \in Runs, RunStep(r)
    PROVE  TypeOK'
<1>0. BindingOf(r) \in Bindings /\ ConnectorOf(r) \in Connectors
  BY CandidateType
<1> USE DEF routing, capacity, policy
<1>1. CASE OfferNext(r)
  <2> PICK k \in 0..(Len(Candidates[r]) - 1) :
        LET p == Position(r, k)
            c == BindingConnector[Candidates[r][p]] IN
        /\ cursor' = [cursor EXCEPT ![r] = p]
        /\ offer' = [offer EXCEPT ![r] =
               [attempt |-> highAttempt[r] + 1, fence |-> lease[c].epoch,
                expires |-> OfferDeadline(r, c)]]
        /\ observed' = [observed EXCEPT ![c] = Observation(c)]
    BY <1>1 DEF OfferNext
  <2> DEFINE p == Position(r, k)
             c == BindingConnector[Candidates[r][p]]
  <2>1. k \in Nat
    BY PlanTypes
  <2>2. p \in 1..Len(Candidates[r]) /\ c \in Connectors
    BY <2>1, PositionType, ConstantTypes
  <2> HIDE DEF p, c
  <2>3. /\ cursor' \in [Runs -> Nat]
        /\ \A q \in Runs : cursor'[q] \in 1..Len(Candidates[q])
    <3>1. cursor' = [cursor EXCEPT ![r] = p]
      BY DEF p
    <3>2. p \in Nat
      BY <2>2, PlanTypes
    <3> QED
      BY <2>2, <3>1, <3>2 DEF TypeOK
  <2>4. offer' \in [Runs -> OfferRow]
    <3>1. offer' = [offer EXCEPT ![r] =
               [attempt |-> highAttempt[r] + 1, fence |-> lease[c].epoch,
                expires |-> OfferDeadline(r, c)]]
      BY DEF p, c
    <3>2. /\ highAttempt[r] + 1 \in Nat /\ lease[c].epoch \in Nat
          /\ OfferDeadline(r, c) \in Nat
      BY <2>2, DeadlineType, RowTypes
    <3>3. [attempt |-> highAttempt[r] + 1, fence |-> lease[c].epoch,
           expires |-> OfferDeadline(r, c)] \in OfferRow
      BY <3>2 DEF OfferRow
    <3> QED
      BY <3>1, <3>3 DEF TypeOK
  <2>5. observed' \in [Connectors -> ObservationRow]
    <3>1. observed' = [observed EXCEPT ![c] = Observation(c)]
      BY DEF p, c
    <3> QED
      BY <2>2, <3>1, ObservationType, ZenonT(60) DEF TypeOK
  <2>6. /\ state' \in [Runs -> States] /\ highAttempt' \in [Runs -> Nat]
        /\ runHigh' \in [Runs -> Nat] /\ LeaseTypeOK'
    <3>1. /\ state' = [state EXCEPT ![r] = "offered"]
          /\ highAttempt' = [highAttempt EXCEPT ![r] = highAttempt[r] + 1]
          /\ runHigh' = [runHigh EXCEPT ![r] = now]
          /\ UNCHANGED leaseVars
      BY <1>1 DEF OfferNext
    <3>2. state' \in [Runs -> States]
      BY <3>1 DEF TypeOK, States
    <3>3. highAttempt' \in [Runs -> Nat]
      BY <3>1 DEF TypeOK
    <3>4. runHigh' \in [Runs -> Nat] /\ LeaseTypeOK'
      BY <3>1 DEF TypeOK, LeaseTypeOK, leaseVars
    <3> QED
      BY <3>2, <3>3, <3>4
  <2>7. runLease' \in [Runs -> RunLeaseRow]
    BY <1>1 DEF OfferNext, TypeOK, NoRunLease, RunLeaseRow
  <2> QED
    BY <1>1, <2>3, <2>4, <2>5, <2>6, <2>7 DEF OfferNext, TypeOK
<1>2. CASE Unavailable(r)
  BY <1>2 DEF Unavailable, TypeOK, LeaseTypeOK, leaseVars
<1>3. CASE Claim(r)
  <2> DEFINE c == ConnectorOf(r)
             new == [epoch |-> highRunEpoch[r] + 1, attempt |-> offer[r].attempt,
                     fence |-> offer[r].fence, expires |-> LeaseDeadline(r, c),
                     status |-> "active"]
  <2>1. new \in RunLeaseRow
    BY <1>0, DeadlineType, RowTypes DEF RunLeaseRow
  <2>2. /\ runLease' = [runLease EXCEPT ![r] = new]
        /\ grants' = grants \cup {[run |-> r, connector |-> c, lease |-> new]}
        /\ highRunEpoch' = [highRunEpoch EXCEPT ![r] = highRunEpoch[r] + 1]
    BY <1>3 DEF Claim
  <2>3. /\ runLease' \in [Runs -> RunLeaseRow]
        /\ highRunEpoch' \in [Runs -> Nat]
    BY <2>1, <2>2 DEF TypeOK
  <2>4. grants' \subseteq [run: Runs, connector: Connectors, lease: RunLeaseRow]
    BY <1>0, <2>1, <2>2 DEF TypeOK
  <2>5. /\ state' \in [Runs -> States] /\ runHigh' \in [Runs -> Nat]
        /\ reserved' \in [Connectors -> Nat] /\ bindingReserved' \in [Bindings -> Nat]
        /\ observed' \in [Connectors -> ObservationRow]
        /\ LeaseTypeOK'
    <3>1. /\ state' = [state EXCEPT ![r] = "leased"]
          /\ runHigh' = [runHigh EXCEPT ![r] = now]
          /\ reserved' = [reserved EXCEPT ![c] = @ + 1]
          /\ bindingReserved' = [bindingReserved EXCEPT ![BindingOf(r)] = @ + 1]
          /\ observed' = [observed EXCEPT ![c] = Observation(c)]
          /\ UNCHANGED leaseVars
      BY <1>3 DEF Claim
    <3> HIDE DEF c
    <3>2. c \in Connectors
      BY <1>0 DEF c
    <3>3. state' \in [Runs -> States]
      BY <3>1 DEF TypeOK, States
    <3>4. reserved' \in [Connectors -> Nat] /\ bindingReserved' \in [Bindings -> Nat]
      BY <1>0, <3>1, <3>2 DEF TypeOK
    <3>5. observed' \in [Connectors -> ObservationRow]
      BY <3>1, <3>2, ObservationType DEF TypeOK
    <3>6. runHigh' \in [Runs -> Nat] /\ LeaseTypeOK'
      BY <3>1 DEF TypeOK, LeaseTypeOK, leaseVars
    <3> QED
      BY <3>3, <3>4, <3>5, <3>6
  <2> QED
    BY <1>3, <2>3, <2>4, <2>5 DEF Claim, TypeOK
<1>4. CASE ClaimRetry(r)
  <2>1. Granted(r) \in [run: Runs, connector: Connectors, lease: RunLeaseRow]
    BY <1>0 DEF Granted, TypeOK
  <2> QED
    BY <1>4, <2>1 DEF ClaimRetry, TypeOK, LeaseTypeOK, leaseVars
<1>5. CASE Release(r)
  BY <1>5, ReconcileType DEF Release, TypeOK
<1>6. CASE ExpireQueue(r)
  BY <1>6 DEF ExpireQueue, TypeOK, LeaseTypeOK, leaseVars, States
<1>7. CASE ExpireOffer(r)
  <2>1. NextCandidate(r) \in 1..Len(Candidates[r]) /\ NextCandidate(r) \in Nat
    BY PositionType, PlanTypes
  <2>2. /\ cursor' \in [Runs -> Nat]
        /\ \A q \in Runs : cursor'[q] \in 1..Len(Candidates[q])
    BY <1>7, <2>1, ZenonT(60) DEF ExpireOffer, TypeOK
  <2>3. /\ state' \in [Runs -> States] /\ offer' \in [Runs -> OfferRow]
        /\ runHigh' \in [Runs -> Nat] /\ LeaseTypeOK'
    BY <1>7 DEF ExpireOffer, TypeOK, LeaseTypeOK, leaseVars, States, NoOffer, OfferRow
  <2> QED
    BY <1>7, <2>2, <2>3 DEF ExpireOffer, TypeOK
<1>8. CASE ExpireLease(r)
  BY <1>8, ReconcileType DEF ExpireLease, TypeOK
<1>9. ASSUME NEW s \in Streams, NEW p \in Payloads, Report(r, s, p) PROVE TypeOK'
  <2>1. exec[r] \in ExecRow
    BY DEF TypeOK
  <2>2. [exec[r].streams EXCEPT ![s] = Append(@, p)] \in [Streams -> Seq(Payloads)]
    BY <2>1 DEF ExecRow
  <2>3. exec' \in [Runs -> ExecRow]
    BY <1>9, <2>1, <2>2 DEF Report, TypeOK, ExecRow
  <2> QED
    BY <1>9, <2>3 DEF Report, TypeOK, LeaseTypeOK, leaseVars
<1>10. ASSUME NEW kind \in Kinds, NEW p \in Payloads, Terminal(r, kind, p) PROVE TypeOK'
  <2>1. exec' \in [Runs -> ExecRow]
    BY <1>10 DEF Terminal, TypeOK, ExecRow
  <2> QED
    BY <1>10, <2>1, ReconcileType DEF Terminal
<1>11. ASSUME NEW d \in 0..MaxTime, RequestCancellation(r, d) PROVE TypeOK'
  <2>1. cancel' = [cancel EXCEPT ![r] = [epoch |-> runLease[r].epoch, deadline |-> d]]
    BY <1>11 DEF RequestCancellation
  <2>2. runLease[r].epoch \in Nat /\ d \in Nat
    BY RunLeaseTypes, ConstantTypes
  <2>3. cancel' \in [Runs -> [epoch: Nat, deadline: Nat]]
    BY <2>1, <2>2 DEF TypeOK
  <2> QED
    BY <1>11, <2>3 DEF RequestCancellation, TypeOK, LeaseTypeOK, leaseVars
<1>12. CASE RevokeGrant(r)
  BY <1>12 DEF RevokeGrant, TypeOK, LeaseTypeOK, leaseVars
<1> QED
  BY <1>1, <1>2, <1>3, <1>4, <1>5, <1>6, <1>7, <1>8, <1>9, <1>10, <1>11, <1>12 DEF RunStep, Serve, Sweep

\* So does every step.
LEMMA NextType ==
    ASSUME TypeOK, LeaseInv, [Next]_vars
    PROVE  TypeOK' /\ LeaseInv'
<1>1. CASE ControlPlane
  <2>1. LeaseInv'
    BY <1>1, LeaseStepInv DEF ControlPlane
  <2> QED
    BY <1>1, <2>1 DEF ControlPlane, LeaseInv, TypeOK, runVars, routing, capacity, policy
<1>2. ASSUME NEW r \in Runs, RunStep(r) PROVE TypeOK' /\ LeaseInv'
  <2>1. UNCHANGED leaseVars
    BY <1>2 DEF RunStep, Serve, Sweep, OfferNext, Unavailable, Claim, ClaimRetry, Release, ExpireQueue,
       ExpireOffer, ExpireLease, Report, Terminal, RequestCancellation, RevokeGrant, Reconcile
  <2> QED
    BY <1>2, <2>1, RunStepType, LeaseStepInv
<1>3. ASSUME NEW b \in Bindings, SetEnabled(b) PROVE TypeOK' /\ LeaseInv'
  <2>1. UNCHANGED leaseVars
    BY <1>3 DEF SetEnabled
  <2>2. LeaseInv'
    BY <2>1, LeaseStepInv
  <2> QED
    BY <1>3, <2>2 DEF SetEnabled, LeaseInv, TypeOK, routing, capacity
<1>4. CASE UNCHANGED vars
  <2>1. UNCHANGED leaseVars
    BY <1>4 DEF vars
  <2>2. LeaseInv'
    BY <2>1, LeaseStepInv
  <2> QED
    BY <1>4, <2>2 DEF vars, LeaseInv, TypeOK, runVars, routing, capacity, policy
<1> QED
  BY <1>1, <1>2, <1>3, <1>4 DEF Next

(***************************************************************************)
(* Every reachable state of the routing tables is well typed; in           *)
(* particular a candidate cursor never leaves its route plan and a         *)
(* reservation counter never goes below zero.                              *)
(***************************************************************************)
THEOREM RunTypes == Spec => [](TypeOK /\ LeaseInv)
<1>1. Init => TypeOK /\ LeaseInv
  BY InitType, LeaseInitInv DEF Init
<1>2. TypeOK /\ LeaseInv /\ [Next]_vars => (TypeOK /\ LeaseInv)'
  BY NextType
<1> QED
  BY <1>1, <1>2, PTL DEF Spec

-----------------------------------------------------------------------------
(* Safety: the inductive invariant RunInv *)

\* Run q is left alone by a step.
SameRun(q) ==
    /\ state'[q] = state[q] /\ cursor'[q] = cursor[q] /\ offer'[q] = offer[q]
    /\ runLease'[q] = runLease[q] /\ highAttempt'[q] = highAttempt[q]
    /\ highRunEpoch'[q] = highRunEpoch[q] /\ exec'[q] = exec[q]

\* A step of the routing plane leaves the control plane and other Runs alone.
LocalTo(r) ==
    /\ UNCHANGED <<now, lease, highEpoch, highWater>>
    /\ \A q \in Runs \ {r} : SameRun(q)

Waiting == {"queued", "offered", "expired"}

\* A step before the Run is leased: who executes it is not decided yet.
QueueStep(r) ==
    /\ LocalTo(r)
    /\ state[r] \in Waiting /\ state'[r] \in Waiting
    /\ UNCHANGED <<highRunEpoch, exec, grants, reserved, bindingReserved>>

\* Offering and expiring an unleased Run are such steps.
LEMMA QueueSteps ==
    ASSUME TypeOK, NEW r \in Runs,
           OfferNext(r) \/ Unavailable(r) \/ ExpireQueue(r) \/ ExpireOffer(r)
    PROVE  QueueStep(r)
<1> USE DEF leaseVars, capacity, policy, QueueStep, LocalTo, SameRun, TypeOK, Waiting
<1>1. CASE OfferNext(r)
  BY <1>1 DEF OfferNext
<1>2. CASE Unavailable(r)
  BY <1>2 DEF Unavailable
<1>3. CASE ExpireQueue(r)
  BY <1>3 DEF ExpireQueue
<1>4. CASE ExpireOffer(r)
  BY <1>4 DEF ExpireOffer
<1> QED
  BY <1>1, <1>2, <1>3, <1>4

\* Leaving an execution lease.
LEMMA ReconcileLocal ==
    ASSUME TypeOK, NEW r \in Runs, NEW status \in {"released", "expired"},
           Reconcile(r, status), \A q \in Runs \ {r} : exec'[q] = exec[q]
    PROVE  /\ LocalTo(r)
           /\ state[r] = "leased" /\ state'[r] = "reconcile_required"
           /\ cursor' = cursor /\ offer' = offer /\ highRunEpoch' = highRunEpoch
           /\ runLease'[r].epoch = runLease[r].epoch
           /\ runLease'[r].attempt = runLease[r].attempt
           /\ runLease'[r].fence = runLease[r].fence
           /\ runLease'[r].expires = runLease[r].expires
           /\ runLease'[r].status = status
BY DEF TypeOK, Reconcile, ClosedLease, leaseVars, policy, LocalTo, SameRun

\* Granting the execution lease.
LEMMA ClaimLocal ==
    ASSUME TypeOK, NEW r \in Runs, Claim(r)
    PROVE  /\ LocalTo(r)
           /\ state[r] = "offered" /\ state'[r] = "leased"
           /\ cursor' = cursor /\ offer' = offer /\ exec' = exec
           /\ runLease'[r] = [epoch |-> highRunEpoch[r] + 1, attempt |-> offer[r].attempt,
                              fence |-> offer[r].fence,
                              expires |-> LeaseDeadline(r, ConnectorOf(r)), status |-> "active"]
           /\ highRunEpoch'[r] = highRunEpoch[r] + 1
           /\ grants' = grants \cup
                 {[run |-> r, connector |-> ConnectorOf(r), lease |-> runLease'[r]]}
<1>1. UNCHANGED <<now, lease, highEpoch, highWater>> /\ cursor' = cursor /\ offer' = offer
      /\ exec' = exec /\ state[r] = "offered" /\ highAttempt' = highAttempt
  BY DEF Claim, leaseVars
<1>2. /\ state' = [state EXCEPT ![r] = "leased"]
      /\ runLease' = [runLease EXCEPT ![r] =
            [epoch |-> highRunEpoch[r] + 1, attempt |-> offer[r].attempt,
             fence |-> offer[r].fence,
             expires |-> LeaseDeadline(r, ConnectorOf(r)), status |-> "active"]]
      /\ highRunEpoch' = [highRunEpoch EXCEPT ![r] = highRunEpoch[r] + 1]
  BY DEF Claim
<1>3. \A q \in Runs \ {r} : SameRun(q)
  BY <1>1, <1>2 DEF TypeOK, SameRun
<1>4. /\ state'[r] = "leased" /\ highRunEpoch'[r] = highRunEpoch[r] + 1
      /\ runLease'[r] = [epoch |-> highRunEpoch[r] + 1, attempt |-> offer[r].attempt,
                         fence |-> offer[r].fence,
                         expires |-> LeaseDeadline(r, ConnectorOf(r)), status |-> "active"]
  BY <1>2 DEF TypeOK
<1>5. grants' = grants \cup {[run |-> r, connector |-> ConnectorOf(r), lease |-> runLease'[r]]}
  BY <1>4 DEF Claim
<1> QED
  BY <1>1, <1>3, <1>4, <1>5 DEF LocalTo

\* The lease it grants.
LEMMA ClaimFields ==
    ASSUME TypeOK, NEW r \in Runs, Claim(r)
    PROVE  /\ runLease'[r].epoch = highRunEpoch[r] + 1
           /\ runLease'[r].attempt = offer[r].attempt
           /\ runLease'[r].fence = offer[r].fence
           /\ runLease'[r].expires = LeaseDeadline(r, ConnectorOf(r))
           /\ runLease'[r].status = "active"
<1>1. runLease'[r] = [epoch |-> highRunEpoch[r] + 1, attempt |-> offer[r].attempt,
                     fence |-> offer[r].fence,
                     expires |-> LeaseDeadline(r, ConnectorOf(r)), status |-> "active"]
  BY ClaimLocal
<1> QED
  BY <1>1

\* A Run that a step leaves alone keeps its image.
LEMMA ImageFrame ==
    ASSUME TypeOK, TypeOK', NEW q \in Runs, SameRun(q), ImageOK(q),
           \A c \in Connectors : highEpoch'[c] >= highEpoch[c]
    PROVE  ImageOK(q)'
<1>1. ConnectorOf(q)' = ConnectorOf(q) /\ ConnectorOf(q) \in Connectors
  BY CandidateType DEF SameRun, ConnectorOf, BindingOf
<1>2. /\ highEpoch[ConnectorOf(q)] \in Nat /\ highEpoch'[ConnectorOf(q)] \in Nat
      /\ highEpoch'[ConnectorOf(q)] >= highEpoch[ConnectorOf(q)]
      /\ offer[q].fence \in Nat
  BY <1>1, RowTypes DEF TypeOK, LeaseTypeOK
<1>3. state[q] = "offered" =>
         offer[q].fence \in 1..highEpoch'[ConnectorOf(q)]
  BY <1>2 DEF ImageOK
<1> QED
  BY <1>1, <1>3 DEF ImageOK, SameRun

\* Offering and expiring an unleased Run leave a valid image.
LEMMA QueueImage ==
    ASSUME TypeOK, TypeOK', NewestLease, StateImage, NEW r \in Runs,
           OfferNext(r) \/ Unavailable(r) \/ ExpireQueue(r) \/ ExpireOffer(r)
    PROVE  StateImage'
<1>1. QueueStep(r)
  BY QueueSteps
<1>2. \A q \in Runs \ {r} : ImageOK(q)'
  BY <1>1, ImageFrame, RowTypes DEF StateImage, QueueStep, LocalTo
<1>3. ImageOK(r)
  BY DEF StateImage
<1>4. CASE OfferNext(r)
  <2> PICK k \in 0..(Len(Candidates[r]) - 1) :
        LET p == Position(r, k)
            c == BindingConnector[Candidates[r][p]] IN
        /\ Offerable(r, k)
        /\ cursor' = [cursor EXCEPT ![r] = p]
        /\ offer' = [offer EXCEPT ![r] =
               [attempt |-> highAttempt[r] + 1, fence |-> lease[c].epoch,
                expires |-> OfferDeadline(r, c)]]
    BY <1>4 DEF OfferNext
  <2> DEFINE p == Position(r, k)
             c == BindingConnector[Candidates[r][p]]
  <2>1. k \in Nat
    BY PlanTypes
  <2>2. c \in Connectors
    BY <2>1, PositionType, ConstantTypes
  <2>3. Held(c)
    BY DEF Offerable, Eligible
  <2> HIDE DEF p, c
  <2>4. cursor'[r] = p /\ offer'[r] = [attempt |-> highAttempt[r] + 1,
                      fence |-> lease[c].epoch, expires |-> OfferDeadline(r, c)]
    BY DEF TypeOK, p, c
  <2>5. ConnectorOf(r)' = c
    BY <2>4 DEF ConnectorOf, BindingOf, c
  <2>6. lease[c].epoch \in 1..highEpoch[c] /\ highEpoch' = highEpoch
    BY <2>2, <2>3, <1>1, RowTypes DEF Held, NewestLease, QueueStep, LocalTo
  <2>7. OfferDeadline(r, c) <= QueueDeadline[r]
    BY <2>2, RowTypes, ConstantTypes DEF OfferDeadline, Lesser
  <2>8. /\ state[r] = "queued" /\ state'[r] = "offered" /\ runLease'[r] = NoRunLease
        /\ highAttempt'[r] = highAttempt[r] + 1 /\ highRunEpoch'[r] = highRunEpoch[r]
    BY <1>4 DEF OfferNext, TypeOK
  <2>9. highAttempt[r] \in Nat
    BY RowTypes
  <2>10. ImageOK(r)'
    BY <1>3, <2>4, <2>5, <2>6, <2>7, <2>8, <2>9, SMTT(40) DEF ImageOK
  <2> QED
    BY <1>2, <2>10 DEF StateImage
<1>5. CASE Unavailable(r) \/ ExpireQueue(r)
  <2>1. /\ state'[r] \in {"queued", "expired"} /\ state[r] = "queued"
        /\ offer' = offer /\ runLease' = runLease /\ highRunEpoch' = highRunEpoch
    BY <1>5 DEF Unavailable, ExpireQueue, TypeOK
  <2>2. ImageOK(r)'
    BY <1>3, <2>1 DEF ImageOK
  <2> QED
    BY <1>2, <2>2 DEF StateImage
<1>6. CASE ExpireOffer(r)
  <2>1. /\ state'[r] \in {"queued", "expired"} /\ state[r] = "offered"
        /\ offer'[r] = NoOffer /\ runLease' = runLease /\ highRunEpoch' = highRunEpoch
    BY <1>6 DEF ExpireOffer, TypeOK
  <2>2. ImageOK(r)'
    BY <1>3, <2>1 DEF ImageOK
  <2> QED
    BY <1>2, <2>2 DEF StateImage
<1> QED
  BY <1>4, <1>5, <1>6

\* Granting a lease leaves a valid image.
LEMMA ClaimImage ==
    ASSUME TypeOK, TypeOK', StateImage, NEW r \in Runs, Claim(r)
    PROVE  StateImage'
<1>1. LocalTo(r) /\ state[r] = "offered" /\ state'[r] = "leased" /\ offer' = offer
  BY ClaimLocal
<1>2. \A q \in Runs \ {r} : SameRun(q) /\ ImageOK(q)
  BY <1>1 DEF LocalTo, StateImage
<1>3. \A c \in Connectors : highEpoch'[c] >= highEpoch[c]
  BY <1>1, RowTypes DEF LocalTo
<1>4. \A q \in Runs \ {r} : ImageOK(q)'
  BY <1>2, <1>3, ImageFrame
<1>5. offer[r].attempt > 0 /\ highRunEpoch[r] \in Nat
  BY <1>1, RowTypes DEF StateImage, ImageOK
<1>6. highRunEpoch'[r] = highRunEpoch[r] + 1
  BY ClaimLocal
<1>7. /\ runLease'[r].attempt = offer[r].attempt /\ runLease'[r].fence = offer[r].fence
      /\ runLease'[r].epoch = highRunEpoch[r] + 1 /\ runLease'[r].status = "active"
  BY ClaimFields
<1>8. ImageOK(r)'
  BY <1>1, <1>5, <1>6, <1>7 DEF ImageOK
<1> QED
  BY <1>4, <1>8 DEF StateImage

\* So does leaving it.
LEMMA ReconcileImage ==
    ASSUME TypeOK, TypeOK', StateImage, NEW r \in Runs, NEW status \in {"released", "expired"},
           Reconcile(r, status), \A q \in Runs \ {r} : exec'[q] = exec[q]
    PROVE  StateImage'
<1>1. \A q \in Runs \ {r} : ImageOK(q)'
  BY ReconcileLocal, ImageFrame, RowTypes DEF StateImage, LocalTo
<1>2. /\ state[r] = "leased" /\ state'[r] = "reconcile_required"
      /\ offer'[r] = offer[r] /\ highRunEpoch'[r] = highRunEpoch[r]
      /\ runLease'[r].epoch = runLease[r].epoch
      /\ runLease'[r].attempt = runLease[r].attempt
      /\ runLease'[r].fence = runLease[r].fence
      /\ runLease'[r].status # "active"
  BY ReconcileLocal
<1>3. ImageOK(r)
  BY DEF StateImage
<1>4. ImageOK(r)'
  BY <1>2, <1>3 DEF ImageOK
<1> QED
  BY <1>1, <1>4 DEF StateImage

\* A step that touches no Run keeps every image.
LEMMA OtherImage ==
    ASSUME TypeOK, TypeOK', StateImage, \A q \in Runs : SameRun(q),
           \A c \in Connectors : highEpoch'[c] >= highEpoch[c]
    PROVE  StateImage'
BY ImageFrame DEF StateImage

\* The sets the reservation counters count are finite.
LEMMA LeasedFinite ==
    ASSUME NEW c, NEW b
    PROVE  /\ IsFiniteSet(LeasedOn(c)) /\ IsFiniteSet(LeasedBy(b))
           /\ Cardinality(LeasedOn(c)) \in Nat /\ Cardinality(LeasedBy(b)) \in Nat
<1>1. LeasedOn(c) \subseteq Runs /\ LeasedBy(b) \subseteq Runs
  BY DEF LeasedOn, LeasedBy
<1>2. IsFiniteSet(Runs)
  BY RunConstants
<1> QED
  BY <1>1, <1>2, FS_Subset, FS_CardinalityType

\* A step that neither grants nor ends a lease leaves those sets alone.
LEMMA LeasedSame ==
    ASSUME \A q \in Runs : state[q] = "leased" <=> state'[q] = "leased",
           \A q \in Runs : state[q] = "leased" => cursor'[q] = cursor[q],
           NEW c, NEW b
    PROVE  LeasedOn(c)' = LeasedOn(c) /\ LeasedBy(b)' = LeasedBy(b)
BY DEF LeasedOn, LeasedBy, ConnectorOf, BindingOf

\* Granting a lease adds the Run to the sets of its Connector and its Binding.
LEMMA ClaimLeased ==
    ASSUME TypeOK, NEW r \in Runs, Claim(r), NEW c, NEW b
    PROVE  /\ LeasedOn(c)' = LeasedOn(c) \cup (IF c = ConnectorOf(r) THEN {r} ELSE {})
           /\ LeasedBy(b)' = LeasedBy(b) \cup (IF b = BindingOf(r) THEN {r} ELSE {})
           /\ r \notin LeasedOn(c) /\ r \notin LeasedBy(b)
<1>1. /\ state[r] = "offered" /\ state'[r] = "leased" /\ cursor' = cursor
      /\ \A q \in Runs \ {r} : state'[q] = state[q]
  BY ClaimLocal DEF LocalTo, SameRun
<1> QED
  BY <1>1 DEF LeasedOn, LeasedBy, ConnectorOf, BindingOf

\* Leaving a lease removes it from both.
LEMMA ReconcileLeased ==
    ASSUME TypeOK, NEW r \in Runs, NEW status \in {"released", "expired"},
           Reconcile(r, status), NEW c, NEW b
    PROVE  /\ LeasedOn(c)' = LeasedOn(c) \ (IF c = ConnectorOf(r) THEN {r} ELSE {})
           /\ LeasedBy(b)' = LeasedBy(b) \ (IF b = BindingOf(r) THEN {r} ELSE {})
           /\ c = ConnectorOf(r) => r \in LeasedOn(c)
           /\ b = BindingOf(r) => r \in LeasedBy(b)
<1>1. /\ state[r] = "leased" /\ state'[r] = "reconcile_required" /\ cursor' = cursor
      /\ \A q \in Runs \ {r} : state'[q] = state[q]
  BY DEF Reconcile, TypeOK
<1> QED
  BY <1>1 DEF LeasedOn, LeasedBy, ConnectorOf, BindingOf

\* The reservation counters stay exact and bounded when a lease is granted.
LEMMA ClaimCapacity ==
    ASSUME TypeOK, CapacityInv, NEW r \in Runs, Claim(r)
    PROVE  CapacityInv'
<1> DEFINE d == ConnectorOf(r)
           e == BindingOf(r)
<1>1. d \in Connectors /\ e \in Bindings
  BY CandidateType
<1>2. d = BindingConnector[e]
  BY DEF ConnectorOf
<1>3. /\ reserved' = [reserved EXCEPT ![d] = @ + 1]
      /\ bindingReserved' = [bindingReserved EXCEPT ![e] = @ + 1]
      /\ observed' = [observed EXCEPT ![d] = Observation(d)]
      /\ Eligible(r, e)
  BY DEF Claim
<1>4. /\ reserved[d] < MaxConcurrency[d]
      /\ reserved[d] < Observation(d).baseline + Observation(d).available
      /\ bindingReserved[e] < BindingMax[e]
  BY <1>2, <1>3 DEF Eligible, Admits
<1>5. /\ Observation(d).baseline \in Nat /\ Observation(d).available \in Nat
  BY <1>1, ObservationType DEF ObservationRow
<1> HIDE DEF d, e
<1>6. \A c \in Connectors : reserved'[c] = IF c = d THEN reserved[c] + 1 ELSE reserved[c]
  BY <1>1, <1>3 DEF TypeOK
<1>7. \A b \in Bindings :
         bindingReserved'[b] = IF b = e THEN bindingReserved[b] + 1 ELSE bindingReserved[b]
  BY <1>1, <1>3 DEF TypeOK
<1>8. ReservationsExact'
  <2>1. ASSUME NEW c \in Connectors PROVE reserved'[c] = Cardinality(LeasedOn(c)')
    <3>1. /\ LeasedOn(c)' = LeasedOn(c) \cup (IF c = d THEN {r} ELSE {}) /\ r \notin LeasedOn(c)
      BY ClaimLeased DEF d
    <3>2. reserved[c] = Cardinality(LeasedOn(c)) /\ IsFiniteSet(LeasedOn(c))
      BY LeasedFinite DEF CapacityInv, ReservationsExact
    <3>3. CASE c = d
      <4>1. Cardinality(LeasedOn(c)') = Cardinality(LeasedOn(c)) + 1
        BY <3>1, <3>2, <3>3, FS_AddElement
      <4> QED
        BY <1>6, <3>2, <3>3, <4>1
    <3> QED
      BY <1>6, <3>1, <3>2, <3>3
  <2>2. ASSUME NEW b \in Bindings PROVE bindingReserved'[b] = Cardinality(LeasedBy(b)')
    <3>1. /\ LeasedBy(b)' = LeasedBy(b) \cup (IF b = e THEN {r} ELSE {}) /\ r \notin LeasedBy(b)
      BY ClaimLeased DEF e
    <3>2. bindingReserved[b] = Cardinality(LeasedBy(b)) /\ IsFiniteSet(LeasedBy(b))
      BY LeasedFinite DEF CapacityInv, ReservationsExact
    <3>3. CASE b = e
      <4>1. Cardinality(LeasedBy(b)') = Cardinality(LeasedBy(b)) + 1
        BY <3>1, <3>2, <3>3, FS_AddElement
      <4> QED
        BY <1>7, <3>2, <3>3, <4>1
    <3> QED
      BY <1>7, <3>1, <3>2, <3>3
  <2> QED
    BY <2>1, <2>2 DEF ReservationsExact
<1>9. ReservationsBounded'
  <2>1. ASSUME NEW c \in Connectors PROVE reserved'[c] <= MaxConcurrency[c]
    BY <1>4, <1>6, RowTypes, ConstantTypes DEF CapacityInv, ReservationsBounded
  <2>2. ASSUME NEW b \in Bindings PROVE bindingReserved'[b] <= BindingMax[b]
    BY <1>4, <1>7, RowTypes, ConstantTypes DEF CapacityInv, ReservationsBounded
  <2> QED
    BY <2>1, <2>2 DEF ReservationsBounded
<1>10. ReportedCapacityRespected'
  <2>1. \A c \in Connectors : observed'[c] = IF c = d THEN Observation(d) ELSE observed[c]
    BY <1>1, <1>3 DEF TypeOK
  <2>2. ASSUME NEW c \in Connectors
        PROVE  reserved'[c] <= observed'[c].baseline + observed'[c].available
    <3>1. CASE c = d
      BY <1>1, <1>4, <1>5, <1>6, <2>1, <3>1, RowTypes
    <3>2. CASE c # d
      BY <1>6, <2>1, <3>2 DEF CapacityInv, ReportedCapacityRespected
    <3> QED
      BY <3>1, <3>2
  <2> QED
    BY <2>2 DEF ReportedCapacityRespected
<1> QED
  BY <1>8, <1>9, <1>10 DEF CapacityInv

\* They stay exact and bounded when one is given up.
LEMMA ReconcileCapacity ==
    ASSUME TypeOK, CapacityInv, NEW r \in Runs, NEW status \in {"released", "expired"},
           Reconcile(r, status)
    PROVE  CapacityInv'
<1> DEFINE d == ConnectorOf(r)
           e == BindingOf(r)
<1>1. d \in Connectors /\ e \in Bindings
  BY CandidateType
<1>2. /\ reserved' = [reserved EXCEPT ![d] = @ - 1]
      /\ bindingReserved' = [bindingReserved EXCEPT ![e] = @ - 1]
      /\ observed' = observed
  BY DEF Reconcile, Unreserve
<1> HIDE DEF d, e
<1>3. \A c \in Connectors : reserved'[c] = IF c = d THEN reserved[c] - 1 ELSE reserved[c]
  BY <1>1, <1>2 DEF TypeOK
<1>4. \A b \in Bindings :
         bindingReserved'[b] = IF b = e THEN bindingReserved[b] - 1 ELSE bindingReserved[b]
  BY <1>1, <1>2 DEF TypeOK
<1>5. ReservationsExact'
  <2>1. ASSUME NEW c \in Connectors PROVE reserved'[c] = Cardinality(LeasedOn(c)')
    <3>1. /\ LeasedOn(c)' = LeasedOn(c) \ (IF c = d THEN {r} ELSE {})
          /\ c = d => r \in LeasedOn(c)
      BY ReconcileLeased DEF d
    <3>2. reserved[c] = Cardinality(LeasedOn(c)) /\ IsFiniteSet(LeasedOn(c))
      BY LeasedFinite DEF CapacityInv, ReservationsExact
    <3>3. CASE c = d
      <4>1. Cardinality(LeasedOn(c)') = Cardinality(LeasedOn(c)) - 1
        BY <3>1, <3>2, <3>3, FS_RemoveElement
      <4> QED
        BY <1>3, <3>2, <3>3, <4>1
    <3> QED
      BY <1>3, <3>1, <3>2, <3>3
  <2>2. ASSUME NEW b \in Bindings PROVE bindingReserved'[b] = Cardinality(LeasedBy(b)')
    <3>1. /\ LeasedBy(b)' = LeasedBy(b) \ (IF b = e THEN {r} ELSE {})
          /\ b = e => r \in LeasedBy(b)
      BY ReconcileLeased DEF e
    <3>2. bindingReserved[b] = Cardinality(LeasedBy(b)) /\ IsFiniteSet(LeasedBy(b))
      BY LeasedFinite DEF CapacityInv, ReservationsExact
    <3>3. CASE b = e
      <4>1. Cardinality(LeasedBy(b)') = Cardinality(LeasedBy(b)) - 1
        BY <3>1, <3>2, <3>3, FS_RemoveElement
      <4> QED
        BY <1>4, <3>2, <3>3, <4>1
    <3> QED
      BY <1>4, <3>1, <3>2, <3>3
  <2> QED
    BY <2>1, <2>2 DEF ReservationsExact
<1>6. \A c \in Connectors : reserved'[c] <= reserved[c]
  BY <1>3, RowTypes
<1>7. \A b \in Bindings : bindingReserved'[b] <= bindingReserved[b]
  BY <1>4, RowTypes
<1>8. ReservationsBounded'
  <2>1. ASSUME NEW c \in Connectors PROVE reserved'[c] <= MaxConcurrency[c]
    BY <1>3, <1>6, RowTypes, ConstantTypes, SMTT(40) DEF CapacityInv, ReservationsBounded
  <2>2. ASSUME NEW b \in Bindings PROVE bindingReserved'[b] <= BindingMax[b]
    BY <1>4, <1>7, RowTypes, ConstantTypes DEF CapacityInv, ReservationsBounded
  <2> QED
    BY <2>1, <2>2 DEF ReservationsBounded
<1>9. ReportedCapacityRespected'
  <2>1. ASSUME NEW c \in Connectors
        PROVE  reserved'[c] <= observed'[c].baseline + observed'[c].available
    <3>1. observed[c].baseline \in Nat /\ observed[c].available \in Nat
      BY DEF TypeOK, ObservationRow
    <3>2. reserved[c] <= observed[c].baseline + observed[c].available
      BY DEF CapacityInv, ReportedCapacityRespected
    <3> QED
      BY <1>2, <1>3, <3>1, <3>2, RowTypes
  <2> QED
    BY <2>1 DEF ReportedCapacityRespected
<1> QED
  BY <1>5, <1>8, <1>9 DEF CapacityInv

\* Nothing else moves a counter; an offer may record a newer observation.
LEMMA OtherCapacity ==
    ASSUME TypeOK, CapacityInv,
           \A q \in Runs : state[q] = "leased" <=> state'[q] = "leased",
           \A q \in Runs : state[q] = "leased" => cursor'[q] = cursor[q],
           UNCHANGED <<reserved, bindingReserved>>,
           \A c \in Connectors : \/ observed'[c] = observed[c]
                                 \/ reserved[c] <= observed'[c].baseline + observed'[c].available
    PROVE  CapacityInv'
<1>1. ReservationsExact'
  BY LeasedSame DEF CapacityInv, ReservationsExact
<1>2. ReservationsBounded'
  BY DEF CapacityInv, ReservationsBounded
<1>3. ReportedCapacityRespected'
  BY DEF CapacityInv, ReportedCapacityRespected
<1> QED
  BY <1>1, <1>2, <1>3 DEF CapacityInv

\* Offering and expiring an unleased Run.
LEMMA QueueCapacity ==
    ASSUME TypeOK, CapacityInv, NEW r \in Runs,
           OfferNext(r) \/ Unavailable(r) \/ ExpireQueue(r) \/ ExpireOffer(r)
    PROVE  CapacityInv'
<1>1. QueueStep(r)
  BY QueueSteps
<1>2. /\ \A q \in Runs : state[q] = "leased" <=> state'[q] = "leased"
      /\ \A q \in Runs : state[q] = "leased" => cursor'[q] = cursor[q]
      /\ UNCHANGED <<reserved, bindingReserved>>
  BY <1>1 DEF QueueStep, LocalTo, SameRun, Waiting
<1>3. CASE OfferNext(r)
  <2> PICK k \in 0..(Len(Candidates[r]) - 1) :
        /\ Offerable(r, k)
        /\ observed' = [observed EXCEPT ![BindingConnector[Candidates[r][Position(r, k)]]] =
                           Observation(BindingConnector[Candidates[r][Position(r, k)]])]
    BY <1>3 DEF OfferNext
  <2> DEFINE d == BindingConnector[Candidates[r][Position(r, k)]]
  <2>1. k \in Nat
    BY PlanTypes
  <2>2. d \in Connectors
    BY <2>1, PositionType, ConstantTypes
  <2>3. Admits(d)
    BY DEF Offerable, Eligible
  <2> HIDE DEF d
  <2>4. observed' = [observed EXCEPT ![d] = Observation(d)]
    BY DEF d
  <2>5. reserved[d] <= Observation(d).baseline + Observation(d).available
    <3>1. Observation(d).baseline \in Nat /\ Observation(d).available \in Nat
      BY <2>2, ObservationType DEF ObservationRow
    <3> QED
      BY <2>2, <2>3, <3>1, RowTypes DEF Admits
  <2>6. \A c \in Connectors : \/ observed'[c] = observed[c]
                              \/ reserved[c] <= observed'[c].baseline + observed'[c].available
    BY <2>2, <2>4, <2>5 DEF TypeOK
  <2> QED
    BY <1>2, <2>6, OtherCapacity
<1>4. CASE Unavailable(r) \/ ExpireQueue(r) \/ ExpireOffer(r)
  <2>1. observed' = observed
    BY <1>4 DEF Unavailable, ExpireQueue, ExpireOffer, capacity
  <2> QED
    BY <1>2, <2>1, OtherCapacity
<1> QED
  BY <1>3, <1>4

\* No grant names an unleased Run, so moving one disturbs no authority.
LEMMA QueueAuthority ==
    ASSUME TypeOK, SingleAuthority, NEW r \in Runs, QueueStep(r)
    PROVE  SingleAuthority'
<1>1. ASSUME NEW g \in grants PROVE Authoritative(g)'
  <2>1. Authoritative(g) /\ g.run \in Runs
    BY DEF SingleAuthority, TypeOK
  <2>2. g.run # r
    BY <2>1 DEF Authoritative, QueueStep, Waiting
  <2>3. SameRun(g.run)
    BY <2>1, <2>2 DEF QueueStep, LocalTo
  <2> QED
    BY <2>1, <2>3 DEF Authoritative, SameRun, ConnectorOf, BindingOf
<1>2. grants' = grants /\ highRunEpoch' = highRunEpoch
  BY DEF QueueStep
<1> QED
  BY <1>1, <1>2 DEF SingleAuthority

\* The lease granted by a claim is the first and only one of its Run.
LEMMA ClaimAuthority ==
    ASSUME TypeOK, StateImage, SingleAuthority, NEW r \in Runs, Claim(r)
    PROVE  SingleAuthority'
<1>1. /\ LocalTo(r) /\ state[r] = "offered" /\ state'[r] = "leased" /\ cursor' = cursor
      /\ highRunEpoch'[r] = highRunEpoch[r] + 1
      /\ grants' = grants \cup
                 {[run |-> r, connector |-> ConnectorOf(r), lease |-> runLease'[r]]}
  BY ClaimLocal
<1>2. ASSUME NEW g \in grants PROVE Authoritative(g)'
  <2>1. Authoritative(g) /\ g.run \in Runs
    BY DEF SingleAuthority, TypeOK
  <2>2. SameRun(g.run)
    BY <1>1, <2>1 DEF Authoritative, LocalTo
  <2> QED
    BY <2>1, <2>2 DEF Authoritative, SameRun, ConnectorOf, BindingOf
<1>3. ASSUME NEW g, g = [run |-> r, connector |-> ConnectorOf(r), lease |-> runLease'[r]]
      PROVE  Authoritative(g)'
  BY <1>1, <1>3 DEF Authoritative, ConnectorOf, BindingOf
<1>4. \A q \in Runs : highRunEpoch'[q] <= 1
  <2>1. highRunEpoch[r] = 0
    BY <1>1 DEF StateImage, ImageOK
  <2> QED
    BY <1>1, <2>1 DEF SingleAuthority, LocalTo, SameRun
<1>5. \A g \in grants' : Authoritative(g)'
  BY <1>1, <1>2, <1>3
<1> QED
  BY <1>4, <1>5 DEF SingleAuthority

\* Giving the lease up keeps everything a grant says about it.
LEMMA ReconcileAuthority ==
    ASSUME TypeOK, SingleAuthority, NEW r \in Runs, NEW status \in {"released", "expired"},
           Reconcile(r, status), \A q \in Runs \ {r} : exec'[q] = exec[q]
    PROVE  SingleAuthority'
<1>1. LocalTo(r) /\ state'[r] = "reconcile_required" /\ cursor' = cursor
  BY ReconcileLocal
<1>2. /\ runLease'[r].epoch = runLease[r].epoch /\ runLease'[r].attempt = runLease[r].attempt
      /\ runLease'[r].fence = runLease[r].fence /\ runLease'[r].expires = runLease[r].expires
  BY ReconcileLocal
<1>3. ASSUME NEW g \in grants PROVE Authoritative(g)'
  <2>1. Authoritative(g) /\ g.run \in Runs
    BY DEF SingleAuthority, TypeOK
  <2>2. CASE g.run = r
    BY <1>1, <1>2, <2>1, <2>2 DEF Authoritative, ConnectorOf, BindingOf
  <2>3. CASE g.run # r
    <3>1. SameRun(g.run)
      BY <1>1, <2>1, <2>3 DEF LocalTo
    <3> QED
      BY <2>1, <3>1 DEF Authoritative, SameRun, ConnectorOf, BindingOf
  <2> QED
    BY <2>2, <2>3
<1>4. grants' = grants /\ highRunEpoch' = highRunEpoch
  BY DEF Reconcile
<1> QED
  BY <1>3, <1>4 DEF SingleAuthority

\* Steps that touch no lease: at most a grant is sent again.
LEMMA OtherAuthority ==
    ASSUME TypeOK, SingleAuthority,
           UNCHANGED <<state, cursor, runLease, highRunEpoch>>,
           NEW r \in Runs,
           grants' = grants \/ (state[r] = "leased" /\ grants' = grants \cup {Granted(r)})
    PROVE  SingleAuthority'
<1>1. ASSUME NEW g \in grants PROVE Authoritative(g)'
  BY DEF SingleAuthority, Authoritative, ConnectorOf, BindingOf
<1>2. ASSUME NEW g, g = Granted(r), state[r] = "leased" PROVE Authoritative(g)'
  BY <1>2 DEF Authoritative, Granted, ConnectorOf, BindingOf
<1>3. \A g \in grants' : Authoritative(g)'
  BY <1>1, <1>2
<1> QED
  BY <1>3 DEF SingleAuthority

\* A lease is granted within the authority it is granted under.
LEMMA ClaimWithin ==
    ASSUME TypeOK, NewestLease, LeaseWithinAuthority, NEW r \in Runs, Claim(r)
    PROVE  LeaseWithinAuthority'
<1> DEFINE c == ConnectorOf(r)
<1>1. LocalTo(r) /\ cursor' = cursor /\ state'[r] = "leased"
  BY ClaimLocal
<1>2. \A q \in Runs : ConnectorOf(q)' = ConnectorOf(q)
  BY <1>1 DEF ConnectorOf, BindingOf
<1>3. c \in Connectors
  BY CandidateType
<1>4. CurrentFence(c, offer[r].fence)
  BY DEF Claim
<1>5. runLease'[r].fence = offer[r].fence /\ runLease'[r].expires = LeaseDeadline(r, c)
  BY ClaimFields
<1> HIDE DEF c
<1>6. runLease'[r].fence \in 1..highEpoch[c]
  BY <1>3, <1>4, <1>5, RowTypes DEF CurrentFence, Held, NewestLease
<1>7. runLease'[r].expires <= GrantExpires[r] /\ runLease'[r].expires <= lease[c].expires
  BY <1>3, <1>5, RowTypes, ConstantTypes DEF LeaseDeadline, Lesser
<1>8. lease' = lease /\ highEpoch' = highEpoch
  BY <1>1 DEF LocalTo
<1>9. \A q \in Runs \ {r} : SameRun(q)
  BY <1>1 DEF LocalTo
<1>10. ConnectorOf(r)' = c
  BY <1>2 DEF c
<1> QED
  BY <1>2, <1>6, <1>7, <1>8, <1>9, <1>10 DEF LeaseWithinAuthority, SameRun

\* The control plane extends or revokes a control lease, never shortens it.
LEMMA ControlWithin ==
    ASSUME TypeOK, TypeOK', NewestLease, LeaseWithinAuthority, LeaseStep,
           UNCHANGED <<state, cursor, runLease>>
    PROVE  LeaseWithinAuthority'
<1> SUFFICES ASSUME NEW r \in Runs, state[r] = "leased"
             PROVE  /\ runLease[r].fence \in 1..highEpoch'[ConnectorOf(r)]
                    /\ runLease[r].expires <= GrantExpires[r]
                    /\ lease'[ConnectorOf(r)].epoch = runLease[r].fence
                          => runLease[r].expires <= lease'[ConnectorOf(r)].expires
  BY DEF LeaseWithinAuthority, ConnectorOf, BindingOf
<1> DEFINE c == ConnectorOf(r)
<1>1. /\ runLease[r].fence \in 1..highEpoch[c] /\ runLease[r].expires <= GrantExpires[r]
      /\ lease[c].epoch = runLease[r].fence => runLease[r].expires <= lease[c].expires
  BY DEF LeaseWithinAuthority
<1>2. c \in Connectors
  BY CandidateType
<1> HIDE DEF c
<1>3. LeaseInv
  BY DEF LeaseInv, TypeOK
<1>4. /\ lease[c].epoch \in Nat /\ lease'[c].epoch \in Nat
      /\ lease[c].expires \in Nat /\ lease'[c].expires \in Nat
      /\ highEpoch[c] \in Nat /\ highEpoch'[c] \in Nat
  BY <1>2 DEF TypeOK, LeaseTypeOK, LeaseRow
<1>5. /\ runLease[r].fence \in Nat /\ runLease[r].expires \in Nat
  BY RunLeaseTypes
<1>6. IF lease'[c].epoch = lease[c].epoch /\ Held(c)
      THEN lease'[c].expires >= lease[c].expires
      ELSE lease'[c].epoch = 0 \/ lease'[c].epoch > highEpoch[c]
  BY <1>2, <1>3, LeaseStepMonotone
<1>7. highEpoch'[c] >= highEpoch[c]
  BY <1>2, <1>3, EpochsGrow
<1>8. runLease[r].fence \in 1..highEpoch'[c]
  BY <1>1, <1>4, <1>5, <1>7
<1>9. lease'[c].epoch = runLease[r].fence => runLease[r].expires <= lease'[c].expires
  BY <1>1, <1>4, <1>5, <1>6 DEF Held
<1> QED
  BY <1>1, <1>8, <1>9 DEF c

\* Any other step leaves the leases it does not end where they are.
LEMMA OtherWithin ==
    ASSUME TypeOK, LeaseWithinAuthority, UNCHANGED <<lease, highEpoch>>,
           \A q \in Runs : state'[q] = "leased" =>
              state[q] = "leased" /\ cursor'[q] = cursor[q] /\ runLease'[q] = runLease[q]
    PROVE  LeaseWithinAuthority'
BY DEF LeaseWithinAuthority, ConnectorOf, BindingOf

\* What TerminalOwnsRelease says of one Run.
TerminalOK(r) ==
    /\ (exec[r].state \in Kinds) <=> (Len(exec[r].terminal) = 1)
    /\ exec[r].state \in Kinds =>
          /\ state[r] = "reconcile_required"
          /\ runLease[r].status = "released"

\* A Run whose reports a step leaves alone, unless it closes them.
LEMMA TerminalFrame ==
    ASSUME TerminalOwnsRelease, NEW r \in Runs,
           \A q \in Runs \ {r} : SameRun(q), TerminalOK(r)'
    PROVE  TerminalOwnsRelease'
<1>1. ASSUME NEW q \in Runs PROVE TerminalOK(q)'
  BY DEF TerminalOwnsRelease, TerminalOK, SameRun
<1> QED
  BY <1>1 DEF TerminalOwnsRelease, TerminalOK

\* RunInv holds of the initial state.
LEMMA RunInvInit == Init => RunInv
<1> SUFFICES ASSUME Init PROVE RunInv
  OBVIOUS
<1>1. TypeOK /\ NewestLease
  BY InitType, LeaseInitInv DEF Init, LeaseInv
<1>2. StateImage
  BY DEF Init, RunInit, StateImage, ImageOK
<1>3. CapacityInv
  <2>1. \A c \in Connectors : LeasedOn(c) = {}
    BY DEF Init, RunInit, LeasedOn
  <2>2. \A b \in Bindings : LeasedBy(b) = {}
    BY DEF Init, RunInit, LeasedBy
  <2>3. ReservationsExact
    BY <2>1, <2>2, FS_EmptySet DEF Init, RunInit, ReservationsExact
  <2>4. ReservationsBounded
    BY ConstantTypes DEF Init, RunInit, ReservationsBounded
  <2>5. ReportedCapacityRespected
    <3>1. \A c \in Connectors : /\ reserved[c] = 0 /\ observed[c].baseline = 0
                                 /\ observed[c].available = 0
      BY DEF Init, RunInit, Unobserved
    <3>2. ASSUME NEW c \in Connectors
          PROVE  reserved[c] <= observed[c].baseline + observed[c].available
      <4>1. reserved[c] = 0 /\ observed[c].baseline = 0 /\ observed[c].available = 0
        BY <3>1
      <4>2. 0 <= 0 + 0
        OBVIOUS
      <4> QED
        BY <4>1, <4>2
    <3> QED
      BY <3>2 DEF ReportedCapacityRespected
  <2> QED
    BY <2>3, <2>4, <2>5 DEF CapacityInv
<1>4. SingleAuthority /\ LeaseWithinAuthority
  BY DEF Init, RunInit, SingleAuthority, LeaseWithinAuthority
<1>5. TerminalOwnsRelease
  <2>1. \A r \in Runs : exec[r].state = "none" /\ exec[r].terminal = <<>>
    BY DEF Init, RunInit, NoExec
  <2> QED
    BY <2>1 DEF TerminalOwnsRelease, Kinds
<1> QED
  BY <1>1, <1>2, <1>3, <1>4, <1>5 DEF RunInv

\* Offering and expiring an unleased Run preserve RunInv.
LEMMA QueueInv ==
    ASSUME RunInv, TypeOK', NewestLease', NEW r \in Runs,
           OfferNext(r) \/ Unavailable(r) \/ ExpireQueue(r) \/ ExpireOffer(r)
    PROVE  RunInv'
<1> USE DEF RunInv
<1>1. QueueStep(r)
  BY QueueSteps
<1>2. StateImage'
  BY QueueImage
<1>3. CapacityInv'
  BY QueueCapacity
<1>4. SingleAuthority'
  BY <1>1, QueueAuthority
<1>5. LeaseWithinAuthority'
  <2>1. UNCHANGED <<lease, highEpoch>>
    BY <1>1 DEF QueueStep, LocalTo
  <2>2. \A q \in Runs : state'[q] = "leased" =>
           state[q] = "leased" /\ cursor'[q] = cursor[q] /\ runLease'[q] = runLease[q]
    BY <1>1 DEF QueueStep, LocalTo, SameRun, Waiting
  <2> QED
    BY <2>1, <2>2, OtherWithin
<1>6. TerminalOwnsRelease'
  <2>1. TerminalOK(r)'
    BY <1>1 DEF QueueStep, Waiting, TerminalOwnsRelease, TerminalOK
  <2> QED
    BY <1>1, <2>1, TerminalFrame DEF QueueStep, LocalTo
<1> QED
  BY <1>2, <1>3, <1>4, <1>5, <1>6

\* Claiming preserves RunInv.
LEMMA ClaimInv ==
    ASSUME RunInv, TypeOK', NewestLease', NEW r \in Runs, Claim(r)
    PROVE  RunInv'
<1> USE DEF RunInv
<1>1. StateImage' /\ CapacityInv' /\ SingleAuthority' /\ LeaseWithinAuthority'
  BY ClaimImage, ClaimCapacity, ClaimAuthority, ClaimWithin
<1>2. TerminalOwnsRelease'
  <2>1. LocalTo(r) /\ exec' = exec /\ state[r] = "offered"
    BY ClaimLocal
  <2>2. TerminalOK(r)'
    BY <2>1 DEF TerminalOwnsRelease, TerminalOK
  <2> QED
    BY <2>1, <2>2, TerminalFrame DEF LocalTo
<1> QED
  BY <1>1, <1>2

\* Every way of leaving an execution lease preserves RunInv.
LEMMA ReconcileInv ==
    ASSUME RunInv, TypeOK', NewestLease', NEW r \in Runs, NEW status \in {"released", "expired"},
           Reconcile(r, status), \A q \in Runs \ {r} : exec'[q] = exec[q],
           \/ exec'[r] = exec[r]
           \/ exec'[r].state \in Kinds /\ Len(exec'[r].terminal) = 1 /\ status = "released"
    PROVE  RunInv'
<1> USE DEF RunInv
<1>1. LocalTo(r) /\ state[r] = "leased" /\ state'[r] = "reconcile_required"
      /\ runLease'[r].status = status
  BY ReconcileLocal
<1>2. StateImage' /\ CapacityInv' /\ SingleAuthority'
  BY ReconcileImage, ReconcileCapacity, ReconcileAuthority
<1>3. LeaseWithinAuthority'
  <2>1. UNCHANGED <<lease, highEpoch>>
    BY <1>1 DEF LocalTo
  <2>2. \A q \in Runs : state'[q] = "leased" =>
           state[q] = "leased" /\ cursor'[q] = cursor[q] /\ runLease'[q] = runLease[q]
    BY <1>1 DEF LocalTo, SameRun
  <2> QED
    BY <2>1, <2>2, OtherWithin
<1>4. TerminalOwnsRelease'
  <2>1. TerminalOK(r)'
    BY <1>1 DEF TerminalOwnsRelease, TerminalOK
  <2> QED
    BY <1>1, <2>1, TerminalFrame DEF LocalTo
<1> QED
  BY <1>2, <1>3, <1>4

\* Reports, retried grants, cancellations and policy changes preserve RunInv.
LEMMA QuietInv ==
    ASSUME RunInv, TypeOK', NewestLease', NEW r \in Runs,
           UNCHANGED <<state, cursor, offer, runLease, highAttempt, highRunEpoch,
                       reserved, bindingReserved, observed, lease, highEpoch>>,
           \A q \in Runs \ {r} : exec'[q] = exec[q],
           TerminalOK(r) => TerminalOK(r)',
           grants' = grants \/ (state[r] = "leased" /\ grants' = grants \cup {Granted(r)})
    PROVE  RunInv'
<1> USE DEF RunInv
<1>1. StateImage'
  BY DEF StateImage, ImageOK, ConnectorOf, BindingOf
<1>2. CapacityInv'
  BY OtherCapacity
<1>3. SingleAuthority'
  BY OtherAuthority
<1>4. LeaseWithinAuthority'
  BY OtherWithin
<1>5. TerminalOwnsRelease'
  <2>1. TerminalOK(r)'
    BY DEF TerminalOwnsRelease, TerminalOK
  <2>2. \A q \in Runs \ {r} : SameRun(q)
    BY DEF SameRun
  <2> QED
    BY <2>1, <2>2, TerminalFrame
<1> QED
  BY <1>1, <1>2, <1>3, <1>4, <1>5

\* Every transaction on a Run preserves RunInv.
LEMMA RunStepInv ==
    ASSUME RunInv, TypeOK', NewestLease', NEW r \in Runs, RunStep(r)
    PROVE  RunInv'
<1> USE DEF leaseVars, routing, capacity, policy
<1>0. TypeOK /\ exec[r] \in ExecRow
  BY DEF RunInv, TypeOK
<1>1. CASE OfferNext(r) \/ Unavailable(r) \/ ExpireQueue(r) \/ ExpireOffer(r)
  BY <1>1, QueueInv
<1>2. CASE Claim(r)
  BY <1>2, ClaimInv
<1>3. CASE ClaimRetry(r)
  <2>1. /\ UNCHANGED <<state, cursor, offer, runLease, highAttempt, highRunEpoch,
                       reserved, bindingReserved, observed, lease, highEpoch, exec>>
        /\ state[r] = "leased" /\ grants' = grants \cup {Granted(r)}
    BY <1>3 DEF ClaimRetry
  <2>2. TerminalOK(r) => TerminalOK(r)'
    BY <2>1 DEF TerminalOK
  <2> QED
    BY <2>1, <2>2, QuietInv
<1>4. CASE Release(r)
  BY <1>4, ReconcileInv DEF Release
<1>5. CASE ExpireLease(r)
  BY <1>5, ReconcileInv DEF ExpireLease
<1>6. ASSUME NEW s \in Streams, NEW p \in Payloads, Report(r, s, p) PROVE RunInv'
  <2>1. /\ UNCHANGED <<state, cursor, offer, runLease, highAttempt, highRunEpoch,
                       reserved, bindingReserved, observed, lease, highEpoch, grants>>
        /\ exec[r].state \in {"none", "active"}
    BY <1>6 DEF Report
  <2>2. /\ exec'[r].state = "active" /\ exec'[r].terminal = exec[r].terminal
        /\ \A q \in Runs \ {r} : exec'[q] = exec[q]
    <3>1. exec' = [exec EXCEPT ![r] =
             [state |-> "active", terminal |-> exec[r].terminal,
              streams |-> [exec[r].streams EXCEPT ![s] = Append(@, p)]]]
      BY <1>6 DEF Report
    <3> QED
      BY <1>0, <3>1 DEF TypeOK
  <2>3. TerminalOK(r) => TerminalOK(r)'
    BY <2>1, <2>2 DEF TerminalOK, Kinds
  <2> QED
    BY <2>1, <2>2, <2>3, QuietInv
<1>7. ASSUME NEW kind \in Kinds, NEW p \in Payloads, Terminal(r, kind, p) PROVE RunInv'
  <2>1. exec' = [exec EXCEPT ![r] =
           [state |-> kind, terminal |-> <<p>>, streams |-> exec[r].streams]]
    BY <1>7 DEF Terminal
  <2>2. exec'[r] = [state |-> kind, terminal |-> <<p>>, streams |-> exec[r].streams]
        /\ \A q \in Runs \ {r} : exec'[q] = exec[q]
    BY <1>0, <2>1 DEF TypeOK
  <2>3. exec'[r].state \in Kinds /\ Len(exec'[r].terminal) = 1
    BY <2>2
  <2>4. Reconcile(r, "released")
    BY <1>7 DEF Terminal
  <2> QED
    BY <2>2, <2>3, <2>4, ReconcileInv
<1>8. ASSUME NEW d \in 0..MaxTime, RequestCancellation(r, d) PROVE RunInv'
  <2>1. UNCHANGED <<state, cursor, offer, runLease, highAttempt, highRunEpoch,
                    reserved, bindingReserved, observed, lease, highEpoch, exec, grants>>
    BY <1>8 DEF RequestCancellation
  <2>2. TerminalOK(r) => TerminalOK(r)'
    BY <2>1 DEF TerminalOK
  <2> QED
    BY <2>1, <2>2, QuietInv
<1>9. CASE RevokeGrant(r)
  <2>1. UNCHANGED <<state, cursor, offer, runLease, highAttempt, highRunEpoch,
                    reserved, bindingReserved, observed, lease, highEpoch, exec, grants>>
    BY <1>9 DEF RevokeGrant
  <2>2. TerminalOK(r) => TerminalOK(r)'
    BY <2>1 DEF TerminalOK
  <2> QED
    BY <2>1, <2>2, QuietInv
<1> QED
  BY <1>1, <1>2, <1>3, <1>4, <1>5, <1>6, <1>7, <1>8, <1>9 DEF RunStep, Serve, Sweep

\* A step that touches no Run preserves RunInv.
LEMMA IdleInv ==
    ASSUME RunInv, TypeOK', NewestLease', UNCHANGED <<routing, exec, grants, capacity>>,
           [LeaseStep]_leaseVars
    PROVE  RunInv'
<1> USE DEF RunInv, routing, capacity
<1>1. LeaseInv
  BY DEF LeaseInv, TypeOK
<1>2. StateImage'
  <2>1. \A c \in Connectors : highEpoch'[c] >= highEpoch[c]
    BY <1>1, EpochsGrow
  <2>2. \A q \in Runs : SameRun(q)
    BY DEF SameRun
  <2> QED
    BY <2>1, <2>2, OtherImage
<1>3. CapacityInv'
  BY OtherCapacity
<1>4. SingleAuthority'
  BY DEF SingleAuthority, Authoritative, ConnectorOf, BindingOf
<1>5. LeaseWithinAuthority'
  <2>1. CASE LeaseStep
    BY <2>1, ControlWithin
  <2>2. CASE UNCHANGED leaseVars
    BY <2>2, OtherWithin DEF leaseVars
  <2> QED
    BY <2>1, <2>2
<1>6. TerminalOwnsRelease'
  BY DEF TerminalOwnsRelease
<1> QED
  BY <1>2, <1>3, <1>4, <1>5, <1>6

\* RunInv is inductive.
LEMMA RunInvStep == RunInv /\ [Next]_vars => RunInv'
<1> SUFFICES ASSUME RunInv, [Next]_vars PROVE RunInv'
  OBVIOUS
<1>1. TypeOK' /\ NewestLease'
  <2>1. TypeOK /\ LeaseInv
    BY DEF RunInv, LeaseInv, TypeOK
  <2> QED
    BY <2>1, NextType DEF LeaseInv
<1>2. CASE ControlPlane
  BY <1>1, <1>2, IdleInv DEF ControlPlane, runVars
<1>3. ASSUME NEW r \in Runs, RunStep(r) PROVE RunInv'
  BY <1>1, <1>3, RunStepInv
<1>4. ASSUME NEW b \in Bindings, SetEnabled(b) PROVE RunInv'
  BY <1>1, <1>4, IdleInv DEF SetEnabled
<1>5. CASE UNCHANGED vars
  BY <1>1, <1>5, IdleInv DEF vars, runVars
<1> QED
  BY <1>2, <1>3, <1>4, <1>5 DEF Next

(***************************************************************************)
(* RunInv holds in every reachable state: the persisted images are valid,  *)
(* reservations are exact and bounded, execution authority is unique and   *)
(* within what it was granted under, and terminal reports close the lease  *)
(* they were sent under.                                                   *)
(***************************************************************************)
THEOREM RunSafety == Spec => []RunInv
BY RunInvInit, RunInvStep, PTL DEF Spec

\* At most one Connector is ever granted the execution of a Run.
THEOREM RunSingleAuthority == Spec => []SingleAuthority
BY RunSafety, PTL DEF RunInv

\* Reservation counters equal the Runs they count and stay within the limits.
THEOREM RunReservations == Spec => [](ReservationsExact /\ ReservationsBounded)
<1>1. RunInv => ReservationsExact /\ ReservationsBounded
  BY DEF RunInv, CapacityInv
<1> QED
  BY <1>1, RunSafety, PTL

\* An execution lease never outlives the authority it was granted under.
THEOREM RunLeaseWithin == Spec => []LeaseWithinAuthority
BY RunSafety, PTL DEF RunInv

\* The image a Run was saved with can always be loaded again.
THEOREM RunImages == Spec => []StateImage
BY RunSafety, PTL DEF RunInv

\* A Connector and a Binding are given no more than they can take and had reported.
THEOREM RunCapacity == Spec => []CapacityRespected
<1>1. RunInv => CapacityRespected
  BY DEF RunInv, CapacityInv, CapacityRespected
<1> QED
  BY <1>1, RunSafety, PTL

\* A terminal report closed the very lease it was sent under (finish_execution).
THEOREM RunTerminals == Spec => []TerminalOwnsRelease
BY RunSafety, PTL DEF RunInv

-----------------------------------------------------------------------------
(* What a step never does to recorded history *)

\* One Run of HistoryImmutable.
Recorded(r) ==
    /\ state[r] \in {"reconcile_required", "expired"} => state'[r] = state[r]
    /\ \A s \in Streams :
          /\ Len(exec'[r].streams[s]) >= Len(exec[r].streams[s])
          /\ \A i \in 1..Len(exec[r].streams[s]) :
                exec'[r].streams[s][i] = exec[r].streams[s][i]
    /\ exec[r].state \in Kinds => exec'[r] = exec[r]

\* A Run whose execution is not touched keeps its history.
LEMMA RecordedSame ==
    ASSUME TypeOK, NEW r \in Runs, exec'[r] = exec[r],
           state[r] \in {"reconcile_required", "expired"} => state'[r] = state[r]
    PROVE  Recorded(r)
<1>1. \A s \in Streams : Len(exec[r].streams[s]) \in Nat
  BY DEF TypeOK, ExecRow
<1> QED
  BY <1>1 DEF Recorded

\* Append adds behind what a sequence already holds.
LEMMA AppendKeeps ==
    ASSUME NEW S, NEW old \in Seq(S), NEW e \in S
    PROVE  /\ Len(Append(old, e)) >= Len(old)
           /\ \A i \in 1..Len(old) : Append(old, e)[i] = old[i]
OBVIOUS

\* A report is appended to one stream of a Run that has no terminal report.
LEMMA ReportRecorded ==
    ASSUME TypeOK, NEW r \in Runs, NEW s \in Streams, NEW p \in Payloads, Report(r, s, p)
    PROVE  Recorded(r)
<1>1. exec[r] \in ExecRow /\ exec[r].state \in {"none", "active"}
  BY DEF TypeOK, Report
<1>2. exec[r].streams \in [Streams -> Seq(Payloads)]
  BY <1>1 DEF ExecRow
<1>3. exec' = [exec EXCEPT ![r] =
         [state |-> "active", terminal |-> exec[r].terminal,
          streams |-> [exec[r].streams EXCEPT ![s] = Append(exec[r].streams[s], p)]]]
  BY DEF Report
<1>4. exec'[r].streams = [exec[r].streams EXCEPT ![s] = Append(exec[r].streams[s], p)]
  BY <1>3 DEF TypeOK
<1>5. ASSUME NEW t \in Streams
      PROVE  /\ Len(exec'[r].streams[t]) >= Len(exec[r].streams[t])
             /\ \A i \in 1..Len(exec[r].streams[t]) :
                   exec'[r].streams[t][i] = exec[r].streams[t][i]
  <2>1. exec[r].streams[t] \in Seq(Payloads) /\ Len(exec[r].streams[t]) \in Nat
    BY <1>2
  <2>2. CASE t = s
    <3>1. exec'[r].streams[t] = Append(exec[r].streams[t], p)
      BY <1>2, <1>4, <2>2
    <3>2. /\ Len(Append(exec[r].streams[t], p)) >= Len(exec[r].streams[t])
          /\ \A i \in 1..Len(exec[r].streams[t]) :
                Append(exec[r].streams[t], p)[i] = exec[r].streams[t][i]
      BY <2>1, AppendKeeps
    <3> QED
      BY <3>1, <3>2, Zenon
  <2>3. CASE t # s
    BY <1>2, <1>4, <2>1, <2>3
  <2> QED
    BY <2>2, <2>3
<1>6. state' = state
  BY DEF Report, routing
<1> QED
  BY <1>1, <1>5, <1>6 DEF Recorded, Kinds

\* Every transaction on a Run keeps the history of all Runs.
LEMMA RunStepRecorded ==
    ASSUME RunInv, NEW r \in Runs, RunStep(r), NEW q \in Runs
    PROVE  Recorded(q)
<1> USE DEF leaseVars, routing, capacity, policy
<1>0. TypeOK /\ exec[r] \in ExecRow
  BY DEF RunInv, TypeOK
<1>1. CASE OfferNext(r) \/ Unavailable(r) \/ ExpireQueue(r) \/ ExpireOffer(r)
  <2>1. exec' = exec
    BY <1>0, <1>1, QueueSteps DEF QueueStep
  <2>2. state[q] \in {"reconcile_required", "expired"} => state'[q] = state[q]
    BY <1>0, <1>1 DEF TypeOK, OfferNext, Unavailable, ExpireQueue, ExpireOffer
  <2> QED
    BY <1>0, <2>1, <2>2, RecordedSame
<1>2. CASE Claim(r)
  <2>1. LocalTo(r) /\ state[r] = "offered" /\ exec' = exec
    BY <1>0, <1>2, ClaimLocal
  <2> QED
    BY <1>0, <2>1, RecordedSame DEF LocalTo, SameRun
<1>3. CASE ClaimRetry(r) \/ RevokeGrant(r)
  <2>1. UNCHANGED <<exec, state>>
    BY <1>3 DEF ClaimRetry, RevokeGrant
  <2> QED
    BY <1>0, <2>1, RecordedSame
<1>4. CASE Release(r) \/ ExpireLease(r)
  <2>1. state[r] = "leased" /\ state' = [state EXCEPT ![r] = "reconcile_required"] /\ exec' = exec
    BY <1>4 DEF Release, ExpireLease, Reconcile
  <2> QED
    BY <1>0, <2>1, RecordedSame DEF TypeOK
<1>5. ASSUME NEW s \in Streams, NEW p \in Payloads, Report(r, s, p) PROVE Recorded(q)
  <2>1. CASE q = r
    BY <1>0, <1>5, <2>1, ReportRecorded
  <2>2. CASE q # r
    <3>1. exec'[q] = exec[q] /\ state' = state
      BY <1>0, <1>5, <2>2 DEF Report, TypeOK
    <3> QED
      BY <1>0, <3>1, RecordedSame
  <2> QED
    BY <2>1, <2>2
<1>6. ASSUME NEW kind \in Kinds, NEW p \in Payloads, Terminal(r, kind, p) PROVE Recorded(q)
  <2>1. /\ exec' = [exec EXCEPT ![r] =
              [state |-> kind, terminal |-> <<p>>, streams |-> exec[r].streams]]
        /\ exec[r].state \in {"none", "active"}
        /\ state[r] = "leased" /\ state' = [state EXCEPT ![r] = "reconcile_required"]
    BY <1>6 DEF Terminal, Reconcile
  <2>2. CASE q = r
    <3>1. exec'[r].streams = exec[r].streams
      BY <1>0, <2>1 DEF TypeOK
    <3>2. \A s \in Streams : Len(exec[r].streams[s]) \in Nat
      BY <1>0 DEF ExecRow
    <3> QED
      BY <2>1, <2>2, <3>1, <3>2 DEF Recorded, Kinds
  <2>3. CASE q # r
    <3>1. exec'[q] = exec[q] /\ state'[q] = state[q]
      BY <1>0, <2>1, <2>3 DEF TypeOK
    <3> QED
      BY <1>0, <3>1, RecordedSame
  <2> QED
    BY <2>2, <2>3
<1>7. ASSUME NEW d \in 0..MaxTime, RequestCancellation(r, d) PROVE Recorded(q)
  <2>1. UNCHANGED <<exec, state>>
    BY <1>7 DEF RequestCancellation
  <2> QED
    BY <1>0, <2>1, RecordedSame
<1> QED
  BY <1>1, <1>2, <1>3, <1>4, <1>5, <1>6, <1>7 DEF RunStep, Serve, Sweep

\* Settled Runs stay settled, reports are only appended, and a terminal report is the last
\* word on an execution, whatever the Connector repeats (HistoryImmutable).
THEOREM RunHistory == Spec => HistoryImmutable
<1>1. ASSUME RunInv, [Next]_vars PROVE \A q \in Runs : Recorded(q)
  <2>0. TypeOK
    BY <1>1 DEF RunInv
  <2>1. CASE ControlPlane \/ UNCHANGED vars \/ \E b \in Bindings : SetEnabled(b)
    <3>1. UNCHANGED <<exec, state>>
      BY <2>1 DEF ControlPlane, SetEnabled, vars, runVars, routing
    <3> QED
      BY <2>0, <3>1, RecordedSame
  <2>2. ASSUME NEW r \in Runs, RunStep(r) PROVE \A q \in Runs : Recorded(q)
    BY <1>1, <2>2, RunStepRecorded
  <2> QED
    BY <1>1, <2>1, <2>2 DEF Next
<1>2. RunInv /\ [Next]_vars =>
        [\A r \in Runs :
            /\ state[r] \in {"reconcile_required", "expired"} => state'[r] = state[r]
            /\ \A s \in Streams :
                  /\ Len(exec'[r].streams[s]) >= Len(exec[r].streams[s])
                  /\ \A i \in 1..Len(exec[r].streams[s]) :
                        exec'[r].streams[s][i] = exec[r].streams[s][i]
            /\ exec[r].state \in Kinds => exec'[r] = exec[r]]_vars
  BY <1>1 DEF Recorded
<1> QED
  BY <1>2, RunSafety, PTL DEF Spec, HistoryImmutable

-----------------------------------------------------------------------------
(* Capacity observations *)

\* No capacity observation comes from a lease or a heartbeat that is yet to come.
ObservedSeen ==
    \A c \in Connectors :
        /\ observed[c].epoch <= highEpoch[c]
        /\ Held(c) /\ observed[c].epoch = lease[c].epoch =>
              observed[c].heartbeat <= lease[c].heartbeat

\* One Connector of ObservationAdvances.
Advanced(c) ==
    observed'[c] # observed[c] =>
        /\ observed'[c].baseline = reserved[c]
        /\ observed'[c].epoch >= observed[c].epoch
        /\ observed'[c].epoch = observed[c].epoch =>
              observed'[c].heartbeat > observed[c].heartbeat

\* An observation is replaced only by the observation of the lease its Connector holds.
LEMMA ObservedChange ==
    ASSUME TypeOK, NEW r \in Runs, RunStep(r), NEW c \in Connectors
    PROVE  /\ UNCHANGED leaseVars
           /\ \/ observed'[c] = observed[c]
              \/ Held(c) /\ observed'[c] = Observation(c)
<1> USE DEF leaseVars, capacity
<1>1. CASE OfferNext(r)
  <2>1. PICK k \in 0..(Len(Candidates[r]) - 1) :
          /\ Offerable(r, k)
          /\ observed' = [observed EXCEPT
               ![BindingConnector[Candidates[r][Position(r, k)]]] =
                    Observation(BindingConnector[Candidates[r][Position(r, k)]])]
    BY <1>1 DEF OfferNext
  <2>2. Held(BindingConnector[Candidates[r][Position(r, k)]])
    BY <2>1 DEF Offerable, Eligible
  <2> QED
    BY <1>1, <2>1, <2>2 DEF OfferNext, TypeOK
<1>2. CASE Claim(r)
  <2>1. Held(ConnectorOf(r)) /\ observed' = [observed EXCEPT ![ConnectorOf(r)] = Observation(ConnectorOf(r))]
    BY <1>2 DEF Claim, CurrentFence
  <2> QED
    BY <1>2, <2>1 DEF Claim, TypeOK
<1>3. CASE Unavailable(r) \/ ExpireQueue(r) \/ ExpireOffer(r)
  BY <1>3 DEF Unavailable, ExpireQueue, ExpireOffer
<1>4. CASE ClaimRetry(r) \/ RevokeGrant(r) \/ (\E d \in 0..MaxTime : RequestCancellation(r, d))
  BY <1>4 DEF ClaimRetry, RevokeGrant, RequestCancellation
<1>5. CASE Release(r) \/ ExpireLease(r)
  BY <1>5 DEF Release, ExpireLease, Reconcile
<1>6. ASSUME NEW s \in Streams, NEW p \in Payloads, Report(r, s, p)
      PROVE  UNCHANGED leaseVars /\ observed' = observed
  BY <1>6 DEF Report
<1>7. ASSUME NEW kind \in Kinds, NEW p \in Payloads, Terminal(r, kind, p)
      PROVE  UNCHANGED leaseVars /\ observed' = observed
  BY <1>7 DEF Terminal, Reconcile
<1> QED
  BY <1>1, <1>2, <1>3, <1>4, <1>5, <1>6, <1>7 DEF RunStep, Serve, Sweep

\* An observation a transaction saves is one the trigger accepts.
LEMMA RunStepObserved ==
    ASSUME TypeOK, NewestLease, ObservedSeen, NEW r \in Runs, RunStep(r)
    PROVE  ObservedSeen' /\ \A c \in Connectors : Advanced(c)
<1> SUFFICES ASSUME NEW c \in Connectors
             PROVE  /\ Advanced(c)
                    /\ observed'[c].epoch <= highEpoch'[c]
                    /\ Held(c)' /\ observed'[c].epoch = lease'[c].epoch =>
                          observed'[c].heartbeat <= lease'[c].heartbeat
  BY DEF ObservedSeen, Held
<1>0. /\ UNCHANGED leaseVars
      /\ \/ observed'[c] = observed[c]
         \/ Held(c) /\ observed'[c] = Observation(c)
  BY ObservedChange
<1>1. /\ observed[c].epoch \in Nat /\ observed[c].heartbeat \in Nat
      /\ lease[c].epoch \in Nat /\ lease[c].heartbeat \in Nat /\ highEpoch[c] \in Nat
  BY RowTypes DEF TypeOK, ObservationRow
<1>2. CASE observed'[c] = observed[c]
  BY <1>0, <1>2 DEF Advanced, ObservedSeen, leaseVars, Held
<1>3. CASE observed'[c] # observed[c]
  <2>1. /\ Held(c) /\ observed'[c] = Rebased(c) /\ lease[c].epoch = highEpoch[c]
        /\ ~(observed[c].epoch = lease[c].epoch /\ observed[c].heartbeat = lease[c].heartbeat)
    BY <1>0, <1>3 DEF Observation, NewestLease, Held
  <2>2. /\ observed'[c].epoch = lease[c].epoch /\ observed'[c].heartbeat = lease[c].heartbeat
        /\ observed'[c].baseline = reserved[c]
    BY <2>1 DEF Rebased
  <2>3. observed[c].epoch <= lease[c].epoch
        /\ (observed[c].epoch = lease[c].epoch => observed[c].heartbeat <= lease[c].heartbeat)
    BY <2>1 DEF ObservedSeen
  <2> QED
    BY <1>0, <1>1, <2>1, <2>2, <2>3 DEF Advanced, leaseVars
<1> QED
  BY <1>2, <1>3

\* The control plane issues newer leases and records newer heartbeats only.
LEMMA ControlObserved ==
    ASSUME TypeOK, NewestLease, ObservedSeen, [LeaseStep]_leaseVars, observed' = observed
    PROVE  ObservedSeen'
<1> SUFFICES ASSUME NEW d \in Connectors
             PROVE  /\ observed[d].epoch <= highEpoch'[d]
                    /\ Held(d)' /\ observed[d].epoch = lease'[d].epoch =>
                          observed[d].heartbeat <= lease'[d].heartbeat
  BY DEF ObservedSeen, Held
<1>1. /\ observed[d].epoch \in Nat /\ observed[d].heartbeat \in Nat
      /\ lease[d].epoch \in Nat /\ lease[d].heartbeat \in Nat /\ highEpoch[d] \in Nat
      /\ lease \in [Connectors -> LeaseRow] /\ highEpoch \in [Connectors -> Nat]
  BY RowTypes DEF TypeOK, ObservationRow, LeaseTypeOK
<1> USE <1>1 DEF ObservedSeen, Held, LeaseRow, NoLease
<1>2. CASE Clock \/ UNCHANGED leaseVars
  BY <1>2 DEF Clock, leaseVars
<1>3. ASSUME NEW c \in Connectors, Grant(c)
      PROVE  /\ observed[d].epoch <= highEpoch'[d]
             /\ Held(d)' /\ observed[d].epoch = lease'[d].epoch =>
                   observed[d].heartbeat <= lease'[d].heartbeat
  BY <1>3 DEF Grant
<1>4. ASSUME NEW c \in Connectors, Withdraw(c)
      PROVE  /\ observed[d].epoch <= highEpoch'[d]
             /\ Held(d)' /\ observed[d].epoch = lease'[d].epoch =>
                   observed[d].heartbeat <= lease'[d].heartbeat
  BY <1>4 DEF Withdraw
<1>5. ASSUME NEW c \in Connectors, NEW ready \in BOOLEAN, SetReady(c, ready)
      PROVE  /\ observed[d].epoch <= highEpoch'[d]
             /\ Held(d)' /\ observed[d].epoch = lease'[d].epoch =>
                   observed[d].heartbeat <= lease'[d].heartbeat
  BY <1>5 DEF SetReady
<1>6. ASSUME NEW c \in Connectors, NEW ready \in BOOLEAN,
             NEW h \in 1..MaxHeartbeat, NEW available \in 0..MaxConcurrency[c],
             Renew(c, h, available, ready)
      PROVE  /\ observed[d].epoch <= highEpoch'[d]
             /\ Held(d)' /\ observed[d].epoch = lease'[d].epoch =>
                   observed[d].heartbeat <= lease'[d].heartbeat
  BY <1>6 DEF Renew
<1> QED
  BY <1>2, <1>3, <1>4, <1>5, <1>6 DEF LeaseStep

\* ObservedSeen is inductive relative to RunInv, and every step is one that the
\* trigger of connector_run_capacity_heads accepts.
LEMMA ObservedStep ==
    ASSUME RunInv, ObservedSeen, [Next]_vars
    PROVE  ObservedSeen' /\ \A c \in Connectors : Advanced(c)
<1>0. TypeOK /\ NewestLease
  BY DEF RunInv
<1>1. CASE ControlPlane \/ UNCHANGED vars \/ \E b \in Bindings : SetEnabled(b)
  <2>1. [LeaseStep]_leaseVars /\ observed' = observed
    BY <1>1 DEF ControlPlane, SetEnabled, vars, runVars, capacity, leaseVars
  <2> QED
    BY <1>0, <2>1, ControlObserved DEF Advanced
<1>2. ASSUME NEW r \in Runs, RunStep(r) PROVE ObservedSeen' /\ \A c \in Connectors : Advanced(c)
  BY <1>0, <1>2, RunStepObserved
<1> QED
  BY <1>1, <1>2 DEF Next

\* Every capacity observation the router saves advances the one before it, as the
\* trigger of connector_run_capacity_heads demands (ObservationAdvances).
THEOREM RunObservations == Spec => ObservationAdvances
<1>1. Init => ObservedSeen
  <2> SUFFICES ASSUME Init, NEW c \in Connectors
               PROVE  observed[c].epoch <= highEpoch[c] /\ ~Held(c)
    BY DEF ObservedSeen
  <2>1. observed[c] = Unobserved /\ highEpoch[c] = 0 /\ lease[c] = NoLease
    BY DEF Init, LeaseInit, RunInit
  <2> QED
    BY <2>1 DEF Unobserved, NoLease, Held
<1>2. RunInv /\ ObservedSeen /\ [Next]_vars => ObservedSeen'
  BY ObservedStep
<1>3. RunInv /\ ObservedSeen /\ [Next]_vars =>
        [\A c \in Connectors : observed'[c] # observed[c] =>
            /\ observed'[c].baseline = reserved[c]
            /\ observed'[c].epoch >= observed[c].epoch
            /\ observed'[c].epoch = observed[c].epoch =>
                  observed'[c].heartbeat > observed[c].heartbeat]_vars
  BY ObservedStep DEF Advanced
<1> QED
  BY <1>1, <1>2, <1>3, RunSafety, PTL DEF Spec, ObservationAdvances

\* Sweeps that need an open control stream are sweeps: what holds of the Runs of module
\* RunRouting holds of Runs that are only settled on the streams of the tenant's Connectors
\* (drive_control), whenever these are opened, closed or left behind by their lease.
THEOREM StreamsRefine == StreamSpec => Spec
<1>1. StreamInit => Init
  BY DEF StreamInit
<1>2. StreamNext => [Next]_vars
  BY Zenon DEF StreamNext, ControlStep, SweepOn, StreamEnds, Next, RunStep
<1>3. UNCHANGED streamVars => UNCHANGED vars
  BY DEF streamVars
<1> QED
  BY <1>1, <1>2, <1>3, PTL DEF StreamSpec, Spec
=============================================================================
