----------------------------- MODULE RunRouting -----------------------------
(***************************************************************************)
(* Agent Runs: the routing aggregate (crates/dtx-agent-router) and the     *)
(* repository transactions around it (crates/dtx-agent-persistence,        *)
(* run.rs) that offer a Run to a Connector, grant the execution lease,     *)
(* record checkpoints, outputs and the terminal report, release, cancel    *)
(* and expire it, and count reservations per Connector and per Binding.    *)
(* The Connectors' control leases are those of module LeaseAuthority.      *)
(*                                                                         *)
(* Every action is one committed transaction: the handler locks the Run    *)
(* row, then the Connector head, then the Binding head, samples the clock  *)
(* under the locks and aborts with no effect when the revision it was      *)
(* called with is no longer current.                                       *)
(***************************************************************************)
EXTENDS LeaseAuthority, Sequences, FiniteSets

CONSTANTS
    Runs,
    Bindings,
    BindingConnector,  \* the Connector a Binding routes to
    BindingMax,        \* max_concurrency of a Binding
    Candidates,        \* the route plan captured when a Run is created
    QueueDeadline,     \* queue_deadline_ms of a Run
    GrantExpires,      \* expires_at_ms of the Conversation Grant of a Run
    OfferTtl, RunTtl,  \* lifetimes of an offer and of a Run lease
    Streams,           \* the independently numbered report streams of a Run
    Payloads,          \* report contents (artifact or event id, digest)
    Volatile,          \* bound: the Bindings and Runs whose policy may change
    MaxAttempts,       \* bound: offers made for one Run
    MaxReports         \* bound: reports in one stream

Kinds == {"completed", "failed"}

ASSUME RunConstants ==
    /\ IsFiniteSet(Runs)
    /\ BindingConnector \in [Bindings -> Connectors]
    /\ BindingMax \in [Bindings -> Nat \ {0}]
    /\ Candidates \in [Runs -> Seq(Bindings)]
    /\ \A r \in Runs : Len(Candidates[r]) > 0
    /\ QueueDeadline \in [Runs -> Nat]
    /\ GrantExpires \in [Runs -> Nat]
    /\ OfferTtl \in Nat \ {0}
    /\ RunTtl \in Nat \ {0}
    /\ MaxAttempts \in Nat
    /\ MaxReports \in Nat

VARIABLES
    state,          \* RunRoutingState
    cursor,         \* candidate_cursor, counted from 1
    offer,          \* current_offer
    runLease,       \* current_lease, with the status of its row
    highAttempt,    \* highest_offer_attempt
    highRunEpoch,   \* highest_run_lease_epoch
    runHigh,        \* server_time_high_water of the Run
    exec,           \* agent_run_execution_heads and the rows it numbers
    cancel,         \* agent_run_cancellation_intents
    grants,         \* every RunLeaseGranted sent to a Connector
    reserved,       \* active_reservation_count of the Connectors
    bindingReserved,\* active_reservation_count of the Bindings
    observed,       \* capacity observation kept with the Connector head
    enabled,        \* Binding, installation and device admit this route
    granted         \* the Run's Conversation Grant version is still current

routing   == <<state, cursor, offer, runLease, highAttempt, highRunEpoch, runHigh>>
capacity  == <<reserved, bindingReserved, observed>>
policy    == <<enabled, granted>>
runVars   == <<routing, exec, cancel, grants, capacity, policy>>
vars      == <<leaseVars, runVars>>

States == {"queued", "offered", "leased", "reconcile_required", "expired"}

NoOffer    == [attempt |-> 0, fence |-> 0, expires |-> 0]
NoRunLease == [epoch |-> 0, attempt |-> 0, fence |-> 0, expires |-> 0, status |-> "none"]
NoCancel   == [epoch |-> 0, deadline |-> 0]
NoExec     == [state |-> "none", streams |-> [s \in Streams |-> <<>>], terminal |-> <<>>]
Unobserved == [epoch |-> 0, heartbeat |-> 0, baseline |-> 0, available |-> 0]

BindingOf(r)   == Candidates[r][cursor[r]]                \* current_candidate
ConnectorOf(r) == BindingConnector[BindingOf(r)]

\* The exact Connector fence f is the active, unexpired control lease of c.
CurrentFence(c, f) ==
    /\ Held(c)
    /\ lease[c].epoch = f
    /\ now < lease[c].expires

\* ensure_time: the Run has seen no later time than the clock shows now.
InTime(r) == now >= runHigh[r]

RunInit ==
    /\ state = [r \in Runs |-> "queued"]
    /\ cursor = [r \in Runs |-> 1]
    /\ offer = [r \in Runs |-> NoOffer]
    /\ runLease = [r \in Runs |-> NoRunLease]
    /\ highAttempt = [r \in Runs |-> 0]
    /\ highRunEpoch = [r \in Runs |-> 0]
    /\ runHigh = [r \in Runs |-> 0]
    /\ exec = [r \in Runs |-> NoExec]
    /\ cancel = [r \in Runs |-> NoCancel]
    /\ grants = {}
    /\ reserved = [c \in Connectors |-> 0]
    /\ bindingReserved = [b \in Bindings |-> 0]
    /\ observed = [c \in Connectors |-> Unobserved]
    /\ enabled = [b \in Bindings |-> TRUE]
    /\ granted = [r \in Runs |-> TRUE]

Init == LeaseInit /\ RunInit

-----------------------------------------------------------------------------
\* The observation taken of the lease as it stands.
Rebased(c) ==
    [epoch |-> lease[c].epoch, heartbeat |-> lease[c].heartbeat,
     baseline |-> reserved[c], available |-> lease[c].available]

\* The capacity observation the router works with: a heartbeat it has not seen
\* yet is re-based on the reservations already counted.
Observation(c) ==
    IF observed[c].epoch = lease[c].epoch /\ observed[c].heartbeat = lease[c].heartbeat
    THEN observed[c]
    ELSE Rebased(c)

\* The reservation count below which c still admits work.
Admits(c) ==
    /\ reserved[c] < MaxConcurrency[c]
    /\ reserved[c] < Observation(c).baseline + Observation(c).available

\* Mutant of Eligible: the limit of the Binding is not consulted.
EligibleBeyondBinding(r, b) ==
    LET c == BindingConnector[b] IN
    /\ Held(c)
    /\ lease[c].ready
    /\ now < lease[c].expires
    /\ enabled[b]
    /\ granted[r]
    /\ now < GrantExpires[r]
    /\ Admits(c)

\* validate_route_eligibility for Binding b and the lease its Connector holds.
Eligible(r, b) ==
    LET c == BindingConnector[b] IN
    /\ Held(c)
    /\ lease[c].ready
    /\ now < lease[c].expires
    /\ enabled[b]
    /\ granted[r]
    /\ now < GrantExpires[r]
    /\ Admits(c)
    /\ bindingReserved[b] < BindingMax[b]

\* Candidate positions in the order one dispatch visits them.
Position(r, k) == ((cursor[r] - 1 + k) % Len(Candidates[r])) + 1

\* Mutant of NextCandidate: no wrap after the last candidate.
PastLastCandidate(r) == cursor[r] + 1

NextCandidate(r) == (cursor[r] % Len(Candidates[r])) + 1

Offerable(r, k) ==
    /\ Eligible(r, Candidates[r][Position(r, k)])
    /\ now < QueueDeadline[r]

Lesser(a, b) == IF a <= b THEN a ELSE b

\* An offer ends with the control lease, the Grant and the queue at the latest.
OfferDeadline(r, c) ==
    Lesser(Lesser(now + OfferTtl, lease[c].expires), Lesser(GrantExpires[r], QueueDeadline[r]))

\* offer_next: the first candidate that can take the Run is offered it.
OfferNext(r) ==
    /\ state[r] = "queued"
    /\ InTime(r)
    /\ highAttempt[r] < MaxAttempts
    /\ \E k \in 0..(Len(Candidates[r]) - 1) :
         LET p == Position(r, k)
             c == BindingConnector[Candidates[r][p]] IN
         /\ Offerable(r, k)
         /\ \A j \in 0..(k - 1) : ~Offerable(r, j)
         /\ cursor' = [cursor EXCEPT ![r] = p]
         /\ offer' = [offer EXCEPT ![r] =
               [attempt |-> highAttempt[r] + 1, fence |-> lease[c].epoch,
                expires |-> OfferDeadline(r, c)]]
         /\ observed' = [observed EXCEPT ![c] = Observation(c)]
    /\ state' = [state EXCEPT ![r] = "offered"]
    /\ runLease' = [runLease EXCEPT ![r] = NoRunLease]
    /\ highAttempt' = [highAttempt EXCEPT ![r] = @ + 1]
    /\ runHigh' = [runHigh EXCEPT ![r] = now]
    /\ UNCHANGED <<leaseVars, highRunEpoch, exec, cancel, grants, reserved,
                   bindingReserved, policy>>

\* offer_next with no candidate left: every skip wraps the cursor to where it
\* was, and only the Run's time moves.
Unavailable(r) ==
    /\ state[r] = "queued"
    /\ InTime(r)
    /\ \A k \in 0..(Len(Candidates[r]) - 1) : ~Offerable(r, k)
    /\ runHigh' = [runHigh EXCEPT ![r] = now]
    /\ UNCHANGED <<leaseVars, state, cursor, offer, runLease, highAttempt,
                   highRunEpoch, exec, cancel, grants, capacity, policy>>

\* Mutant of LeaseDeadline: not capped by the control lease.
UncappedDeadline(r, c) == Lesser(now + RunTtl, GrantExpires[r])

\* A Run lease ends with the control lease and the Conversation Grant at the latest.
LeaseDeadline(r, c) == Lesser(Lesser(now + RunTtl, lease[c].expires), GrantExpires[r])

Granted(r) ==
    [run |-> r, connector |-> ConnectorOf(r), lease |-> runLease[r]]

\* claim of the exact current offer by the Connector that holds its fence.
Claim(r) ==
    LET c == ConnectorOf(r)
        b == BindingOf(r)
        new == [epoch |-> highRunEpoch[r] + 1, attempt |-> offer[r].attempt,
                fence |-> offer[r].fence,
                expires |-> LeaseDeadline(r, c),
                status |-> "active"] IN
    /\ state[r] = "offered"
    /\ CurrentFence(c, offer[r].fence)
    /\ Eligible(r, b)
    /\ InTime(r)
    /\ now < offer[r].expires
    /\ state' = [state EXCEPT ![r] = "leased"]
    /\ runLease' = [runLease EXCEPT ![r] = new]
    /\ highRunEpoch' = [highRunEpoch EXCEPT ![r] = new.epoch]
    /\ runHigh' = [runHigh EXCEPT ![r] = now]
    /\ reserved' = [reserved EXCEPT ![c] = @ + 1]
    /\ bindingReserved' = [bindingReserved EXCEPT ![b] = @ + 1]
    /\ observed' = [observed EXCEPT ![c] = Observation(c)]
    /\ grants' = grants \cup {[run |-> r, connector |-> c, lease |-> new]}
    /\ UNCHANGED <<leaseVars, cursor, offer, highAttempt, exec, cancel, policy>>

\* A retried claim of the offer behind a live lease is answered with that lease.
ClaimRetry(r) ==
    /\ state[r] = "leased"
    /\ CurrentFence(ConnectorOf(r), runLease[r].fence)
    /\ InTime(r)
    /\ now < runLease[r].expires
    /\ grants' = grants \cup {Granted(r)}
    /\ UNCHANGED <<leaseVars, routing, exec, cancel, capacity, policy>>

\* Mutant of Unreserve: the Binding keeps its reservation.
UnreserveConnector(r) ==
    /\ reserved[ConnectorOf(r)] > 0
    /\ reserved' = [reserved EXCEPT ![ConnectorOf(r)] = @ - 1]
    /\ UNCHANGED bindingReserved

\* What every way of losing an execution lease does to the reservations.
Unreserve(r) ==
    /\ reserved[ConnectorOf(r)] > 0
    /\ bindingReserved[BindingOf(r)] > 0
    /\ reserved' = [reserved EXCEPT ![ConnectorOf(r)] = @ - 1]
    /\ bindingReserved' = [bindingReserved EXCEPT ![BindingOf(r)] = @ - 1]

\* Mutant of ClosedLease: the lease row stays active.
LeftOpen(r, status) == runLease[r]

ClosedLease(r, status) ==
    [epoch |-> runLease[r].epoch, attempt |-> runLease[r].attempt,
     fence |-> runLease[r].fence, expires |-> runLease[r].expires, status |-> status]

\* Leaves the execution lease for reconciliation, its row closed as status.
Reconcile(r, status) ==
    /\ state[r] = "leased"
    /\ InTime(r)
    /\ state' = [state EXCEPT ![r] = "reconcile_required"]
    /\ runLease' = [runLease EXCEPT ![r] = ClosedLease(r, status)]
    /\ runHigh' = [runHigh EXCEPT ![r] = now]
    /\ Unreserve(r)
    /\ UNCHANGED <<leaseVars, cursor, offer, highAttempt, highRunEpoch, cancel,
                   grants, observed, policy>>

\* The caller still holds both fences of Run r: Connector and Run lease.
Authorized(r) ==
    /\ runLease[r].epoch # 0
    /\ CurrentFence(ConnectorOf(r), runLease[r].fence)
    /\ now < runLease[r].expires

Release(r) ==
    /\ Authorized(r)
    /\ Reconcile(r, "released")
    /\ UNCHANGED exec

\* expire_next_due, queued Run.
ExpireQueue(r) ==
    /\ state[r] = "queued"
    /\ now >= QueueDeadline[r]
    /\ InTime(r)
    /\ state' = [state EXCEPT ![r] = "expired"]
    /\ runHigh' = [runHigh EXCEPT ![r] = now]
    /\ UNCHANGED <<leaseVars, cursor, offer, runLease, highAttempt, highRunEpoch,
                   exec, cancel, grants, capacity, policy>>

\* expire_next_due, offered Run: back to the queue, at the next candidate.
ExpireOffer(r) ==
    /\ state[r] = "offered"
    /\ now >= offer[r].expires
    /\ InTime(r)
    /\ offer' = [offer EXCEPT ![r] = NoOffer]
    /\ IF now >= QueueDeadline[r]
       THEN /\ state' = [state EXCEPT ![r] = "expired"]
            /\ UNCHANGED cursor
       ELSE /\ state' = [state EXCEPT ![r] = "queued"]
            /\ cursor' = [cursor EXCEPT ![r] = NextCandidate(r)]
    /\ runHigh' = [runHigh EXCEPT ![r] = now]
    /\ UNCHANGED <<leaseVars, runLease, highAttempt, highRunEpoch, exec, cancel,
                   grants, capacity, policy>>

\* Mutant of ExpireLease: an expired lease fails over to the next candidate.
ExpireLeaseFailover(r) ==
    /\ state[r] = "leased"
    /\ now >= runLease[r].expires
    /\ InTime(r)
    /\ state' = [state EXCEPT ![r] = "queued"]
    /\ offer' = [offer EXCEPT ![r] = NoOffer]
    /\ runLease' = [runLease EXCEPT ![r] = NoRunLease]
    /\ cursor' = [cursor EXCEPT ![r] = NextCandidate(r)]
    /\ runHigh' = [runHigh EXCEPT ![r] = now]
    /\ Unreserve(r)
    /\ UNCHANGED <<leaseVars, highAttempt, highRunEpoch, exec, cancel, grants,
                   observed, policy>>

\* expire_next_due, leased Run: never requeued, it may have executed.
ExpireLease(r) ==
    /\ now >= runLease[r].expires
    /\ Reconcile(r, "expired")
    /\ UNCHANGED exec

\* Mutant of Report: accepted after the terminal report too.
ReportAnyTime(r, s, p) ==
    /\ Authorized(r)
    /\ Len(exec[r].streams[s]) < MaxReports
    /\ exec' = [exec EXCEPT ![r] =
          [state |-> IF exec[r].state = "none" THEN "active" ELSE exec[r].state,
           terminal |-> exec[r].terminal,
           streams |-> [exec[r].streams EXCEPT ![s] = Append(@, p)]]]
    /\ UNCHANGED <<leaseVars, routing, cancel, grants, capacity, policy>>

\* record_execution, checkpoint or output with the next sequence number.  The
\* handler asks for the fences of the Run's current lease, not for its state.
Report(r, s, p) ==
    /\ Authorized(r)
    /\ exec[r].state \in {"none", "active"}
    /\ Len(exec[r].streams[s]) < MaxReports
    /\ exec' = [exec EXCEPT ![r] =
          [state |-> "active", terminal |-> exec[r].terminal,
           streams |-> [exec[r].streams EXCEPT ![s] = Append(@, p)]]]
    /\ UNCHANGED <<leaseVars, routing, cancel, grants, capacity, policy>>

\* Mutant of Terminal: a late terminal report is recorded after the expiry.
TerminalLate(r, kind, p) ==
    /\ runLease[r].epoch # 0
    /\ exec[r].state \in {"none", "active"}
    /\ exec' = [exec EXCEPT ![r] =
          [state |-> kind, terminal |-> <<p>>, streams |-> exec[r].streams]]
    /\ IF state[r] = "leased"
       THEN Reconcile(r, "released")
       ELSE UNCHANGED <<leaseVars, routing, cancel, grants, capacity, policy>>

\* record_execution, completed or failed: closes the Run and its reservation.
Terminal(r, kind, p) ==
    /\ Authorized(r)
    /\ exec[r].state \in {"none", "active"}
    /\ exec' = [exec EXCEPT ![r] =
          [state |-> kind, terminal |-> <<p>>, streams |-> exec[r].streams]]
    /\ Reconcile(r, "released")

\* request_cancellation: one intent per Run, bounded by the live authority.
RequestCancellation(r, deadline) ==
    LET c == ConnectorOf(r) IN
    /\ cancel[r] = NoCancel
    /\ state[r] = "leased"
    /\ Authorized(r)
    /\ now < deadline
    /\ deadline <= Lesser(lease[c].expires, runLease[r].expires)
    /\ cancel' = [cancel EXCEPT ![r] = [epoch |-> runLease[r].epoch, deadline |-> deadline]]
    /\ UNCHANGED <<leaseVars, routing, exec, grants, capacity, policy>>

\* The owner changes a Binding, installation or device.
SetEnabled(b) ==
    /\ b \in Volatile
    /\ enabled' = [enabled EXCEPT ![b] = ~@]
    /\ UNCHANGED <<leaseVars, routing, exec, cancel, grants, capacity, granted>>

\* The Conversation Grant the Run was created under is revoked or replaced.
RevokeGrant(r) ==
    /\ r \in Volatile
    /\ granted[r]
    /\ granted' = [granted EXCEPT ![r] = FALSE]
    /\ UNCHANGED <<leaseVars, routing, exec, cancel, grants, capacity, enabled>>

ControlPlane == LeaseStep /\ UNCHANGED runVars

\* expire_next_due for a Run that is due.
Sweep(r) == ExpireQueue(r) \/ ExpireOffer(r) \/ ExpireLease(r)

\* The other handlers of a Run.
Serve(r) ==
    \/ OfferNext(r)
    \/ Unavailable(r)
    \/ Claim(r)
    \/ ClaimRetry(r)
    \/ Release(r)
    \/ \E s \in Streams, p \in Payloads : Report(r, s, p)
    \/ \E kind \in Kinds, p \in Payloads : Terminal(r, kind, p)
    \/ \E deadline \in 0..MaxTime : RequestCancellation(r, deadline)
    \/ RevokeGrant(r)

RunStep(r) == Serve(r) \/ Sweep(r)

Next ==
    \/ ControlPlane
    \/ \E r \in Runs : RunStep(r)
    \/ \E b \in Bindings : SetEnabled(b)

Spec == Init /\ [][Next]_vars
-----------------------------------------------------------------------------
(* Properties *)

OfferRow  == [attempt: Nat, fence: Nat, expires: Nat]
RunLeaseRow ==
    [epoch: Nat, attempt: Nat, fence: Nat, expires: Nat,
     status: {"none", "active", "released", "expired"}]
ExecRow ==
    [state: {"none", "active"} \cup Kinds, streams: [Streams -> Seq(Payloads)],
     terminal: Seq(Payloads)]
ObservationRow == [epoch: Nat, heartbeat: Nat, baseline: Nat, available: Nat]

\* Every variable has the shape of the column or message it stands for.
TypeOK ==
    /\ LeaseTypeOK
    /\ state \in [Runs -> States]
    /\ cursor \in [Runs -> Nat]
    /\ \A r \in Runs : cursor[r] \in 1..Len(Candidates[r])
    /\ offer \in [Runs -> OfferRow]
    /\ runLease \in [Runs -> RunLeaseRow]
    /\ highAttempt \in [Runs -> Nat]
    /\ highRunEpoch \in [Runs -> Nat]
    /\ runHigh \in [Runs -> Nat]
    /\ exec \in [Runs -> ExecRow]
    /\ cancel \in [Runs -> [epoch: Nat, deadline: Nat]]
    /\ grants \subseteq [run: Runs, connector: Connectors, lease: RunLeaseRow]
    /\ reserved \in [Connectors -> Nat]
    /\ bindingReserved \in [Bindings -> Nat]
    /\ observed \in [Connectors -> ObservationRow]
    /\ enabled \in [Bindings -> BOOLEAN]
    /\ granted \in [Runs -> BOOLEAN]

(***************************************************************************)
(* The persisted image of a Run is always one validate_state_image accepts *)
(* (agent-router lib.rs 1180): no offer and no lease while queued or       *)
(* expired, an offer alone while offered, and afterwards a lease of that   *)
(* very offer, with the newest attempt and epoch and a row status that     *)
(* agrees with the state.  A Run that failed this could never be loaded.   *)
(***************************************************************************)
ImageOK(r) ==
    /\ state[r] \in {"queued", "expired"} => offer[r] = NoOffer
    /\ state[r] \in {"queued", "offered", "expired"} =>
          runLease[r] = NoRunLease /\ highRunEpoch[r] = 0
    /\ state[r] = "offered" =>
          /\ offer[r].attempt = highAttempt[r] /\ offer[r].attempt > 0
          /\ offer[r].expires <= QueueDeadline[r]
          /\ offer[r].fence \in 1..highEpoch[ConnectorOf(r)]
    /\ state[r] \in {"leased", "reconcile_required"} =>
          /\ runLease[r].attempt = offer[r].attempt /\ offer[r].attempt > 0
          /\ runLease[r].fence = offer[r].fence
          /\ runLease[r].epoch = highRunEpoch[r] /\ highRunEpoch[r] > 0
          /\ (runLease[r].status = "active") <=> (state[r] = "leased")

StateImage == \A r \in Runs : ImageOK(r)

LeasedOn(c)     == {r \in Runs : state[r] = "leased" /\ ConnectorOf(r) = c}
LeasedBy(b)     == {r \in Runs : state[r] = "leased" /\ BindingOf(r) = b}

(***************************************************************************)
(* The reservation counters of the Connectors and the Bindings equal the   *)
(* number of Runs that hold an execution lease there, whatever mix of      *)
(* claim retries, releases, terminal reports and expiries raced: nothing   *)
(* leaks a slot and nothing frees one twice (run.rs 797, 985, 1190, 1995). *)
(***************************************************************************)
ReservationsExact ==
    /\ \A c \in Connectors : reserved[c] = Cardinality(LeasedOn(c))
    /\ \A b \in Bindings : bindingReserved[b] = Cardinality(LeasedBy(b))

(***************************************************************************)
(* However stale the heartbeat the router re-based on, a Connector never   *)
(* executes more Runs than its configured concurrency, nor a Binding more  *)
(* than its own (admission_ceiling in validate_route_eligibility).         *)
(***************************************************************************)
ReservationsBounded ==
    /\ \A c \in Connectors : reserved[c] <= MaxConcurrency[c]
    /\ \A b \in Bindings : bindingReserved[b] <= BindingMax[b]

(***************************************************************************)
(* Between two heartbeats the router never commits a Connector to more     *)
(* Runs than it had when it last reported plus the free capacity it        *)
(* reported then, although Runs of several installations are offered,      *)
(* claimed and released in between (CapacityObservation, run.rs 2652).     *)
(***************************************************************************)
ReportedCapacityRespected ==
    \A c \in Connectors : reserved[c] <= observed[c].baseline + observed[c].available

(***************************************************************************)
(* Execution authority for a Run is granted at most once, to one           *)
(* Connector, whatever is retried or lost: no Run ever gets a second lease *)
(* epoch, every RunLeaseGranted ever sent carries the lease its Run still  *)
(* records (up to the status of its row), and a Run that is queued,        *)
(* offered or expired was never granted to anybody, so offering it again   *)
(* cannot execute it twice.                                                *)
(***************************************************************************)
Authoritative(g) ==
    LET r == g.run IN
    /\ state[r] \in {"leased", "reconcile_required"}
    /\ g.connector = ConnectorOf(r)
    /\ g.lease.epoch = runLease[r].epoch
    /\ g.lease.attempt = runLease[r].attempt
    /\ g.lease.fence = runLease[r].fence
    /\ g.lease.expires = runLease[r].expires

SingleAuthority ==
    /\ \A r \in Runs : highRunEpoch[r] <= 1
    /\ \A g \in grants : Authoritative(g)

(***************************************************************************)
(* An execution lease never outlives what it was granted under: the        *)
(* Conversation Grant, and the control lease of the Connector for as long  *)
(* as that lease is the current one, although renewals and the server      *)
(* clock keep moving; and the fence it names was issued, never one that is *)
(* yet to come (RouteAdmission and ClaimTiming::resolve).                  *)
(***************************************************************************)
LeaseWithinAuthority ==
    \A r \in Runs : state[r] = "leased" =>
        /\ runLease[r].fence \in 1..highEpoch[ConnectorOf(r)]
        /\ runLease[r].expires <= GrantExpires[r]
        /\ lease[ConnectorOf(r)].epoch = runLease[r].fence
              => runLease[r].expires <= lease[ConnectorOf(r)].expires

(***************************************************************************)
(* A terminal report is only ever recorded for a Run whose lease it closed:*)
(* never for one the sweeper had already expired, never twice, and a Run   *)
(* still leased has none (finish_execution).                               *)
(***************************************************************************)
TerminalOwnsRelease ==
    \A r \in Runs :
        /\ (exec[r].state \in Kinds) <=> (Len(exec[r].terminal) = 1)
        /\ exec[r].state \in Kinds =>
              /\ state[r] = "reconcile_required"
              /\ runLease[r].status = "released"

\* Both bounds on what a Connector is given at any time.
CapacityRespected == ReservationsBounded /\ ReportedCapacityRespected

\* The inductive invariant of the routing tables.
CapacityInv == ReservationsExact /\ ReservationsBounded /\ ReportedCapacityRespected

RunInv ==
    /\ TypeOK /\ NewestLease
    /\ StateImage
    /\ CapacityInv
    /\ SingleAuthority
    /\ LeaseWithinAuthority
    /\ TerminalOwnsRelease

(***************************************************************************)
(* What was recorded stays recorded: a settled Run is never requeued,      *)
(* reports are only appended, and after the terminal report nothing about  *)
(* the execution changes any more, however late or duplicated the reports  *)
(* of the Connector arrive.                                                *)
(***************************************************************************)
HistoryImmutable ==
    [][\A r \in Runs :
          /\ state[r] \in {"reconcile_required", "expired"} => state'[r] = state[r]
          /\ \A s \in Streams :
                /\ Len(exec'[r].streams[s]) >= Len(exec[r].streams[s])
                /\ \A i \in 1..Len(exec[r].streams[s]) :
                      exec'[r].streams[s][i] = exec[r].streams[s][i]
          /\ exec[r].state \in Kinds => exec'[r] = exec[r]]_vars

(***************************************************************************)
(* Every capacity observation the router saves is one the trigger of       *)
(* connector_run_capacity_heads accepts (migration 202607240007, line 508):*)
(* under the same lease a newer heartbeat, based on the current count.     *)
(***************************************************************************)
ObservationAdvances ==
    [][\A c \in Connectors : observed'[c] # observed[c] =>
          /\ observed'[c].baseline = reserved[c]
          /\ observed'[c].epoch >= observed[c].epoch
          /\ observed'[c].epoch = observed[c].epoch =>
                observed'[c].heartbeat > observed[c].heartbeat]_vars

(***************************************************************************)
(* "Stale Connector or Run lease fences fail closed" (docs/security-       *)
(* boundary.md, 24): new reports are accepted only for a Run lease that is *)
(* still active.                                                           *)
(***************************************************************************)
StaleRunLeaseFailsClosed ==
    [][\A r \in Runs : exec'[r].streams # exec[r].streams => state[r] = "leased"]_vars
=============================================================================
