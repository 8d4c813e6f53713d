-------------------------- MODULE ConnectorControl --------------------------
(***************************************************************************)
(* The control plane of one Connector as the server keeps it: the control  *)
(* head (generation, spec revision, desired state, boot, lease), the       *)
(* durable command stream with its acknowledgement cursor, and the         *)
(* credential authorization with its pending successor, changed by the     *)
(* owner's commands and by the Connector's Hello, heartbeat,               *)
(* acknowledgement and rotation proof (postgres_application.rs of          *)
(* dtx-agent-control-server over dtx-connect-registry, dtx-agent-control   *)
(* and dtx-agent-persistence).                                             *)
(*                                                                         *)
(* Every action is one committed transaction under the Connector's row     *)
(* locks.  A request with a stale fence is refused with no effect and is   *)
(* not an action.  The Connector itself is not in the repository: it is    *)
(* external and keeps, durably, the commands it applied, the revision it   *)
(* runs and its credentials; its stream may drop at any point and the      *)
(* reply to any request may be lost.  A boot id only distinguishes the     *)
(* leases of one process; the lease epoch already identifies every lease.  *)
(***************************************************************************)
EXTENDS Integers, Sequences, FiniteSets

CONSTANTS
    Connector,        \* the id of the Connector
    ControlTtl,       \* heartbeat_ttl_millis
    MinInterval,      \* half of heartbeat_interval_millis, at least 1
    Slots,            \* max_concurrency
    RotationTtl,      \* OWNER_CREDENTIAL_ROTATION_TTL_MILLIS
    MaxBacklog,       \* MAX_COMMAND_BACKLOG
    PageSize,         \* commands one replay page holds (frames and bytes)
    Provisioning,     \* are provisioning commands delivered to this Connector?
    ClockMayRegress,  \* may the wall clock of the server step backwards?
    MaxTime,          \* bound: last instant of the clock
    MaxCommands,      \* bound: commands ever queued
    MaxEpoch,         \* bound: leases issued
    MaxDrops,         \* bound: lease epoch after which no live stream drops
    MaxHeartbeat      \* bound: heartbeat numbers under one lease

ASSUME ControlConstants ==
    /\ ControlTtl \in Nat \ {0}
    /\ MinInterval \in Nat \ {0}
    /\ Slots \in Nat \ {0}
    /\ RotationTtl \in Nat \ {0}
    /\ MaxBacklog \in Nat \ {0}
    /\ PageSize \in Nat \ {0}
    /\ Provisioning \in BOOLEAN
    /\ ClockMayRegress \in BOOLEAN
    /\ MaxTime \in Nat
    /\ MaxCommands \in Nat
    /\ MaxEpoch \in Nat
    /\ MaxDrops \in Nat
    /\ MaxHeartbeat \in Nat

VARIABLES
    now,     \* what the server's clock reads
    head,    \* connector_instances
    row,     \* the active row of connector_leases
    stream,  \* connector_control_stream_heads
    log,     \* connector_control_commands, in sequence order
    auth,    \* connector_control_credential_heads
    client   \* the Connector's own state

vars == <<now, head, row, stream, log, auth, client>>

DesiredStates == {"running", "draining", "stopped", "revoked"}
CommandKinds  == {"config", "rotate", "close", "provision", "revoke"}

NoRow  == [epoch |-> 0, expires |-> 0, heartbeat |-> 0, beatAt |-> 0,
           observed |-> "offline", available |-> 0]
NoCred == [generation |-> 0, revision |-> 0]

\* The pair of counters that every command, credential and lease is fenced by.
Fence(x) == <<x.generation, x.revision>>

Init ==
    /\ now = 0
    /\ head = [generation |-> 1, revision |-> 1, desired |-> "running",
               highEpoch |-> 0, highWater |-> 0]
    /\ row = NoRow
    /\ stream = [generation |-> 1, revision |-> 1, state |-> "active",
                 acked |-> 0, updated |-> 0]
    /\ log = <<>>
    /\ auth = [state |-> "active", current |-> 1, pending |-> NoCred]
    /\ client = [epoch |-> 0, applied |-> 0, revision |-> 1, generation |-> 1,
                 successor |-> NoCred]

Clock ==
    /\ \E t \in 0..MaxTime :
         /\ t # now
         /\ t < now => ClockMayRegress
         /\ t > now => t = now + 1
         /\ now' = t
    /\ UNCHANGED <<head, row, stream, log, auth, client>>

-----------------------------------------------------------------------------
(* The command stream *)

Pending == (stream.acked + 1)..Len(log)

IsFenceBarrier(i) == log[i].kind \in {"config", "rotate", "revoke"}

\* pending_fence_barrier_exists
PendingBarrier == \E i \in Pending : IsFenceBarrier(i)

\* Mutant of Room: the backlog is not limited.
RoomUnlimited(kind) ==
    /\ stream.state = "active"
    /\ now >= stream.updated
    /\ Len(log) < MaxCommands

\* What append_locked and the insert trigger ask for; the terminal revoke may
\* use one slot more than the backlog has.
Room(kind) ==
    LET backlog == Len(log) - stream.acked IN
    /\ stream.state = "active"
    /\ now >= stream.updated
    /\ backlog < MaxBacklog \/ (kind = "revoke" /\ backlog = MaxBacklog)
    /\ Len(log) < MaxCommands

\* append_locked: the command carries the fence of the stream head.
Enqueue(kind, target, deadline) ==
    /\ Room(kind)
    /\ log' = Append(log, [kind |-> kind, generation |-> stream.generation,
                           revision |-> stream.revision, target |-> target,
                           deadline |-> deadline])

\* ensure_owner_command_fence for an owner who read the current fence.
OwnerFence ==
    /\ Fence(head) = Fence(stream)
    /\ stream.state = "active"
    /\ head.desired # "revoked"

\* enqueue_apply_configuration
EnqueueConfig(target) ==
    /\ ~PendingBarrier
    /\ OwnerFence
    /\ ~(target = "stopped" /\ head.desired = "stopped")
    /\ auth.pending = NoCred
    /\ Enqueue("config", target, 0)
    /\ stream' = [stream EXCEPT !.updated = now]
    /\ UNCHANGED <<now, head, row, auth, client>>

\* enqueue_credential_rotation: only on a drained stream.
EnqueueRotation ==
    /\ stream.acked = Len(log)
    /\ OwnerFence
    /\ auth.pending = NoCred
    /\ Enqueue("rotate", "none", now + RotationTtl)
    /\ stream' = [stream EXCEPT !.updated = now]
    /\ UNCHANGED <<now, head, row, auth, client>>

\* Mutant of EnqueueClose: a pending credential does not keep it out.
EnqueueCloseDuringRotation ==
    /\ ~PendingBarrier
    /\ OwnerFence
    /\ Enqueue("close", "none", 0)
    /\ stream' = [stream EXCEPT !.updated = now]
    /\ UNCHANGED <<now, head, row, auth, client>>

\* enqueue_close_stream, drained or reconnect
EnqueueClose ==
    /\ ~PendingBarrier
    /\ OwnerFence
    /\ auth.pending = NoCred
    /\ Enqueue("close", "none", 0)
    /\ stream' = [stream EXCEPT !.updated = now]
    /\ UNCHANGED <<now, head, row, auth, client>>

\* The provisioning of an Agent identity and the route bootstrap append their
\* commands to an active stream without looking for a fence barrier.
EnqueueProvisioning ==
    /\ Provisioning
    /\ Enqueue("provision", "none", 0)
    /\ stream' = [stream EXCEPT !.updated = now]
    /\ UNCHANGED <<now, head, row, auth, client>>

\* enqueue_close_stream, revoked: does not wait for anybody.
Revoke ==
    /\ OwnerFence
    /\ now >= head.highWater
    /\ Enqueue("revoke", "none", 0)
    /\ head' = [head EXCEPT !.desired = "revoked", !.revision = @ + 1, !.highWater = now]
    /\ row' = NoRow
    /\ stream' = [stream EXCEPT !.revision = @ + 1, !.state = "revoked", !.updated = now]
    /\ auth' = [auth EXCEPT !.state = "revoked", !.pending = NoCred]
    /\ UNCHANGED <<now, client>>

-----------------------------------------------------------------------------
(* Hello *)

\* validate_delivery_head and the fence check of load_command_suffix, for the
\* cursor the Connector presents.
Deliverable(cursor) ==
    /\ stream.state = "active"
    /\ Fence(stream) = Fence(head)
    /\ cursor \in stream.acked..Len(log)

\* load_command_suffix: the first page after the acknowledged command.
ReplayPage == {i \in Pending : i <= stream.acked + PageSize}

PageFenced == \A i \in ReplayPage : Fence(log[i]) = Fence(stream)

\* Mutant of Recoverable: an applied configuration has to be acknowledged.
RecoverableExact(revision) == revision = head.revision

\* hello_spec_is_recoverable: the Connector runs the revision of the head or
\* the next one, whose ApplyConfig it applied and did not get acknowledged.
Recoverable(revision) ==
    \/ revision = head.revision
    \/ /\ revision = head.revision + 1
       /\ \E i \in ReplayPage : log[i].kind = "config" /\ i <= client.applied

\* What the Connector can present: the generation and the revision it runs, or
\* the successor it was handed.
OwnCred   == [generation |-> client.generation, revision |-> client.revision]
Presented == {OwnCred, client.successor} \ {NoCred}

\* begin_boot and issue_lease refuse a stopped or revoked Connector and a clock
\* behind the high water.
MayOpen ==
    /\ auth.state = "active"
    /\ head.desired \notin {"stopped", "revoked"}
    /\ now >= head.highWater
    /\ Deliverable(client.applied)
    /\ PageFenced

AcceptsCurrent(cred) ==
    /\ MayOpen
    /\ cred.generation = auth.current
    /\ cred.generation = head.generation
    /\ Recoverable(cred.revision)

AcceptsPromotion(cred) ==
    /\ MayOpen
    /\ cred = auth.pending
    /\ Fence(cred) = <<head.generation + 1, head.revision + 1>>
    /\ stream.acked = Len(log)

\* issue_lease: the next epoch, starting, without a heartbeat.
IssuedLease == [epoch |-> head.highEpoch + 1, expires |-> now + ControlTtl,
                heartbeat |-> 0, beatAt |-> 0, observed |-> "starting",
                available |-> 0]

\* What ServerHello tells the Connector, unless it is lost.
Greeted(cred, lost) ==
    IF lost THEN client
    ELSE [client EXCEPT !.epoch = head.highEpoch + 1,
                        !.generation = cred.generation,
                        !.revision = cred.revision,
                        !.successor = IF @ = cred THEN NoCred ELSE @]

\* Bounds the streams that drop and the replies that are lost.
MayFail == head.highEpoch < MaxDrops

\* open_operation, current credential
Resume(cred, lost) ==
    /\ client.epoch = 0
    /\ head.highEpoch < MaxEpoch
    /\ lost => MayFail
    /\ client.successor # NoCred /\ cred = OwnCred => MayFail
    /\ AcceptsCurrent(cred)
    /\ head' = [head EXCEPT !.highEpoch = @ + 1, !.highWater = now]
    /\ row' = IssuedLease
    /\ client' = Greeted(cred, lost)
    /\ UNCHANGED <<now, stream, log, auth>>

\* open_operation, pending successor: the first Hello promotes it, moves the
\* fence of the head and of the drained stream and retires its predecessor.
Promote(cred, lost) ==
    /\ client.epoch = 0
    /\ head.highEpoch < MaxEpoch
    /\ lost => MayFail
    /\ now >= stream.updated
    /\ AcceptsPromotion(cred)
    /\ head' = [head EXCEPT !.generation = @ + 1, !.revision = @ + 1,
                            !.highEpoch = @ + 1, !.highWater = now]
    /\ row' = IssuedLease
    /\ stream' = [stream EXCEPT !.generation = @ + 1, !.revision = @ + 1, !.updated = now]
    /\ auth' = [auth EXCEPT !.current = cred.generation, !.pending = NoCred]
    /\ client' = Greeted(cred, lost)
    /\ UNCHANGED <<now, log>>

-----------------------------------------------------------------------------
(* The live stream *)

\* ensure_resolved_fence and require_live_current_credential
Session ==
    /\ client.epoch # 0
    /\ row.epoch = client.epoch
    /\ auth.state = "active"
    /\ client.generation = auth.current
    /\ client.generation = head.generation

\* validate_fence: the lease also has to be alive.
Live == Session /\ now < row.expires

\* The stream drops, or the server closed it because its fence is stale; a
\* Connector with a successor reconnects to use it.
Disconnect ==
    /\ client.epoch # 0
    /\ Live => MayFail \/ client.successor # NoCred
    /\ client' = [client EXCEPT !.epoch = 0]
    /\ UNCHANGED <<now, head, row, stream, log, auth>>

\* poll_commands_operation delivers the next command and the Connector applies
\* it (for a rotation: prepares its proof).  The acknowledgement is separate.
Apply ==
    LET i == client.applied + 1 IN
    /\ Live
    /\ i <= Len(log)
    /\ Deliverable(client.applied)
    /\ Fence(log[i]) = Fence(head)
    /\ client' = [client EXCEPT !.applied = i,
                    !.revision = IF log[i].kind = "config" THEN log[i].revision + 1 ELSE @]
    /\ UNCHANGED <<now, head, row, stream, log, auth>>

\* acknowledge_command: the next command, under the fence of the stream head.
Acknowledges(i) ==
    /\ Live
    /\ stream.state = "active"
    /\ client.generation = stream.generation
    /\ i = stream.acked + 1
    /\ i <= client.applied
    /\ Fence(log[i]) = Fence(stream)
    /\ now >= stream.updated

\* acknowledge_operation for CloseStream and the provisioning commands
AckPlain(i) ==
    /\ Acknowledges(i)
    /\ log[i].kind \in {"close", "provision"}
    /\ stream' = [stream EXCEPT !.acked = i, !.updated = now]
    /\ UNCHANGED <<now, head, row, log, auth, client>>

ValidDesiredTransition(from, to) ==
    \/ from \in {"running", "draining"} /\ to \in {"running", "draining", "stopped"}
    \/ from = "stopped" /\ to = "running"

\* revise_live_configuration keeps the lease, set_desired_state to stopped ends it.
Configured(target) ==
    /\ ValidDesiredTransition(head.desired, target)
    /\ now >= head.highWater
    /\ head' = [head EXCEPT !.desired = target, !.revision = @ + 1, !.highWater = now]
    /\ row' = CASE target = "stopped"  -> NoRow
                [] target = "draining" -> [row EXCEPT !.observed = "draining"]
                [] OTHER               -> row

\* Mutant of AckConfig: the fence of the command stream stays behind.
AckConfigHeadOnly(i) ==
    /\ Acknowledges(i)
    /\ log[i].kind = "config"
    /\ i = Len(log)
    /\ Configured(log[i].target)
    /\ stream' = [stream EXCEPT !.acked = i, !.updated = now]
    /\ UNCHANGED <<now, log, auth, client>>

\* Mutant of AckConfig: a repeated acknowledgement configures again.
AckConfigAgain(i) ==
    /\ Live
    /\ stream.state = "active"
    /\ i \in {stream.acked, stream.acked + 1} \ {0}
    /\ i <= client.applied
    /\ log[i].kind = "config"
    /\ i = Len(log)
    /\ Configured(log[i].target)
    /\ stream' = [stream EXCEPT !.acked = i, !.revision = @ + 1, !.updated = now]
    /\ UNCHANGED <<now, log, auth, client>>

\* acknowledge_operation for ApplyConfig: cursor, head and, with
\* advance_drained_fence, the fence of the stream, or nothing at all.
AckConfig(i) ==
    /\ Acknowledges(i)
    /\ log[i].kind = "config"
    /\ i = Len(log)
    /\ Configured(log[i].target)
    /\ stream' = [stream EXCEPT !.acked = i, !.revision = @ + 1, !.updated = now]
    /\ UNCHANGED <<now, log, auth, client>>

\* rotate_operation: the proof acknowledges the command and issues the pending
\* successor.
Rotate(i, lost) ==
    LET successor == [generation |-> auth.current + 1, revision |-> log[i].revision + 1] IN
    /\ Acknowledges(i)
    /\ log[i].kind = "rotate"
    /\ auth.pending = NoCred
    /\ now < log[i].deadline
    /\ lost => MayFail
    /\ auth' = [auth EXCEPT !.pending = successor]
    /\ stream' = [stream EXCEPT !.acked = i, !.updated = now]
    /\ client' = [client EXCEPT !.successor = IF lost THEN @ ELSE successor]
    /\ UNCHANGED <<now, head, row, log>>

\* rotate_operation, replay: the proof of the command acknowledged last.
RotateReplay ==
    /\ Live
    /\ stream.acked > 0
    /\ log[stream.acked].kind = "rotate"
    /\ auth.pending # NoCred
    /\ client.successor = NoCred
    /\ client' = [client EXCEPT !.successor = auth.pending]
    /\ UNCHANGED <<now, head, row, stream, log, auth>>

\* observed_state
Observed(available, degraded) ==
    IF degraded THEN "degraded"
    ELSE IF head.desired = "draining" THEN "draining"
    ELSE IF available = 0 THEN "busy" ELSE "ready"

\* heartbeat_operation up to evaluate_heartbeat
Beats(h, available) ==
    /\ client.revision = head.revision
    /\ Deliverable(client.applied)
    /\ h > row.heartbeat
    /\ row.heartbeat > 0 => now - row.beatAt >= MinInterval
    /\ available <= Slots

\* Mutant of Heartbeat: an expired lease can be renewed.
HeartbeatLate(h, available, degraded) ==
    /\ Session
    /\ Beats(h, available)
    /\ now >= head.highWater
    /\ head' = [head EXCEPT !.highWater = now]
    /\ row' = [row EXCEPT !.expires = now + ControlTtl, !.heartbeat = h, !.beatAt = now,
                          !.observed = Observed(available, degraded), !.available = available]
    /\ UNCHANGED <<now, stream, log, auth, client>>

\* heartbeat_operation
Heartbeat(h, available, degraded) ==
    /\ Session
    /\ Beats(h, available)
    /\ now >= head.highWater
    /\ now < row.expires
    /\ head' = [head EXCEPT !.highWater = now]
    /\ row' = [row EXCEPT !.expires = now + ControlTtl, !.heartbeat = h, !.beatAt = now,
                          !.observed = Observed(available, degraded), !.available = available]
    /\ UNCHANGED <<now, stream, log, auth, client>>

-----------------------------------------------------------------------------
Owner ==
    \/ \E target \in {"running", "draining", "stopped"} : EnqueueConfig(target)
    \/ EnqueueRotation
    \/ EnqueueClose
    \/ EnqueueProvisioning
    \/ Revoke

Reconnect ==
    \E cred \in Presented, lost \in BOOLEAN : Resume(cred, lost) \/ Promote(cred, lost)

Settle ==
    \E i \in 1..Len(log) :
        AckPlain(i) \/ AckConfig(i) \/ (\E lost \in BOOLEAN : Rotate(i, lost))

Next ==
    \/ Clock
    \/ Owner
    \/ Reconnect
    \/ Disconnect
    \/ Apply
    \/ Settle
    \/ RotateReplay
    \/ \E h \in 1..MaxHeartbeat, available \in 0..Slots, degraded \in BOOLEAN :
         Heartbeat(h, available, degraded)

Spec == Init /\ [][Next]_vars

\* The Connector keeps reconnecting, applying and acknowledging.
FairSpec ==
    /\ Spec
    /\ WF_vars(Reconnect)
    /\ WF_vars(Disconnect /\ ~Live)
    /\ WF_vars(Apply)
    /\ WF_vars(Settle)

-----------------------------------------------------------------------------
(***************************************************************************)
(* Types, with the limit of the backlog: an owner can always revoke, even  *)
(* when the backlog is full, and nothing else goes past it (command.rs,    *)
(* append; the trigger of connector_control_commands).                     *)
(***************************************************************************)
TypeOK ==
    /\ now \in 0..MaxTime
    /\ head \in [generation: Nat, revision: Nat, desired: DesiredStates,
                 highEpoch: Nat, highWater: 0..MaxTime]
    /\ row \in [epoch: Nat, expires: Nat, heartbeat: Nat, beatAt: Nat,
                observed: {"offline", "starting", "ready", "busy", "draining", "degraded"},
                available: 0..Slots]
    /\ stream \in [generation: Nat, revision: Nat, state: {"active", "revoked"},
                   acked: Nat, updated: 0..MaxTime]
    /\ log \in Seq([kind: CommandKinds, generation: Nat, revision: Nat,
                    target: DesiredStates \union {"none"}, deadline: Nat])
    /\ auth \in [state: {"active", "revoked"}, current: Nat,
                 pending: [generation: Nat, revision: Nat]]
    /\ client \in [epoch: Nat, applied: Nat, revision: Nat, generation: Nat,
                   successor: [generation: Nat, revision: Nat]]
    /\ stream.acked <= client.applied
    /\ client.applied <= Len(log)
    /\ Cardinality(Pending) <= MaxBacklog + (IF stream.state = "revoked" THEN 1 ELSE 0)

(***************************************************************************)
(* The control head and the command stream never disagree on the fence,    *)
(* and while the stream is active every command not yet acknowledged still *)
(* carries it: no transaction leaves a command behind that a replay would  *)
(* report as corrupt (advance_drained_fence, load_command_suffix).         *)
(***************************************************************************)
FenceAgreement ==
    /\ Fence(stream) = Fence(head)
    /\ stream.state = "revoked" <=> head.desired = "revoked"
    /\ stream.state = "active" => \A i \in Pending : Fence(log[i]) = Fence(stream)

\* A configuration the Connector applied and did not get acknowledged stands on the first
\* page of the replay, the only one hello_spec_is_recoverable looks at.
AppliedOnPage ==
    \A i \in Pending : log[i].kind = "config" /\ i <= client.applied => i \in ReplayPage

\* One of the credentials the Connector holds opens a new stream.
MayComeBack == \E cred \in Presented : AcceptsCurrent(cred) \/ AcceptsPromotion(cred)

(***************************************************************************)
(* Whatever the Connector applied before its stream dropped, and whichever *)
(* replies were lost, nothing but the length of a replay page can keep it  *)
(* out: with AppliedOnPage one of its credentials opens a new stream, also *)
(* when the page ends in the middle of the backlog (open_operation,        *)
(* load_command_suffix, hello_spec_is_recoverable).                        *)
(***************************************************************************)
Resumable ==
    head.desired \in {"running", "draining"} /\ now >= head.highWater /\ AppliedOnPage =>
        MayComeBack

(***************************************************************************)
(* What enqueue_apply_configuration says: apply-before-ACK reconnects are  *)
(* recoverable, wherever in the backlog the configuration stands.          *)
(***************************************************************************)
ReconnectsRecoverable ==
    head.desired \in {"running", "draining"} /\ now >= head.highWater => MayComeBack

\* The stream never carried a provisioning command.
Unprovisioned == \A i \in 1..Len(log) : log[i].kind # "provision"

(***************************************************************************)
(* A successor the server issued is in the hands of the Connector or can   *)
(* still be asked for again: the rotation command stays the last           *)
(* acknowledged one until the successor is promoted (rotate_operation,     *)
(* acknowledge_command).  A provisioning command delivered behind the      *)
(* rotation would displace it (see BarrierRule).                           *)
(***************************************************************************)
SuccessorReachable ==
    Unprovisioned /\ auth.pending # NoCred =>
        \/ client.successor = auth.pending
        \/ stream.acked > 0 /\ log[stream.acked].kind = "rotate"

(***************************************************************************)
(* Every acknowledged command took effect exactly once, however often its  *)
(* acknowledgement, proof or first Hello was retried: the counters of the  *)
(* head count the acknowledged configurations, the promoted successors and *)
(* the revocation (acknowledge_operation, advance_generation).             *)
(***************************************************************************)
EffectsOnce ==
    LET done(kind) == Cardinality({i \in 1..stream.acked : log[i].kind = kind})
        promoted   == head.generation - 1
        revoked    == IF head.desired = "revoked" THEN 1 ELSE 0
    IN  /\ head.revision = 1 + done("config") + promoted + revoked
        /\ head.desired # "revoked" =>
             done("rotate") = promoted + (IF auth.pending = NoCred THEN 0 ELSE 1)

(***************************************************************************)
(* Configuration, rotation and terminal revocation are barriers: nothing   *)
(* but a terminal revocation is queued behind one that is not acknowledged *)
(* (pending_fence_barrier_exists, CommandLog::append).                     *)
(***************************************************************************)
BarrierRule ==
    \A i, j \in Pending : IsFenceBarrier(i) /\ i < j => log[j].kind = "revoke"

(***************************************************************************)
(* Again and again no configuration is waiting, unless the Connector was   *)
(* stopped or revoked, although streams drop, leases expire and replies    *)
(* are lost (acknowledge_operation).                                       *)
(***************************************************************************)
ConfigurationSettles ==
    []<>(\/ head.desired \in {"stopped", "revoked"}
         \/ \A i \in Pending : log[i].kind # "config")

-----------------------------------------------------------------------------
\* The control head as the Run router sees it.
L == INSTANCE LeaseAuthority WITH
        Connectors     <- {Connector},
        MaxConcurrency <- [c \in {Connector} |-> Slots],
        lease     <- [c \in {Connector} |->
                        [epoch |-> row.epoch, expires |-> row.expires,
                         heartbeat |-> row.heartbeat, available |-> row.available,
                         ready |-> head.desired = "running" /\ row.observed = "ready"]],
        highEpoch <- [c \in {Connector} |-> head.highEpoch],
        highWater <- [c \in {Connector} |-> head.highWater]

(***************************************************************************)
(* The control head implements the lease authority the Run router relies   *)
(* on: one lease at a time, a fresh epoch for every Hello, renewal only of *)
(* a live lease, and time that never runs backwards in what it accepts     *)
(* (connector.rs, issue_lease, evaluate_heartbeat, set_desired_state).     *)
(***************************************************************************)
LeaseAuthoritySpec == L!LeaseSpec
=============================================================================
