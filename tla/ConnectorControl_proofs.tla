---------------------- MODULE ConnectorControl_proofs ----------------------
(***************************************************************************)
(* Proofs about the control plane of one Connector: for every lifetime,    *)
(* backlog, page and clock behaviour, head, command stream and credentials *)
(* stay in step with each other and with the Connector, and the control    *)
(* head implements the lease authority of module LeaseAuthority.           *)
(***************************************************************************)
EXTENDS ConnectorControl, TLAPS, FiniteSetTheorems

USE ControlConstants

Command == [kind: CommandKinds, generation: Nat, revision: Nat,
            target: DesiredStates \union {"none"}, deadline: Nat]
Credential == [generation: Nat, revision: Nat]
Client == [epoch: Nat, applied: Nat, revision: Nat, generation: Nat, successor: Credential]
ControlHead == [generation: Nat, revision: Nat, desired: DesiredStates,
                highEpoch: Nat, highWater: 0..MaxTime]
ControlRow == [epoch: Nat, expires: Nat, heartbeat: Nat, beatAt: Nat,
               observed: {"offline", "starting", "ready", "busy", "draining", "degraded"},
               available: 0..Slots]
StreamHead == [generation: Nat, revision: Nat, state: {"active", "revoked"},
               acked: Nat, updated: 0..MaxTime]
Authorization == [state: {"active", "revoked"}, current: Nat, pending: Credential]

\* The types without the limit of the backlog.
Rows ==
    /\ now \in 0..MaxTime
    /\ head \in ControlHead
    /\ row \in ControlRow
    /\ stream \in StreamHead
    /\ log \in Seq(Command)
    /\ auth \in Authorization
    /\ client \in Client
    /\ stream.acked <= client.applied
    /\ client.applied <= Len(log)

\* The backlog as the difference of two positions.
Backlog == Len(log) - stream.acked <= MaxBacklog + (IF stream.state = "revoked" THEN 1 ELSE 0)

\* The number of pending commands is the distance of the cursor from the end of the log.
LEMMA PendingSize ==
    ASSUME Rows
    PROVE  Cardinality(Pending) = Len(log) - stream.acked
<1>1. stream.acked \in Nat /\ Len(log) \in Nat /\ stream.acked <= Len(log)
  BY DEF Rows, StreamHead, Client
<1>2. stream.acked + 1 \in Int /\ Len(log) \in Int
  BY <1>1
<1>3. Cardinality(Pending) =
        IF stream.acked + 1 > Len(log) THEN 0 ELSE Len(log) - (stream.acked + 1) + 1
  BY <1>2, FS_Interval DEF Pending
<1> QED
  BY <1>1, <1>3

\* TypeOK in the form the proofs use.
LEMMA TypeForm == TypeOK <=> Rows /\ Backlog
<1>1. TypeOK <=> Rows /\ Cardinality(Pending) <= MaxBacklog + (IF stream.state = "revoked" THEN 1 ELSE 0)
  BY DEF TypeOK, Rows, ControlHead, ControlRow, StreamHead, Command, Authorization, Client, Credential
<1> QED
  BY <1>1, PendingSize DEF Backlog

\* The tables start empty and well typed.
LEMMA InitRows == Init => Rows /\ Backlog
BY DEF Init, Rows, Backlog, ControlHead, ControlRow, StreamHead, Command, Authorization, Client, Credential,
   NoRow, NoCred, DesiredStates

\* The log grew by one command of this kind, under the fence of the stream.
Extended(kind) ==
    /\ log' \in Seq(Command)
    /\ Len(log) \in Nat
    /\ Len(log') = Len(log) + 1
    /\ \A i \in 1..Len(log) : log'[i] = log[i]
    /\ log'[Len(log) + 1].kind = kind
    /\ Fence(log'[Len(log) + 1]) = Fence(stream)

\* A queued command is the last one; the ones before it stay.
LEMMA EnqueueExtends ==
    ASSUME Rows, NEW kind \in CommandKinds, NEW target \in DesiredStates \union {"none"},
           NEW deadline \in Nat, Enqueue(kind, target, deadline)
    PROVE  Extended(kind)
<1> DEFINE new == [kind |-> kind, generation |-> stream.generation,
                   revision |-> stream.revision, target |-> target, deadline |-> deadline]
<1>1. new \in Command /\ new.kind = kind /\ Fence(new) = Fence(stream)
  BY DEF Rows, StreamHead, Command, Fence
<1>2. log' = Append(log, new)
  BY DEF Enqueue
<1>3. log \in Seq(Command)
  BY DEF Rows
<1> HIDE DEF new
<1>4. /\ log' \in Seq(Command)
      /\ Len(log') = Len(log) + 1
      /\ \A i \in 1..Len(log) : log'[i] = log[i]
      /\ log'[Len(log) + 1] = new
      /\ Len(log) \in Nat
  BY <1>1, <1>2, <1>3
<1> QED
  BY <1>1, <1>4 DEF Extended

\* The positions after a cursor when the log has grown by one.
LEMMA PendingNext ==
    ASSUME Rows, stream'.acked = stream.acked, Len(log') = Len(log) + 1
    PROVE  /\ Pending' = Pending \cup {Len(log) + 1}
           /\ Len(log) + 1 \notin Pending
           /\ \A i \in Pending : i \in 1..Len(log)
           /\ \A i \in Pending : i # Len(log) + 1
<1>1. stream.acked \in Nat /\ Len(log) \in Nat /\ stream.acked <= Len(log)
  BY DEF Rows, StreamHead, Client
<1>2. Pending' = (stream.acked + 1)..(Len(log) + 1)
  BY DEF Pending
<1>3. (stream.acked + 1)..(Len(log) + 1) = ((stream.acked + 1)..Len(log)) \cup {Len(log) + 1}
  BY <1>1
<1>4. /\ Len(log) + 1 \notin Pending
      /\ \A i \in Pending : i \in 1..Len(log)
      /\ \A i \in Pending : i # Len(log) + 1
  BY <1>1 DEF Pending
<1> QED
  BY <1>2, <1>3, <1>4 DEF Pending

\* The backlog has room for a command, or for the last one.
LEMMA EnqueueRoom ==
    ASSUME NEW kind, NEW target, NEW deadline, Enqueue(kind, target, deadline)
    PROVE  /\ stream.state = "active" /\ now >= stream.updated
           /\ \/ Len(log) - stream.acked < MaxBacklog
              \/ kind = "revoke" /\ Len(log) - stream.acked = MaxBacklog
BY DEF Enqueue, Room

-----------------------------------------------------------------------------
(* The inductive invariant *)

\* At most one command that moves the fence waits in an active stream.
OneBarrier ==
    stream.state = "active" =>
        \A i, j \in Pending : IsFenceBarrier(i) /\ IsFenceBarrier(j) => i = j

\* Without provisioning commands a rotation is the last command of an active stream from
\* the moment it is queued until its successor is promoted.
RotationLast ==
    stream.state = "active" /\ Unprovisioned =>
        /\ \A i \in Pending : log[i].kind = "rotate" => i = Len(log)
        /\ auth.pending # NoCred =>
              /\ stream.acked = Len(log)
              /\ stream.acked > 0
              /\ log[stream.acked].kind = "rotate"

\* The credentials the server accepts follow the generation of the head.
CredentialsFollow ==
    /\ head.generation >= 1
    /\ auth.state = stream.state
    /\ auth.current = head.generation
    /\ auth.pending = NoCred \/ auth.pending.generation = head.generation + 1
    /\ auth.state = "revoked" => auth.pending = NoCred

\* The Connector applied a configuration that is not acknowledged.
ConfigApplied == \E i \in Pending : i <= client.applied /\ log[i].kind = "config"

\* The Connector runs the generation of the head, and its revision or the next one.
InStep ==
    /\ client.generation = head.generation
    /\ client.successor.generation # head.generation
    /\ client.revision = head.revision + (IF ConfigApplied THEN 1 ELSE 0)

\* The Connector's successor was promoted and the answer to its Hello was lost.
Unheard ==
    /\ client.epoch = 0
    /\ client.generation < head.generation
    /\ Fence(client.successor) = Fence(head)
    /\ client.applied = stream.acked

ClientFollows == stream.state = "active" => InStep \/ Unheard

\* Only a lease that reported free slots is ready for work.
ReadyHasRoom == row.observed = "ready" => row.available > 0

\* The acknowledged commands of one kind.
Done(kind) == {i \in 1..stream.acked : log[i].kind = kind}

\* EffectsOnce with the acknowledged commands named.
Counts ==
    /\ head.revision = 1 + Cardinality(Done("config")) + (head.generation - 1)
                         + (IF head.desired = "revoked" THEN 1 ELSE 0)
    /\ head.desired # "revoked" =>
          Cardinality(Done("rotate")) =
              (head.generation - 1) + (IF auth.pending = NoCred THEN 0 ELSE 1)

ControlInv ==
    /\ Rows
    /\ Backlog
    /\ FenceAgreement
    /\ Counts
    /\ OneBarrier
    /\ RotationLast
    /\ CredentialsFollow
    /\ ClientFollows
    /\ ReadyHasRoom

\* What the types say of single fields.
LEMMA FieldTypes ==
    ASSUME Rows
    PROVE  /\ now \in Nat
           /\ head.generation \in Nat /\ head.revision \in Nat /\ head.highEpoch \in Nat
           /\ head.desired \in DesiredStates
           /\ stream.generation \in Nat /\ stream.revision \in Nat /\ stream.acked \in Nat
           /\ stream.state \in {"active", "revoked"}
           /\ client.epoch \in Nat /\ client.applied \in Nat /\ client.revision \in Nat
           /\ client.generation \in Nat /\ client.successor \in Credential
           /\ auth.current \in Nat /\ auth.pending \in Credential
           /\ auth.state \in {"active", "revoked"}
           /\ row.epoch \in Nat /\ row.heartbeat \in Nat /\ row.available \in Nat
           /\ Len(log) \in Nat /\ stream.acked <= client.applied /\ client.applied <= Len(log)
           /\ \A i \in 1..Len(log) : log[i] \in Command
<1>1. /\ now \in Nat
      /\ head.generation \in Nat /\ head.revision \in Nat /\ head.highEpoch \in Nat
      /\ head.desired \in DesiredStates
      /\ stream.generation \in Nat /\ stream.revision \in Nat /\ stream.acked \in Nat
      /\ stream.state \in {"active", "revoked"}
  BY DEF Rows, ControlHead, StreamHead
<1>2. /\ client.epoch \in Nat /\ client.applied \in Nat /\ client.revision \in Nat
      /\ client.generation \in Nat /\ client.successor \in Credential
      /\ auth.current \in Nat /\ auth.pending \in Credential
      /\ auth.state \in {"active", "revoked"}
      /\ row.epoch \in Nat /\ row.heartbeat \in Nat /\ row.available \in Nat
  BY DEF Rows, Client, Authorization, ControlRow
<1>3. /\ Len(log) \in Nat /\ stream.acked <= client.applied /\ client.applied <= Len(log)
      /\ \A i \in 1..Len(log) : log[i] \in Command
  BY DEF Rows
<1> QED
  BY <1>1, <1>2, <1>3

\* The acknowledged commands are finitely many.
LEMMA DoneFinite ==
    ASSUME Rows, NEW kind
    PROVE  /\ IsFiniteSet(Done(kind))
           /\ Cardinality(Done(kind)) \in Nat
<1>1. stream.acked \in Nat
  BY FieldTypes
<1>2. IsFiniteSet(1..stream.acked)
  BY <1>1, FS_Interval
<1>3. Done(kind) \in SUBSET (1..stream.acked)
  BY DEF Done
<1>4. IsFiniteSet(Done(kind))
  BY <1>2, <1>3, FS_Subset
<1> QED
  BY <1>4, FS_CardinalityType

\* A step that neither acknowledges nor rewrites leaves the acknowledged commands alone.
LEMMA DoneSame ==
    ASSUME stream'.acked = stream.acked, \A i \in 1..stream.acked : log'[i] = log[i], NEW kind
    PROVE  Done(kind)' = Done(kind)
BY DEF Done

\* An acknowledgement adds one command to those of its kind.
LEMMA DoneNext ==
    ASSUME Rows, NEW i \in Nat, i = stream.acked + 1, stream'.acked = i, log' = log, NEW kind
    PROVE  Cardinality(Done(kind)') =
             Cardinality(Done(kind)) + (IF log[i].kind = kind THEN 1 ELSE 0)
<1>0. stream.acked \in Nat
  BY FieldTypes
<1>1. CASE log[i].kind = kind
  <2>1. Done(kind)' = Done(kind) \cup {i} /\ i \notin Done(kind)
    BY <1>0, <1>1 DEF Done
  <2>2. Cardinality(Done(kind) \cup {i}) = Cardinality(Done(kind)) + 1
    BY <2>1, DoneFinite, FS_AddElement
  <2> QED
    BY <1>1, <2>1, <2>2
<1>2. CASE log[i].kind # kind
  <2>1. Done(kind)' = Done(kind)
    BY <1>0, <1>2 DEF Done
  <2>2. Cardinality(Done(kind)) \in Nat
    BY DoneFinite
  <2> QED
    BY <1>2, <2>1, <2>2
<1> QED
  BY <1>1, <1>2

\* The counters of the head are those of EffectsOnce.
LEMMA CountsForm == Counts <=> EffectsOnce
BY DEF Counts, EffectsOnce, Done

\* The invariant holds of a Connector that never connected.
LEMMA InitInv == Init => ControlInv
<1> SUFFICES ASSUME Init PROVE ControlInv
  OBVIOUS
<1>1. Rows /\ Backlog
  BY InitRows
<1>2. Pending = {} /\ Len(log) = 0
  BY DEF Init, Pending
<1>3. FenceAgreement /\ OneBarrier
  BY <1>2 DEF Init, FenceAgreement, Fence, OneBarrier
<1>4. Counts
  <2>1. Done("config") = {} /\ Done("rotate") = {}
    BY DEF Init, Done
  <2>2. Cardinality(Done("config")) = 0 /\ Cardinality(Done("rotate")) = 0
    BY <2>1, FS_EmptySet
  <2> HIDE DEF Done
  <2> QED
    BY <2>2 DEF Init, Counts
<1>5. RotationLast /\ CredentialsFollow /\ ReadyHasRoom
  BY <1>2 DEF Init, RotationLast, CredentialsFollow, ReadyHasRoom, NoRow
<1>6. ClientFollows
  BY <1>2 DEF Init, ClientFollows, InStep, ConfigApplied, NoCred
<1> QED
  BY <1>1, <1>3, <1>4, <1>5, <1>6 DEF ControlInv

-----------------------------------------------------------------------------
(* One lemma per operation *)

\* What the four owner commands that wait for the Connector have in common.
Queued(kind, target, deadline) ==
    /\ Enqueue(kind, target, deadline)
    /\ stream' = [stream EXCEPT !.updated = now]
    /\ UNCHANGED <<now, head, row, auth, client>>
    /\ kind # "provision" => ~PendingBarrier /\ auth.pending = NoCred
    /\ kind \in {"rotate"} => stream.acked = Len(log)

\* Every owner command but the revocation is queued in this way.
LEMMA OwnerQueues ==
    ASSUME Rows, Owner
    PROVE  \/ Revoke
           \/ \E kind \in {"config", "rotate", "close", "provision"},
                 target \in DesiredStates \union {"none"}, deadline \in Nat :
                    Queued(kind, target, deadline)
<1>1. now \in Nat /\ stream.acked \in Nat
  BY FieldTypes
<1>2. ASSUME NEW target \in {"running", "draining", "stopped"}, EnqueueConfig(target)
      PROVE  Queued("config", target, 0)
  BY <1>2 DEF EnqueueConfig, Queued
<1>3. CASE EnqueueRotation
  <2>1. Pending = {}
    BY <1>1, <1>3 DEF EnqueueRotation, Pending
  <2>2. Queued("rotate", "none", now + RotationTtl)
    BY <1>3, <2>1 DEF EnqueueRotation, Queued, PendingBarrier
  <2> QED
    BY <1>1, <2>2
<1>4. CASE EnqueueClose
  <2>1. Queued("close", "none", 0)
    BY <1>4 DEF EnqueueClose, Queued
  <2> QED
    BY <2>1
<1>5. CASE EnqueueProvisioning
  <2>1. Queued("provision", "none", 0)
    BY <1>5 DEF EnqueueProvisioning, Queued
  <2> QED
    BY <2>1
<1> QED
  BY <1>2, <1>3, <1>4, <1>5 DEF Owner, DesiredStates

\* A queued command carries the fence, and only a provisioning command goes behind a barrier.
LEMMA QueuedInv ==
    ASSUME ControlInv, NEW kind \in {"config", "rotate", "close", "provision"},
           NEW target \in DesiredStates \union {"none"}, NEW deadline \in Nat,
           Queued(kind, target, deadline)
    PROVE  ControlInv'
<1>0. Rows /\ kind \in CommandKinds /\ kind # "revoke" /\ Enqueue(kind, target, deadline)
  BY DEF ControlInv, CommandKinds, Queued
<1>1. Extended(kind)
  BY <1>0, EnqueueExtends
<1>2. /\ head' = head /\ row' = row /\ auth' = auth /\ client' = client /\ now' = now
      /\ stream' = [stream EXCEPT !.updated = now]
      /\ kind # "provision" => ~PendingBarrier /\ auth.pending = NoCred
  BY DEF Queued
<1>3. stream.state = "active" /\ Len(log) - stream.acked < MaxBacklog
  BY <1>0, EnqueueRoom
<1>4. stream' = [generation |-> stream.generation, revision |-> stream.revision,
                 state |-> stream.state, acked |-> stream.acked, updated |-> now]
  BY <1>0, <1>2 DEF Rows, StreamHead
<1>5. /\ stream'.acked = stream.acked /\ stream'.state = stream.state
      /\ stream'.generation = stream.generation /\ stream'.revision = stream.revision
      /\ stream' \in StreamHead
  BY <1>0, <1>4 DEF Rows, StreamHead
<1>6. /\ Pending' = Pending \cup {Len(log) + 1}
      /\ Len(log) + 1 \notin Pending
      /\ \A i \in Pending : i \in 1..Len(log)
      /\ \A i \in Pending : i # Len(log) + 1
  BY <1>0, <1>1, <1>5, PendingNext DEF Extended
<1>7. stream.acked \in Nat /\ client.applied \in Nat /\ Len(log) \in Nat
      /\ stream.acked <= client.applied /\ client.applied <= Len(log)
  BY <1>0, FieldTypes
<1>8. \A i \in Pending : log'[i] = log[i]
  BY <1>1, <1>6 DEF Extended
<1>9. Rows'
  BY <1>0, <1>1, <1>2, <1>5, <1>7, SMTT(40) DEF Rows, Extended
<1>10. Backlog'
  BY <1>1, <1>3, <1>5, <1>7 DEF Backlog, Extended
<1>11. FenceAgreement'
  BY <1>1, <1>2, <1>5, <1>6, <1>8 DEF ControlInv, FenceAgreement, Fence, Extended
<1>12. Counts'
  <2>1. \A i \in 1..stream.acked : log'[i] = log[i]
    BY <1>1, <1>7 DEF Extended
  <2>2. Done("config")' = Done("config") /\ Done("rotate")' = Done("rotate")
    BY <1>5, <2>1, DoneSame
  <2> QED
    BY <1>2, <2>2 DEF ControlInv, Counts
<1>13. OneBarrier'
  <2>1. CASE kind = "provision"
    <3>1. \A i \in Pending' : IsFenceBarrier(i)' => i \in Pending /\ IsFenceBarrier(i)
      BY <1>1, <1>6, <1>8, <2>1 DEF IsFenceBarrier, Extended
    <3> QED
      BY <1>3, <3>1 DEF ControlInv, OneBarrier
  <2>2. CASE kind # "provision"
    <3>1. \A i \in Pending' : IsFenceBarrier(i)' => i = Len(log) + 1
      BY <1>2, <1>6, <1>8, <2>2 DEF IsFenceBarrier, PendingBarrier
    <3> QED
      BY <3>1 DEF OneBarrier
  <2> QED
    BY <2>1, <2>2
<1>14. RotationLast'
  <2> SUFFICES ASSUME Unprovisioned' PROVE
         /\ \A i \in Pending' : log'[i].kind = "rotate" => i = Len(log')
         /\ auth'.pending = NoCred
    BY DEF RotationLast
  <2>1. kind # "provision"
    BY <1>1 DEF Unprovisioned, Extended
  <2>2. \A i \in Pending : log'[i].kind # "rotate"
    BY <1>2, <1>8, <2>1 DEF PendingBarrier, IsFenceBarrier
  <2> QED
    BY <1>1, <1>2, <1>6, <2>1, <2>2 DEF Extended
<1>15. CredentialsFollow' /\ ReadyHasRoom'
  BY <1>2, <1>5 DEF ControlInv, CredentialsFollow, ReadyHasRoom
<1>16. ClientFollows'
  <2>1. ConfigApplied' <=> ConfigApplied
    <3>1. \A i \in Pending' : i <= client.applied => i \in Pending
      BY <1>6, <1>7
    <3>2. \A i \in Pending : i \in Pending'
      BY <1>6
    <3> QED
      BY <1>2, <1>8, <3>1, <3>2 DEF ConfigApplied
  <2> QED
    BY <1>2, <1>5, <2>1 DEF ControlInv, ClientFollows, InStep, Unheard, Fence
<1> QED
  BY <1>9, <1>10, <1>11, <1>12, <1>13, <1>14, <1>15, <1>16 DEF ControlInv

\* A revocation ends stream, lease and credentials in one transaction.
LEMMA RevokeInv == ASSUME ControlInv, Revoke PROVE ControlInv'
<1>0. Rows /\ "revoke" \in CommandKinds /\ Enqueue("revoke", "none", 0)
  BY DEF ControlInv, CommandKinds, Revoke
<1>1. Extended("revoke")
  BY <1>0, EnqueueExtends
<1>2. /\ head' = [head EXCEPT !.desired = "revoked", !.revision = @ + 1, !.highWater = now]
      /\ row' = NoRow
      /\ stream' = [stream EXCEPT !.revision = @ + 1, !.state = "revoked", !.updated = now]
      /\ auth' = [auth EXCEPT !.state = "revoked", !.pending = NoCred]
      /\ now' = now /\ client' = client
      /\ head.desired # "revoked"
  BY DEF Revoke, OwnerFence
<1>3. stream.acked \in Nat /\ client.applied \in Nat /\ Len(log) \in Nat
      /\ stream.acked <= client.applied /\ client.applied <= Len(log)
      /\ head.revision \in Nat /\ head.generation \in Nat
  BY <1>0, FieldTypes
<1>4. head' = [generation |-> head.generation, revision |-> head.revision + 1,
               desired |-> "revoked", highEpoch |-> head.highEpoch, highWater |-> now]
  BY <1>0, <1>2 DEF Rows, ControlHead
<1>5. /\ head' \in ControlHead /\ head'.desired = "revoked" /\ head'.revision = head.revision + 1
      /\ head'.generation = head.generation
  BY <1>0, <1>4 DEF Rows, ControlHead, DesiredStates
<1>6. stream' = [generation |-> stream.generation, revision |-> stream.revision + 1,
                 state |-> "revoked", acked |-> stream.acked, updated |-> now]
  BY <1>0, <1>2 DEF Rows, StreamHead
<1>7. /\ stream' \in StreamHead /\ stream'.acked = stream.acked /\ stream'.state = "revoked"
      /\ stream'.revision = stream.revision + 1 /\ stream'.generation = stream.generation
  BY <1>0, <1>6 DEF Rows, StreamHead
<1>8. /\ auth' \in Authorization /\ auth'.state = "revoked" /\ auth'.pending = NoCred
      /\ auth'.current = auth.current
  BY <1>0, <1>2 DEF Rows, Authorization, NoCred, Credential
<1>9. row' \in ControlRow /\ ReadyHasRoom'
  BY <1>2 DEF NoRow, ControlRow, ReadyHasRoom
<1>10. Rows'
  BY <1>0, <1>1, <1>2, <1>3, <1>5, <1>7, <1>8, <1>9, SMTT(40) DEF Rows, Extended
<1>11. Backlog'
  <2>1. Len(log) - stream.acked <= MaxBacklog
    BY <1>0, <1>3, EnqueueRoom
  <2> QED
    BY <1>1, <1>3, <1>7, <2>1 DEF Backlog, Extended
<1>12. FenceAgreement'
  BY <1>5, <1>7 DEF ControlInv, FenceAgreement, Fence
<1>13. Counts'
  <2>1. \A i \in 1..stream.acked : log'[i] = log[i]
    BY <1>1, <1>3 DEF Extended
  <2>2. Done("config")' = Done("config")
    BY <1>7, <2>1, DoneSame
  <2>3. Cardinality(Done("config")) \in Nat
    BY <1>0, DoneFinite
  <2>4. head.revision = 1 + Cardinality(Done("config")) + (head.generation - 1)
    BY <1>2, <1>3, <2>3, SMTT(40) DEF ControlInv, Counts
  <2> QED
    BY <1>3, <1>5, <2>2, <2>3, <2>4 DEF Counts
<1>14. OneBarrier' /\ RotationLast' /\ ClientFollows'
  BY <1>7 DEF OneBarrier, RotationLast, ClientFollows
<1>15. CredentialsFollow'
  BY <1>5, <1>7, <1>8 DEF ControlInv, CredentialsFollow
<1> QED
  BY <1>9, <1>10, <1>11, <1>12, <1>13, <1>14, <1>15 DEF ControlInv

\* A step that only the Connector takes disturbs nothing but what relates to it.
LEMMA ClientInv ==
    ASSUME ControlInv, UNCHANGED <<now, head, row, stream, log, auth>>,
           client' \in Client, stream.acked <= client'.applied, client'.applied <= Len(log),
           ClientFollows'
    PROVE  ControlInv'
<1>1. Rows'
  BY DEF ControlInv, Rows
<1>2. Pending' = Pending /\ Backlog'
  BY DEF ControlInv, Pending, Backlog
<1>3. FenceAgreement'
  BY <1>2 DEF ControlInv, FenceAgreement, Fence
<1>4. Counts'
  BY DEF ControlInv, Counts, Done
<1>5. OneBarrier' /\ RotationLast'
  BY <1>2 DEF ControlInv, OneBarrier, RotationLast, IsFenceBarrier, Unprovisioned
<1>6. CredentialsFollow' /\ ReadyHasRoom'
  BY DEF ControlInv, CredentialsFollow, ReadyHasRoom
<1> QED
  BY <1>1, <1>2, <1>3, <1>4, <1>5, <1>6 DEF ControlInv

\* A stream that drops changes nothing the Connector keeps.
LEMMA DisconnectInv == ASSUME ControlInv, Disconnect PROVE ControlInv'
<1>0. Rows
  BY DEF ControlInv
<1>1. /\ UNCHANGED <<now, head, row, stream, log, auth>>
      /\ client.epoch # 0
      /\ client' = [epoch |-> 0, applied |-> client.applied, revision |-> client.revision,
                    generation |-> client.generation, successor |-> client.successor]
  BY <1>0 DEF Disconnect, Rows, Client
<1>2. client' \in Client /\ client'.applied = client.applied /\ client'.revision = client.revision
      /\ client'.generation = client.generation /\ client'.successor = client.successor
  BY <1>0, <1>1 DEF Rows, Client
<1>3. ClientFollows'
  <2>1. ConfigApplied' <=> ConfigApplied
    BY <1>1, <1>2 DEF ConfigApplied, Pending
  <2> QED
    BY <1>1, <1>2, <2>1 DEF ControlInv, ClientFollows, InStep, Unheard
<1> QED
  BY <1>0, <1>1, <1>2, <1>3, ClientInv DEF Rows

\* A Connector with a live session is in step with the head.
LEMMA SessionInStep ==
    ASSUME ControlInv, stream.state = "active", client.epoch # 0
    PROVE  InStep
BY DEF ControlInv, ClientFollows, Unheard

\* Applying the only configuration that waits moves the Connector one revision ahead.
LEMMA ApplyInv == ASSUME ControlInv, Apply PROVE ControlInv'
<1> DEFINE i == client.applied + 1
<1>0. Rows /\ stream.state = "active" /\ client.epoch # 0
  BY DEF ControlInv, Apply, Live, Session, Deliverable
<1>1. /\ UNCHANGED <<now, head, row, stream, log, auth>>
      /\ i <= Len(log) /\ Fence(log[i]) = Fence(head)
      /\ client' = [client EXCEPT !.applied = i,
                    !.revision = IF log[i].kind = "config" THEN log[i].revision + 1 ELSE @]
  BY DEF Apply
<1>2. stream.acked \in Nat /\ client.applied \in Nat /\ Len(log) \in Nat
      /\ stream.acked <= client.applied /\ client.applied <= Len(log)
      /\ head.revision \in Nat
  BY <1>0, FieldTypes
<1>3. i \in Nat /\ i \in 1..Len(log) /\ i \in Pending /\ i > client.applied
  <2>1. i <= Len(log)
    BY <1>1
  <2> QED
    BY <1>2, <2>1 DEF Pending
<1>4. log[i] \in Command
  BY <1>0, <1>3, FieldTypes
<1>5. log[i].revision = head.revision
  BY <1>1 DEF Fence
<1> DEFINE rev == IF log[i].kind = "config" THEN head.revision + 1 ELSE client.revision
<1>6. client' = [epoch |-> client.epoch, applied |-> i, revision |-> rev,
                 generation |-> client.generation, successor |-> client.successor]
  BY <1>0, <1>1, <1>5 DEF Rows, Client
<1>7. rev \in Nat
  BY <1>0, <1>2, FieldTypes, SMTT(40)
<1>8. client' \in Client /\ client'.applied = i /\ client'.revision = rev
      /\ client'.generation = client.generation /\ client'.successor = client.successor
  <2> HIDE DEF rev, i
  <2> QED
    BY <1>0, <1>3, <1>6, <1>7 DEF Rows, Client
<1> HIDE DEF i
<1>9. InStep
  BY <1>0, SessionInStep
<1>10. InStep'
  <2>1. CASE log[i].kind = "config"
    <3>1. ConfigApplied'
      <4>1. i \in Pending' /\ i <= client'.applied /\ log'[i].kind = "config"
        BY <1>1, <1>3, <1>8, <2>1 DEF Pending
      <4> QED
        BY <4>1 DEF ConfigApplied
    <3>2. ~ConfigApplied
      <4> SUFFICES ASSUME NEW j \in Pending, j <= client.applied, log[j].kind = "config"
                   PROVE  FALSE
        BY DEF ConfigApplied
      <4>1. j # i
        BY <1>2, <1>3 DEF Pending
      <4> QED
        BY <1>0, <1>3, <2>1, <4>1 DEF ControlInv, OneBarrier, IsFenceBarrier
    <3> QED
      BY <1>1, <1>8, <1>9, <2>1, <3>1, <3>2 DEF InStep
  <2>2. CASE log[i].kind # "config"
    <3>1. ConfigApplied' <=> ConfigApplied
      <4>1. \A j \in Pending : j <= i <=> j <= client.applied \/ j = i
        BY <1>2, <1>3 DEF Pending, i
      <4> QED
        BY <1>1, <1>8, <2>2, <4>1 DEF ConfigApplied, Pending
    <3> QED
      BY <1>1, <1>8, <1>9, <2>2, <3>1 DEF InStep
  <2> QED
    BY <2>1, <2>2
<1>11. ClientFollows'
  BY <1>10 DEF ClientFollows
<1>12. stream.acked <= client'.applied /\ client'.applied <= Len(log)
  BY <1>1, <1>2, <1>3, <1>8, SMTT(40)
<1> QED
  BY <1>1, <1>8, <1>11, <1>12, ClientInv

\* A repeated rotation proof hands out the pending successor again.
LEMMA ReplayInv == ASSUME ControlInv, RotateReplay PROVE ControlInv'
<1>0. /\ Rows /\ client.epoch # 0
      /\ UNCHANGED <<now, head, row, stream, log, auth>>
      /\ auth.pending # NoCred
      /\ client' = [client EXCEPT !.successor = auth.pending]
      /\ auth.state = "active"
  BY DEF ControlInv, RotateReplay, Live, Session
<1>1. client' = [epoch |-> client.epoch, applied |-> client.applied, revision |-> client.revision,
                 generation |-> client.generation, successor |-> auth.pending]
  BY <1>0 DEF Rows, Client
<1>2. auth.pending \in Credential
  BY <1>0, FieldTypes
<1>3. client' \in Client /\ client'.applied = client.applied /\ client'.revision = client.revision
      /\ client'.generation = client.generation /\ client'.successor = auth.pending
  BY <1>0, <1>1, <1>2 DEF Rows, Client
<1>4. ClientFollows'
  <2>1. stream.state = "active"
    BY <1>0 DEF ControlInv, CredentialsFollow
  <2>2. InStep
    BY <1>0, <2>1, SessionInStep
  <2>3. ConfigApplied' <=> ConfigApplied
    BY <1>0, <1>3 DEF ConfigApplied, Pending
  <2>4. auth.pending.generation = head.generation + 1 /\ head.generation \in Nat
    BY <1>0, FieldTypes DEF ControlInv, CredentialsFollow
  <2> QED
    BY <1>0, <1>3, <2>2, <2>3, <2>4 DEF ClientFollows, InStep
<1> QED
  BY <1>0, <1>3, <1>4, ClientInv DEF Rows

\* The clock and heartbeats change nothing that the commands are fenced by.
LEMMA FenceKept ==
    ASSUME ControlInv, UNCHANGED <<stream, log, auth, client>>,
           now' \in 0..MaxTime, head' \in ControlHead, row' \in ControlRow, ReadyHasRoom',
           head'.generation = head.generation, head'.revision = head.revision,
           head'.desired = head.desired
    PROVE  ControlInv'
<1>1. Rows' /\ Backlog'
  BY DEF ControlInv, Rows, Backlog
<1>2. Pending' = Pending
  BY DEF Pending
<1>3. FenceAgreement' /\ Counts'
  BY <1>2 DEF ControlInv, FenceAgreement, Fence, Counts, Done
<1>4. OneBarrier' /\ RotationLast' /\ CredentialsFollow'
  BY <1>2 DEF ControlInv, OneBarrier, RotationLast, IsFenceBarrier, Unprovisioned, CredentialsFollow
<1>5. ClientFollows'
  <2>1. ConfigApplied' <=> ConfigApplied
    BY <1>2 DEF ConfigApplied
  <2> QED
    BY <2>1 DEF ControlInv, ClientFollows, InStep, Unheard, Fence
<1> QED
  BY <1>1, <1>3, <1>4, <1>5 DEF ControlInv

\* Only a report of free slots makes a lease ready.
LEMMA HeartbeatInv ==
    ASSUME ControlInv, NEW h \in 1..MaxHeartbeat, NEW available \in 0..Slots,
           NEW degraded \in BOOLEAN, Heartbeat(h, available, degraded)
    PROVE  ControlInv'
<1>0. /\ Rows /\ UNCHANGED <<now, stream, log, auth, client>>
      /\ head' = [head EXCEPT !.highWater = now]
      /\ row' = [row EXCEPT !.expires = now + ControlTtl, !.heartbeat = h, !.beatAt = now,
                            !.observed = Observed(available, degraded), !.available = available]
  BY DEF ControlInv, Heartbeat
<1>1. head' = [generation |-> head.generation, revision |-> head.revision,
               desired |-> head.desired, highEpoch |-> head.highEpoch, highWater |-> now]
  BY <1>0 DEF Rows, ControlHead
<1>2. head' \in ControlHead /\ head'.generation = head.generation
      /\ head'.revision = head.revision /\ head'.desired = head.desired
  BY <1>0, <1>1 DEF Rows, ControlHead
<1>3. row' = [epoch |-> row.epoch, expires |-> now + ControlTtl, heartbeat |-> h,
              beatAt |-> now, observed |-> Observed(available, degraded), available |-> available]
  BY <1>0 DEF Rows, ControlRow
<1>4. Observed(available, degraded) \in {"ready", "busy", "draining", "degraded"}
      /\ (Observed(available, degraded) = "ready" => available # 0)
  BY DEF Observed
<1>5. now \in Nat /\ row.epoch \in Nat /\ h \in Nat /\ now + ControlTtl \in Nat
  <2>1. now \in Nat /\ row.epoch \in Nat
    BY <1>0, FieldTypes
  <2> QED
    BY <2>1
<1>6. row' \in ControlRow /\ ReadyHasRoom'
  BY <1>3, <1>4, <1>5 DEF ControlRow, ReadyHasRoom
<1> QED
  BY <1>0, <1>2, <1>6, FenceKept DEF Rows

\* The clock is not part of what the invariant relates.
LEMMA ClockInv == ASSUME ControlInv, Clock PROVE ControlInv'
<1>1. /\ UNCHANGED <<head, row, stream, log, auth, client>>
      /\ now' \in 0..MaxTime
  BY DEF Clock
<1>2. head' \in ControlHead /\ row' \in ControlRow /\ ReadyHasRoom'
  BY <1>1 DEF ControlInv, Rows, ReadyHasRoom
<1> QED
  BY <1>1, <1>2, FenceKept

\* An acknowledgement removes the first pending command.
LEMMA PendingAcked ==
    ASSUME Rows, NEW i, i = stream.acked + 1, i <= client.applied, log' = log, stream'.acked = i
    PROVE  /\ i \in Nat /\ i \in Pending /\ i \in 1..Len(log)
           /\ Pending' = Pending \ {i}
           /\ i = Len(log) => Pending' = {}
<1>1. stream.acked \in Nat /\ client.applied \in Nat /\ Len(log) \in Nat
      /\ stream.acked <= client.applied /\ client.applied <= Len(log)
  BY FieldTypes
<1>2. i \in Nat /\ i <= Len(log)
  BY <1>1
<1>3. Pending' = (i + 1)..Len(log) /\ Pending = i..Len(log)
  BY DEF Pending
<1>4. (i + 1)..Len(log) = (i..Len(log)) \ {i} /\ i \in i..Len(log) /\ i \in 1..Len(log)
      /\ (i = Len(log) => (i + 1)..Len(log) = {})
  BY <1>1, <1>2
<1> QED
  BY <1>2, <1>3, <1>4

\* An acknowledgement makes room in the backlog.
LEMMA BacklogAcked ==
    ASSUME Rows, Backlog, NEW i, i = stream.acked + 1, log' = log, stream'.acked = i,
           stream'.state = stream.state
    PROVE  Backlog'
<1>1. stream.acked \in Nat /\ Len(log) \in Nat
  BY FieldTypes
<1>2. Len(log) - (stream.acked + 1) <= Len(log) - stream.acked
  BY <1>1
<1>3. Len(log') - stream'.acked = Len(log) - (stream.acked + 1)
  OBVIOUS
<1> DEFINE limit == MaxBacklog + (IF stream.state = "revoked" THEN 1 ELSE 0)
<1>4. limit \in Nat /\ Len(log) - stream.acked <= limit
  BY DEF Backlog
<1> HIDE DEF limit
<1>5. Len(log') - stream'.acked <= limit
  BY <1>1, <1>2, <1>3, <1>4
<1> QED
  BY <1>5 DEF Backlog, limit

\* The cursor of the stream moves by one and nothing else of it.
LEMMA StreamAcked ==
    ASSUME Rows, NEW i \in Nat, stream' = [stream EXCEPT !.acked = i, !.updated = now]
    PROVE  /\ stream' \in StreamHead /\ stream'.acked = i /\ stream'.state = stream.state
           /\ stream'.generation = stream.generation /\ stream'.revision = stream.revision
<1>1. stream' = [generation |-> stream.generation, revision |-> stream.revision,
                 state |-> stream.state, acked |-> i, updated |-> now]
  BY DEF Rows, StreamHead
<1> QED
  BY <1>1 DEF Rows, StreamHead

\* CloseStream and the provisioning commands have no effect but the cursor.
LEMMA AckPlainInv == ASSUME ControlInv, NEW i \in Nat, AckPlain(i) PROVE ControlInv'
<1>0. /\ Rows /\ UNCHANGED <<now, head, row, log, auth, client>>
      /\ i = stream.acked + 1 /\ i <= client.applied
      /\ log[i].kind \in {"close", "provision"}
      /\ stream' = [stream EXCEPT !.acked = i, !.updated = now]
  BY DEF ControlInv, AckPlain, Acknowledges
<1>1. /\ stream' \in StreamHead /\ stream'.acked = i /\ stream'.state = stream.state
      /\ stream'.generation = stream.generation /\ stream'.revision = stream.revision
  BY <1>0, StreamAcked
<1>2. i \in Pending /\ Pending' = Pending \ {i} /\ i \in 1..Len(log)
  BY <1>0, <1>1, PendingAcked
<1>3. stream.acked \in Nat /\ Len(log) \in Nat /\ client.applied \in Nat
      /\ client.applied <= Len(log)
  BY <1>0, FieldTypes
<1>4. Rows' /\ Backlog'
  <2>1. Rows'
    BY <1>0, <1>1 DEF Rows
  <2>2. Backlog
    BY DEF ControlInv
  <2>3. Backlog'
    BY <1>0, <1>1, <2>2, BacklogAcked
  <2> QED
    BY <2>1, <2>3
<1>5. FenceAgreement'
  BY <1>0, <1>1, <1>2 DEF ControlInv, FenceAgreement, Fence
<1>6. Counts'
  <2>1. Cardinality(Done("config")') = Cardinality(Done("config"))
        /\ Cardinality(Done("rotate")') = Cardinality(Done("rotate"))
    <3>1. Cardinality(Done("config")) \in Nat /\ Cardinality(Done("rotate")) \in Nat
      BY <1>0, DoneFinite
    <3>2. Cardinality(Done("config")') = Cardinality(Done("config")) + 0
          /\ Cardinality(Done("rotate")') = Cardinality(Done("rotate")) + 0
      BY <1>0, <1>1, DoneNext
    <3> QED
      BY <3>1, <3>2
  <2> QED
    BY <1>0, <2>1 DEF ControlInv, Counts
<1>7. OneBarrier'
  BY <1>0, <1>1, <1>2 DEF ControlInv, OneBarrier, IsFenceBarrier
<1>8. RotationLast'
  <2> SUFFICES ASSUME stream.state = "active", Unprovisioned PROVE
         /\ \A j \in Pending' : log[j].kind = "rotate" => j = Len(log)
         /\ auth.pending = NoCred
    BY <1>0, <1>1 DEF RotationLast, Unprovisioned
  <2>1. auth.pending # NoCred => stream.acked = Len(log)
    BY DEF ControlInv, RotationLast
  <2>2. auth.pending = NoCred
    BY <1>0, <1>3, <2>1, SMTT(40)
  <2> QED
    BY <1>2, <2>2 DEF ControlInv, RotationLast
<1>9. CredentialsFollow' /\ ReadyHasRoom'
  BY <1>0, <1>1 DEF ControlInv, CredentialsFollow, ReadyHasRoom
<1>10. ClientFollows'
  <2>1. ConfigApplied' <=> ConfigApplied
    BY <1>0, <1>2 DEF ConfigApplied
  <2>2. stream.state = "active" /\ client.epoch # 0
    BY DEF AckPlain, Acknowledges, Live, Session
  <2> QED
    BY <1>0, <2>1, <2>2, SessionInStep DEF ClientFollows, InStep
<1> QED
  BY <1>4, <1>5, <1>6, <1>7, <1>8, <1>9, <1>10 DEF ControlInv

\* The proof of a rotation is acknowledged and its successor waits for promotion.
LEMMA RotateInv ==
    ASSUME ControlInv, NEW i \in Nat, NEW lost \in BOOLEAN, Rotate(i, lost) PROVE ControlInv'
<1> DEFINE successor == [generation |-> auth.current + 1, revision |-> log[i].revision + 1]
<1>0. /\ Rows /\ UNCHANGED <<now, head, row, log>>
      /\ i = stream.acked + 1 /\ i <= client.applied
      /\ log[i].kind = "rotate" /\ auth.pending = NoCred
      /\ stream' = [stream EXCEPT !.acked = i, !.updated = now]
      /\ auth' = [auth EXCEPT !.pending = successor]
      /\ client' = [client EXCEPT !.successor = IF lost THEN @ ELSE successor]
      /\ stream.state = "active" /\ client.epoch # 0
  BY DEF ControlInv, Rotate, Acknowledges, Live, Session
<1>1. /\ stream' \in StreamHead /\ stream'.acked = i /\ stream'.state = stream.state
      /\ stream'.generation = stream.generation /\ stream'.revision = stream.revision
  BY <1>0, StreamAcked
<1>2. i \in Pending /\ Pending' = Pending \ {i} /\ i \in 1..Len(log) /\ i > 0
  BY <1>0, <1>1, PendingAcked, SMTT(40)
<1>3. stream.acked \in Nat /\ Len(log) \in Nat /\ client.applied \in Nat
      /\ client.applied <= Len(log) /\ auth.current \in Nat /\ head.generation \in Nat
      /\ client.successor \in Credential
  BY <1>0, FieldTypes
<1>4. log[i].revision \in Nat
  BY <1>0, <1>2, FieldTypes DEF Command
<1>5. successor \in Credential /\ successor.generation = auth.current + 1 /\ successor # NoCred
  BY <1>3, <1>4, SMTT(40) DEF Credential, NoCred
<1> HIDE DEF successor
<1>6. auth' \in Authorization /\ auth'.pending = successor /\ auth'.current = auth.current
      /\ auth'.state = auth.state
  BY <1>0, <1>5 DEF Rows, Authorization
<1> DEFINE kept == IF lost THEN client.successor ELSE successor
<1>7. client' = [epoch |-> client.epoch, applied |-> client.applied, revision |-> client.revision,
                 generation |-> client.generation, successor |-> kept]
  BY <1>0 DEF Rows, Client
<1>8. kept \in Credential /\ kept \in {client.successor, successor}
  BY <1>3, <1>5
<1> HIDE DEF kept
<1>9. client' \in Client /\ client'.applied = client.applied /\ client'.revision = client.revision
      /\ client'.generation = client.generation /\ client'.successor = kept
  <2>1. /\ client.epoch \in Nat /\ client.applied \in Nat /\ client.revision \in Nat
        /\ client.generation \in Nat
    BY <1>0, FieldTypes
  <2> QED
    BY <1>7, <1>8, <2>1 DEF Client
<1>10. Rows' /\ Backlog'
  <2>1. Rows'
    BY <1>0, <1>1, <1>6, <1>9 DEF Rows
  <2>2. Backlog
    BY DEF ControlInv
  <2>3. Backlog'
    BY <1>0, <1>1, <2>2, BacklogAcked
  <2> QED
    BY <2>1, <2>3
<1>11. FenceAgreement'
  BY <1>0, <1>1, <1>2 DEF ControlInv, FenceAgreement, Fence
<1>12. head.desired # "revoked"
  BY <1>0 DEF ControlInv, FenceAgreement
<1>13. Counts'
  <2>1. Cardinality(Done("config")) \in Nat /\ Cardinality(Done("rotate")) \in Nat
    BY <1>0, DoneFinite
  <2>2. Cardinality(Done("config")') = Cardinality(Done("config")) + 0
        /\ Cardinality(Done("rotate")') = Cardinality(Done("rotate")) + 1
    BY <1>0, <1>1, DoneNext
  <2>3. head.revision = 1 + Cardinality(Done("config")) + (head.generation - 1)
                          + (IF head.desired = "revoked" THEN 1 ELSE 0)
        /\ Cardinality(Done("rotate")) = (head.generation - 1) + 0
    BY <1>0, <1>12 DEF ControlInv, Counts
  <2> QED
    BY <1>0, <1>3, <1>5, <1>6, <1>12, <2>1, <2>2, <2>3, SMTT(40) DEF Counts
<1>14. OneBarrier'
  BY <1>0, <1>1, <1>2 DEF ControlInv, OneBarrier, IsFenceBarrier
<1>15. RotationLast'
  <2> SUFFICES ASSUME Unprovisioned PROVE
         /\ \A j \in Pending' : log[j].kind = "rotate" => j = Len(log)
         /\ i = Len(log)
    BY <1>0, <1>1, <1>2 DEF RotationLast, Unprovisioned
  <2> QED
    BY <1>0, <1>2 DEF ControlInv, RotationLast
<1>16. CredentialsFollow' /\ ReadyHasRoom'
  BY <1>0, <1>1, <1>5, <1>6 DEF ControlInv, CredentialsFollow, ReadyHasRoom
<1>17. ClientFollows'
  <2>1. ConfigApplied' <=> ConfigApplied
    BY <1>0, <1>2, <1>9 DEF ConfigApplied
  <2>2. InStep
    BY <1>0, SessionInStep
  <2>3. successor.generation # head.generation
    BY <1>3, <1>5 DEF ControlInv, CredentialsFollow
  <2> QED
    BY <1>0, <1>8, <1>9, <2>1, <2>2, <2>3 DEF ClientFollows, InStep
<1> QED
  BY <1>10, <1>11, <1>13, <1>14, <1>15, <1>16, <1>17 DEF ControlInv

\* The acknowledged configuration moves head and stream to the revision the Connector runs.
LEMMA AckConfigInv == ASSUME ControlInv, NEW i \in Nat, AckConfig(i) PROVE ControlInv'
<1> DEFINE target == log[i].target
<1>0. /\ Rows /\ UNCHANGED <<now, log, auth, client>>
      /\ i = stream.acked + 1 /\ i <= client.applied
      /\ log[i].kind = "config" /\ i = Len(log)
      /\ stream' = [stream EXCEPT !.acked = i, !.revision = @ + 1, !.updated = now]
      /\ head' = [head EXCEPT !.desired = target, !.revision = @ + 1, !.highWater = now]
      /\ stream.state = "active" /\ client.epoch # 0
  BY DEF ControlInv, AckConfig, Configured, Acknowledges, Live, Session
<1>1. head.desired # "revoked" /\ target \in {"running", "draining", "stopped"}
  BY DEF AckConfig, Configured, ValidDesiredTransition
<1>2. row' \in {NoRow, [row EXCEPT !.observed = "draining"], row}
  BY DEF AckConfig, Configured
<1> HIDE DEF target
<1>3. stream' = [generation |-> stream.generation, revision |-> stream.revision + 1,
                 state |-> stream.state, acked |-> i, updated |-> now]
  BY <1>0 DEF Rows, StreamHead
<1>4. /\ stream' \in StreamHead /\ stream'.acked = i /\ stream'.state = stream.state
      /\ stream'.generation = stream.generation /\ stream'.revision = stream.revision + 1
  <2>1. /\ stream.generation \in Nat /\ stream.revision \in Nat
        /\ stream.state \in {"active", "revoked"} /\ now \in 0..MaxTime
    BY <1>0, FieldTypes DEF Rows
  <2> QED
    BY <1>3, <2>1 DEF StreamHead
<1>5. head' = [generation |-> head.generation, revision |-> head.revision + 1,
               desired |-> target, highEpoch |-> head.highEpoch, highWater |-> now]
  BY <1>0 DEF Rows, ControlHead
<1>6. /\ head' \in ControlHead /\ head'.generation = head.generation
      /\ head'.revision = head.revision + 1 /\ head'.desired = target
  BY <1>0, <1>1, <1>5, SMTT(40) DEF Rows, ControlHead, DesiredStates
<1>7. row' \in ControlRow /\ ReadyHasRoom'
  <2>1. CASE row' = NoRow
    BY <2>1 DEF NoRow, ControlRow, ReadyHasRoom
  <2>2. CASE row' = row
    BY <1>0, <2>2 DEF ControlInv, Rows, ReadyHasRoom
  <2>3. CASE row' = [row EXCEPT !.observed = "draining"]
    <3>1. row' = [epoch |-> row.epoch, expires |-> row.expires, heartbeat |-> row.heartbeat,
                  beatAt |-> row.beatAt, observed |-> "draining", available |-> row.available]
      BY <1>0, <2>3 DEF Rows, ControlRow
    <3> QED
      BY <1>0, <3>1 DEF Rows, ControlRow, ReadyHasRoom
  <2> QED
    BY <1>2, <2>1, <2>2, <2>3
<1>8. stream.acked \in Nat /\ Len(log) \in Nat /\ client.applied \in Nat
      /\ client.applied <= Len(log) /\ head.revision \in Nat /\ head.generation \in Nat
      /\ client.revision \in Nat
  BY <1>0, FieldTypes
<1>9. i \in Pending /\ Pending' = {}
  BY <1>0, <1>4, PendingAcked
<1>10. Rows' /\ Backlog'
  <2>1. Rows'
    BY <1>0, <1>4, <1>6, <1>7 DEF Rows
  <2>2. Backlog'
    BY <1>0, <1>4, <1>8, SMTT(40) DEF Backlog
  <2> QED
    BY <2>1, <2>2
<1>11. FenceAgreement'
  BY <1>0, <1>1, <1>4, <1>6, <1>9 DEF ControlInv, FenceAgreement, Fence
<1>12. Counts'
  <2>1. Cardinality(Done("config")) \in Nat /\ Cardinality(Done("rotate")) \in Nat
    BY <1>0, DoneFinite
  <2>2. Cardinality(Done("config")') = Cardinality(Done("config")) + 1
        /\ Cardinality(Done("rotate")') = Cardinality(Done("rotate")) + 0
    BY <1>0, <1>4, DoneNext
  <2>3. head.revision = 1 + Cardinality(Done("config")) + (head.generation - 1) + 0
        /\ Cardinality(Done("rotate")) = (head.generation - 1) + (IF auth.pending = NoCred THEN 0 ELSE 1)
    BY <1>1 DEF ControlInv, Counts
  <2>4. head'.revision = 1 + Cardinality(Done("config")') + (head'.generation - 1) + 0
    <3>1. head.revision + 1 = 1 + (Cardinality(Done("config")) + 1) + (head.generation - 1) + 0
      <4>1. head.revision = 1 + Cardinality(Done("config")) + (head.generation - 1) + 0
        BY <2>3
      <4> QED
        BY <1>8, <2>1, <4>1, SMTT(40)
    <3> QED
      BY <1>6, <2>2, <3>1
  <2>5. Cardinality(Done("rotate")') =
          (head'.generation - 1) + (IF auth'.pending = NoCred THEN 0 ELSE 1)
    BY <1>0, <1>6, <2>1, <2>2, <2>3
  <2> QED
    BY <1>1, <1>6, <2>4, <2>5 DEF Counts
<1>13. OneBarrier'
  BY <1>9 DEF OneBarrier
<1>14. auth.pending # NoCred => ~Unprovisioned
  <2>1. Unprovisioned /\ auth.pending # NoCred => stream.acked = Len(log)
    BY <1>0 DEF ControlInv, RotationLast
  <2> QED
    BY <1>0, <1>8, <2>1, SMTT(40)
<1>15. RotationLast'
  BY <1>0, <1>9, <1>14 DEF RotationLast, Unprovisioned
<1>16. CredentialsFollow'
  BY <1>0, <1>4, <1>6 DEF ControlInv, CredentialsFollow
<1>17. ClientFollows'
  <2>1. InStep /\ ConfigApplied
    BY <1>0, <1>9, SessionInStep DEF ConfigApplied
  <2>2. ~ConfigApplied'
    BY <1>9 DEF ConfigApplied
  <2> QED
    BY <1>0, <1>6, <1>8, <2>1, <2>2 DEF ClientFollows, InStep
<1> QED
  BY <1>7, <1>10, <1>11, <1>12, <1>13, <1>15, <1>16, <1>17 DEF ControlInv

\* What a Connector presents is a credential.
LEMMA PresentedType ==
    ASSUME Rows, NEW cred \in Presented
    PROVE  cred \in Credential /\ cred # NoCred /\ cred \in {OwnCred, client.successor}
<1>1. client.generation \in Nat /\ client.revision \in Nat /\ client.successor \in Credential
  BY FieldTypes
<1> QED
  BY <1>1 DEF Presented, OwnCred, Credential

\* The lease a Hello is answered with.
LEMMA IssuedType == ASSUME Rows PROVE IssuedLease \in ControlRow /\ IssuedLease.observed # "ready"
<1>1. now \in Nat /\ head.highEpoch \in Nat
  BY FieldTypes
<1>2. now + ControlTtl \in Nat /\ head.highEpoch + 1 \in Nat
  BY <1>1
<1> QED
  BY <1>2 DEF IssuedLease, ControlRow

\* What the Connector knows after a Hello.
LEMMA GreetedFields ==
    ASSUME Rows, NEW cred \in Credential, NEW lost \in BOOLEAN, client' = Greeted(cred, lost)
    PROVE  /\ lost => client' = client
           /\ ~lost => client' = [epoch |-> head.highEpoch + 1, applied |-> client.applied,
                revision |-> cred.revision, generation |-> cred.generation,
                successor |-> IF client.successor = cred THEN NoCred ELSE client.successor]
           /\ client' \in Client
           /\ client'.applied = client.applied
<1>1. lost => client' = client
  BY DEF Greeted
<1>2. ~lost => client' = [epoch |-> head.highEpoch + 1, applied |-> client.applied,
                revision |-> cred.revision, generation |-> cred.generation,
                successor |-> IF client.successor = cred THEN NoCred ELSE client.successor]
  BY DEF Greeted, Rows, Client
<1>3. /\ head.highEpoch \in Nat /\ client.applied \in Nat /\ client.successor \in Credential
      /\ cred.revision \in Nat /\ cred.generation \in Nat
  BY FieldTypes DEF Credential
<1>4. NoCred \in Credential
  BY DEF NoCred, Credential
<1>5. client' \in Client /\ client'.applied = client.applied
  <2>1. CASE lost
    BY <1>1, <2>1 DEF Rows
  <2>2. CASE ~lost
    <3> DEFINE kept == IF client.successor = cred THEN NoCred ELSE client.successor
    <3>1. kept \in Credential
      BY <1>3, <1>4
    <3> HIDE DEF kept
    <3>2. client' = [epoch |-> head.highEpoch + 1, applied |-> client.applied,
                revision |-> cred.revision, generation |-> cred.generation, successor |-> kept]
      BY <1>2, <2>2 DEF kept
    <3> QED
      BY <1>3, <3>1, <3>2 DEF Client
  <2> QED
    BY <2>1, <2>2
<1> QED
  BY <1>1, <1>2, <1>5

\* A Hello with the current credential opens a new lease; the Connector learns that it is
\* in step, or does not hear of it.
LEMMA ResumeInv ==
    ASSUME ControlInv, NEW cred \in Presented, NEW lost \in BOOLEAN, Resume(cred, lost)
    PROVE  ControlInv'
<1>0. /\ Rows /\ UNCHANGED <<now, stream, log, auth>>
      /\ head' = [head EXCEPT !.highEpoch = @ + 1, !.highWater = now]
      /\ row' = IssuedLease /\ client' = Greeted(cred, lost)
      /\ cred.generation = head.generation /\ Recoverable(cred.revision)
      /\ stream.state = "active" /\ client.epoch = 0
  BY DEF ControlInv, Resume, AcceptsCurrent, MayOpen, Deliverable
<1>1. cred \in Credential /\ cred # NoCred /\ cred \in {OwnCred, client.successor}
  BY <1>0, PresentedType
<1>2. /\ lost => client' = client
      /\ ~lost => client' = [epoch |-> head.highEpoch + 1, applied |-> client.applied,
           revision |-> cred.revision, generation |-> cred.generation,
           successor |-> IF client.successor = cred THEN NoCred ELSE client.successor]
      /\ client' \in Client
      /\ client'.applied = client.applied
  BY <1>0, <1>1, GreetedFields
<1>3. head' = [generation |-> head.generation, revision |-> head.revision,
               desired |-> head.desired, highEpoch |-> head.highEpoch + 1, highWater |-> now]
  BY <1>0 DEF Rows, ControlHead
<1>4. head' \in ControlHead /\ head'.generation = head.generation
      /\ head'.revision = head.revision /\ head'.desired = head.desired
  BY <1>0, <1>3, SMTT(40) DEF Rows, ControlHead
<1>5. row' \in ControlRow /\ ReadyHasRoom'
  BY <1>0, IssuedType DEF ReadyHasRoom
<1>6. Rows' /\ Backlog' /\ Pending' = Pending
  BY <1>0, <1>2, <1>4, <1>5 DEF ControlInv, Rows, Backlog, Pending
<1>7. FenceAgreement' /\ Counts'
  BY <1>0, <1>4, <1>6 DEF ControlInv, FenceAgreement, Fence, Counts, Done
<1>8. OneBarrier' /\ RotationLast' /\ CredentialsFollow'
  BY <1>0, <1>4, <1>6 DEF ControlInv, OneBarrier, RotationLast, IsFenceBarrier, Unprovisioned,
     CredentialsFollow
<1>9. ConfigApplied' <=> ConfigApplied
  BY <1>0, <1>2, <1>6 DEF ConfigApplied
<1>10. head.generation \in Nat /\ head.generation >= 1 /\ client.generation \in Nat
  BY <1>0, FieldTypes DEF ControlInv, CredentialsFollow
<1>11. InStep \/ Unheard
  BY <1>0 DEF ControlInv, ClientFollows
<1>12. ClientFollows'
  <2>1. CASE lost
    BY <1>2, <1>0, <1>4, <1>9, <1>11, <2>1 DEF ClientFollows, InStep, Unheard, Fence
  <2>2. CASE ~lost /\ InStep
    <3>1. cred = OwnCred
      BY <1>0, <1>1, <2>2 DEF InStep
    <3>2. cred.revision = client.revision /\ client.successor # cred
      BY <1>0, <2>2, <3>1 DEF OwnCred, InStep
    <3>3. client'.generation = head.generation /\ client'.revision = client.revision
          /\ client'.successor = client.successor
      BY <1>0, <1>2, <2>2, <3>2
    <3> QED
      BY <1>4, <1>9, <2>2, <3>3 DEF ClientFollows, InStep
  <2>3. CASE ~lost /\ Unheard
    <3>1. cred = client.successor
      BY <1>0, <1>1, <1>10, <2>3 DEF Unheard, OwnCred
    <3>2. cred.revision = head.revision
      BY <2>3, <3>1 DEF Unheard, Fence
    <3>3. client'.generation = head.generation /\ client'.revision = head.revision
          /\ client'.successor = NoCred
      BY <1>0, <1>2, <2>3, <3>1, <3>2
    <3>4. ~ConfigApplied
      <4>1. stream.acked \in Nat /\ client.applied = stream.acked
        BY <1>0, <2>3, FieldTypes DEF Unheard
      <4> QED
        BY <4>1 DEF ConfigApplied, Pending
    <3>5. NoCred.generation # head.generation
      BY <1>10 DEF NoCred
    <3>6. head.revision \in Nat
      BY <1>0, FieldTypes
    <3> QED
      BY <1>4, <1>9, <3>3, <3>4, <3>5, <3>6 DEF ClientFollows, InStep
  <2> QED
    BY <1>11, <2>1, <2>2, <2>3
<1> QED
  BY <1>5, <1>6, <1>7, <1>8, <1>12 DEF ControlInv

\* The first Hello with the successor moves head, stream and credential together.
LEMMA PromoteInv ==
    ASSUME ControlInv, NEW cred \in Presented, NEW lost \in BOOLEAN, Promote(cred, lost)
    PROVE  ControlInv'
<1>0. /\ Rows /\ UNCHANGED <<now, log>>
      /\ head' = [head EXCEPT !.generation = @ + 1, !.revision = @ + 1,
                              !.highEpoch = @ + 1, !.highWater = now]
      /\ row' = IssuedLease
      /\ stream' = [stream EXCEPT !.generation = @ + 1, !.revision = @ + 1, !.updated = now]
      /\ auth' = [auth EXCEPT !.current = cred.generation, !.pending = NoCred]
      /\ client' = Greeted(cred, lost)
      /\ cred = auth.pending /\ stream.acked = Len(log)
      /\ stream.state = "active" /\ client.epoch = 0
  BY DEF ControlInv, Promote, AcceptsPromotion, MayOpen, Deliverable
<1>a. cred.generation = head.generation + 1 /\ cred.revision = head.revision + 1
  BY DEF Promote, AcceptsPromotion, Fence
<1>1. cred \in Credential /\ cred # NoCred /\ cred \in {OwnCred, client.successor}
  BY <1>0, PresentedType
<1>2. /\ lost => client' = client
      /\ ~lost => client' = [epoch |-> head.highEpoch + 1, applied |-> client.applied,
           revision |-> cred.revision, generation |-> cred.generation,
           successor |-> IF client.successor = cred THEN NoCred ELSE client.successor]
      /\ client' \in Client
      /\ client'.applied = client.applied
  BY <1>0, <1>1, GreetedFields
<1>3. head' = [generation |-> head.generation + 1, revision |-> head.revision + 1,
               desired |-> head.desired, highEpoch |-> head.highEpoch + 1, highWater |-> now]
  BY <1>0 DEF Rows, ControlHead
<1>4. /\ now \in 0..MaxTime /\ head.generation \in Nat /\ head.revision \in Nat
      /\ head.highEpoch \in Nat /\ head.desired \in DesiredStates
      /\ stream.generation \in Nat /\ stream.revision \in Nat /\ stream.acked \in Nat
      /\ client.generation \in Nat /\ client.applied \in Nat
  BY <1>0, FieldTypes DEF Rows
<1>5. head' \in ControlHead /\ head'.generation = head.generation + 1
      /\ head'.revision = head.revision + 1 /\ head'.desired = head.desired
  BY <1>3, <1>4 DEF ControlHead
<1>6. stream' = [generation |-> stream.generation + 1, revision |-> stream.revision + 1,
                 state |-> stream.state, acked |-> stream.acked, updated |-> now]
  BY <1>0 DEF Rows, StreamHead
<1>7. /\ stream' \in StreamHead /\ stream'.acked = stream.acked /\ stream'.state = stream.state
      /\ stream'.generation = stream.generation + 1 /\ stream'.revision = stream.revision + 1
  <2>1. stream.state \in {"active", "revoked"}
    BY <1>0
  <2> QED
    BY <1>4, <1>6, <2>1 DEF StreamHead
<1>8. /\ auth' = [state |-> auth.state, current |-> cred.generation, pending |-> NoCred]
      /\ NoCred \in Credential /\ auth.state \in {"active", "revoked"}
  BY <1>0, FieldTypes DEF Rows, Authorization, NoCred, Credential
<1>9. /\ auth' \in Authorization /\ auth'.state = auth.state /\ auth'.pending = NoCred
      /\ auth'.current = head.generation + 1
  BY <1>a, <1>4, <1>8 DEF Authorization
<1>10. row' \in ControlRow /\ ReadyHasRoom'
  BY <1>0, IssuedType DEF ReadyHasRoom
<1>b. stream.acked = Len(log) /\ log' = log
  BY <1>0
<1>11. Pending' = {} /\ Pending = {}
  BY <1>b, <1>4, <1>7 DEF Pending
<1>12. Rows'
  BY <1>0, <1>2, <1>5, <1>7, <1>9, <1>10 DEF Rows
<1>13. Backlog'
  BY <1>b, <1>4, <1>7 DEF Backlog
<1>14. FenceAgreement'
  BY <1>5, <1>7, <1>11 DEF ControlInv, FenceAgreement, Fence
<1>15. head.desired # "revoked"
  BY <1>0 DEF ControlInv, FenceAgreement
<1>16. Counts'
  <2>1. \A i \in 1..stream.acked : log'[i] = log[i]
    BY <1>0
  <2>2. Done("config")' = Done("config") /\ Done("rotate")' = Done("rotate")
    BY <1>7, <2>1, DoneSame
  <2>3. Cardinality(Done("config")) \in Nat /\ Cardinality(Done("rotate")) \in Nat
    BY <1>0, DoneFinite
  <2>4. /\ head.revision = 1 + Cardinality(Done("config")) + (head.generation - 1) + 0
        /\ Cardinality(Done("rotate")) = (head.generation - 1) + 1
    BY <1>0, <1>1, <1>15 DEF ControlInv, Counts
  <2>5. /\ head.revision + 1 = 1 + Cardinality(Done("config")) + ((head.generation + 1) - 1) + 0
        /\ Cardinality(Done("rotate")) = ((head.generation + 1) - 1) + 0
    BY <1>4, <2>3, <2>4
  <2> QED
    BY <1>5, <1>9, <1>15, <2>2, <2>5 DEF Counts
<1>17. OneBarrier' /\ RotationLast'
  BY <1>9, <1>11 DEF OneBarrier, RotationLast
<1>18. CredentialsFollow'
  <2>1. head.generation + 1 >= 1 /\ auth.state = stream.state
    BY <1>4 DEF ControlInv, CredentialsFollow
  <2> QED
    BY <1>5, <1>7, <1>9, <2>1 DEF CredentialsFollow
<1>19. InStep \/ Unheard
  BY <1>0 DEF ControlInv, ClientFollows
<1>20. cred = client.successor
  <2>1. OwnCred.generation < head.generation + 1
    BY <1>4, <1>19 DEF InStep, Unheard, OwnCred
  <2>2. OwnCred.generation \in Nat
    BY <1>4 DEF OwnCred
  <2> QED
    BY <1>a, <1>1, <1>4, <2>1, <2>2
<1>21. ClientFollows'
  <2>1. CASE lost
    <3>1. client' = client /\ client.generation < head.generation + 1
      BY <1>2, <1>4, <1>19, <2>1 DEF InStep, Unheard
    <3>2. client.applied = stream.acked
      <4>1. stream.acked <= client.applied /\ client.applied <= Len(log)
        BY <1>0, FieldTypes
      <4> QED
        BY <1>b, <1>4, <4>1
    <3> QED
      BY <1>a, <1>0, <1>5, <1>7, <1>20, <3>1, <3>2 DEF ClientFollows, Unheard, Fence
  <2>2. CASE ~lost
    <3>1. client'.generation = head.generation + 1 /\ client'.revision = head.revision + 1
          /\ client'.successor = NoCred
      BY <1>a, <1>2, <1>20, <2>2
    <3>2. ~ConfigApplied'
      BY <1>11 DEF ConfigApplied
    <3>3. NoCred.generation # head.generation + 1
      BY <1>4 DEF NoCred
    <3> QED
      BY <1>4, <1>5, <3>1, <3>2, <3>3 DEF ClientFollows, InStep
  <2> QED
    BY <2>1, <2>2
<1> QED
  BY <1>10, <1>12, <1>13, <1>14, <1>16, <1>17, <1>18, <1>21 DEF ControlInv

\* ControlInv is inductive.
LEMMA ControlStep == ControlInv /\ [Next]_vars => ControlInv'
<1> SUFFICES ASSUME ControlInv, [Next]_vars PROVE ControlInv'
  OBVIOUS
<1>0. Rows /\ Len(log) \in Nat
  BY FieldTypes DEF ControlInv
<1>1. CASE Clock
  BY <1>1, ClockInv
<1>2. CASE Owner
  BY <1>0, <1>2, OwnerQueues, QueuedInv, RevokeInv
<1>3. CASE Reconnect
  BY <1>3, ResumeInv, PromoteInv DEF Reconnect
<1>4. CASE Disconnect \/ Apply \/ RotateReplay
  BY <1>4, DisconnectInv, ApplyInv, ReplayInv
<1>5. CASE Settle
  <2>1. PICK i \in 1..Len(log) :
          AckPlain(i) \/ AckConfig(i) \/ (\E lost \in BOOLEAN : Rotate(i, lost))
    BY <1>5 DEF Settle
  <2>2. i \in Nat
    BY <1>0
  <2> QED
    BY <2>1, <2>2, AckPlainInv, AckConfigInv, RotateInv
<1>6. CASE \E h \in 1..MaxHeartbeat, available \in 0..Slots, degraded \in BOOLEAN :
             Heartbeat(h, available, degraded)
  BY <1>6, HeartbeatInv
<1>7. CASE UNCHANGED vars
  <2>1. now' \in 0..MaxTime /\ head' \in ControlHead /\ row' \in ControlRow /\ ReadyHasRoom'
    BY <1>7 DEF ControlInv, Rows, ReadyHasRoom, vars
  <2> QED
    BY <1>7, <2>1, FenceKept DEF vars
<1> QED
  BY <1>1, <1>2, <1>3, <1>4, <1>5, <1>6, <1>7 DEF Next

(***************************************************************************)
(* ControlInv holds in every reachable state.                              *)
(***************************************************************************)
THEOREM ControlSafety == Spec => []ControlInv
BY InitInv, ControlStep, PTL DEF Spec

\* Types, and the limit of the backlog with the one slot a revocation may use more.
THEOREM ControlTypes == Spec => []TypeOK
<1>1. ControlInv => TypeOK
  BY TypeForm DEF ControlInv
<1> QED
  BY <1>1, ControlSafety, PTL

\* Head and command stream agree on the fence, and every pending command carries it.
THEOREM ControlFences == Spec => []FenceAgreement
BY ControlSafety, PTL DEF ControlInv

\* Every acknowledged configuration, rotation and revocation took effect exactly once.
THEOREM ControlEffects == Spec => []EffectsOnce
<1>1. ControlInv => EffectsOnce
  BY CountsForm DEF ControlInv
<1> QED
  BY <1>1, ControlSafety, PTL

\* A successor that was issued is with the Connector or can be asked for again.
THEOREM ControlSuccessor == Spec => []SuccessorReachable
<1>1. ControlInv => SuccessorReachable
  <2> SUFFICES ASSUME ControlInv, Unprovisioned, auth.pending # NoCred
               PROVE  stream.acked > 0 /\ log[stream.acked].kind = "rotate"
    BY DEF SuccessorReachable
  <2>1. stream.state = "active"
    BY FieldTypes DEF ControlInv, CredentialsFollow
  <2> QED
    BY <2>1 DEF ControlInv, RotationLast
<1> QED
  BY <1>1, ControlSafety, PTL

(***************************************************************************)
(* The Connector can come back at any time, whatever it applied and        *)
(* whichever replies were lost, unless the configuration it applied stands *)
(* beyond the first replay page.  For every size of the page and of the    *)
(* backlog.                                                                *)
(***************************************************************************)
THEOREM ControlResumable == Spec => []Resumable
<1>1. ControlInv => Resumable
  <2> SUFFICES ASSUME ControlInv, head.desired \in {"running", "draining"},
                      now >= head.highWater, AppliedOnPage
               PROVE  \E cred \in Presented : AcceptsCurrent(cred)
    BY DEF Resumable, MayComeBack
  <2>0. Rows
    BY DEF ControlInv
  <2>1. /\ stream.acked \in Nat /\ Len(log) \in Nat /\ client.applied \in Nat
        /\ stream.acked <= client.applied /\ client.applied <= Len(log)
        /\ head.generation \in Nat /\ head.revision \in Nat
        /\ stream.state \in {"active", "revoked"}
    BY <2>0, FieldTypes
  <2>2. stream.state = "active" /\ auth.state = "active" /\ Fence(stream) = Fence(head)
    BY <2>1 DEF ControlInv, FenceAgreement, CredentialsFollow
  <2>4. ReplayPage \subseteq Pending
    BY DEF ReplayPage
  <2>5. MayOpen
    <3>1. PageFenced
      BY <2>2, <2>4 DEF ControlInv, FenceAgreement, PageFenced
    <3>2. Deliverable(client.applied)
      BY <2>1, <2>2 DEF Deliverable
    <3> QED
      BY <2>2, <3>1, <3>2 DEF MayOpen
  <2>6. auth.current = head.generation /\ head.generation >= 1
    BY DEF ControlInv, CredentialsFollow
  <2>7. CASE InStep
    <3>1. OwnCred.generation = head.generation /\ OwnCred.revision = client.revision
      BY <2>7 DEF InStep, OwnCred
    <3>2. OwnCred \in Presented
      BY <2>1, <2>6, <3>1 DEF Presented, NoCred
    <3>3. Recoverable(client.revision)
      <4>1. CASE ConfigApplied
        BY <2>7, <4>1 DEF InStep, ConfigApplied, AppliedOnPage, Recoverable
      <4>2. CASE ~ConfigApplied
        BY <2>1, <2>7, <4>2 DEF InStep, Recoverable
      <4> QED
        BY <4>1, <4>2
    <3> QED
      BY <2>5, <2>6, <3>1, <3>2, <3>3 DEF AcceptsCurrent
  <2>8. CASE Unheard
    <3>1. client.successor.generation = head.generation /\ client.successor.revision = head.revision
      BY <2>8 DEF Unheard, Fence
    <3>2. client.successor \in Presented
      BY <2>1, <2>6, <3>1 DEF Presented, NoCred
    <3> QED
      BY <2>5, <2>6, <3>1, <3>2 DEF AcceptsCurrent, Recoverable
  <2> QED
    BY <2>2, <2>7, <2>8 DEF ControlInv, ClientFollows
<1> QED
  BY <1>1, ControlSafety, PTL

-----------------------------------------------------------------------------
(* The control head implements the lease authority *)

\* The row of connector_leases as the Run router reads it.
LeaseOf == [epoch |-> row.epoch, expires |-> row.expires, heartbeat |-> row.heartbeat,
            available |-> row.available,
            ready |-> head.desired = "running" /\ row.observed = "ready"]

\* A function on one Connector is updated by replacing its value.
LEMMA Single ==
    ASSUME NEW C, NEW x, NEW y
    PROVE  /\ [[c \in {C} |-> x] EXCEPT ![C] = y] = [c \in {C} |-> y]
           /\ [c \in {C} |-> x][C] = x
OBVIOUS

\* A Hello grants the next lease.
LEMMA GrantStep ==
    ASSUME now >= head.highWater, head.highEpoch < MaxEpoch,
           head'.highEpoch = head.highEpoch + 1, head'.highWater = now, now' = now,
           LeaseOf' = [epoch |-> head.highEpoch + 1, expires |-> now + ControlTtl,
                       heartbeat |-> 0, ready |-> FALSE, available |-> 0]
    PROVE  L!Grant(Connector)
<1>1. [c \in {Connector} |-> head.highWater][Connector] = head.highWater
      /\ [c \in {Connector} |-> head.highEpoch][Connector] = head.highEpoch
  OBVIOUS
<1>2. [c \in {Connector} |-> head'.highEpoch] =
        [[c \in {Connector} |-> head.highEpoch] EXCEPT ![Connector] = head.highEpoch + 1]
  BY Single
<1>3. [c \in {Connector} |-> head'.highWater] =
        [[c \in {Connector} |-> head.highWater] EXCEPT ![Connector] = now]
  BY Single
<1>4. [c \in {Connector} |-> LeaseOf'] =
        [[c \in {Connector} |-> LeaseOf] EXCEPT ![Connector] =
            [epoch |-> head.highEpoch + 1, expires |-> now + ControlTtl,
             heartbeat |-> 0, ready |-> FALSE, available |-> 0]]
  BY Single
<1> QED
  BY <1>1, <1>2, <1>3, <1>4 DEF L!Grant, LeaseOf

\* A stop or a revocation withdraws the lease.
LEMMA WithdrawStep ==
    ASSUME now >= head.highWater, head'.highEpoch = head.highEpoch, head'.highWater = now,
           now' = now,
           LeaseOf' = [epoch |-> 0, expires |-> 0, heartbeat |-> 0, ready |-> FALSE, available |-> 0]
    PROVE  L!Withdraw(Connector)
<1>1. [c \in {Connector} |-> head.highWater][Connector] = head.highWater
  OBVIOUS
<1>2. [c \in {Connector} |-> head'.highWater] =
        [[c \in {Connector} |-> head.highWater] EXCEPT ![Connector] = now]
  BY Single
<1>3. [c \in {Connector} |-> LeaseOf'] =
        [[c \in {Connector} |-> LeaseOf] EXCEPT ![Connector] = L!NoLease]
  BY Single DEF L!NoLease
<1> QED
  BY <1>1, <1>2, <1>3 DEF L!Withdraw, LeaseOf

\* A live configuration changes only whether the lease is ready.
LEMMA ReadyStep ==
    ASSUME NEW ready \in BOOLEAN, row.epoch # 0, now >= head.highWater,
           ready => row.available > 0,
           head'.highEpoch = head.highEpoch, head'.highWater = now, now' = now,
           LeaseOf' = [epoch |-> row.epoch, expires |-> row.expires, heartbeat |-> row.heartbeat,
                       available |-> row.available, ready |-> ready]
    PROVE  L!SetReady(Connector, ready)
<1>1. [c \in {Connector} |-> head.highWater][Connector] = head.highWater
      /\ [c \in {Connector} |-> LeaseOf][Connector] = LeaseOf
  OBVIOUS
<1>2. [c \in {Connector} |-> head'.highWater] =
        [[c \in {Connector} |-> head.highWater] EXCEPT ![Connector] = now]
  BY Single
<1>3. LeaseOf' = [LeaseOf EXCEPT !.ready = ready]
  BY DEF LeaseOf
<1>4. [c \in {Connector} |-> LeaseOf'] =
        [[c \in {Connector} |-> LeaseOf] EXCEPT ![Connector] = [LeaseOf EXCEPT !.ready = ready]]
  BY <1>3, Single
<1>5. [[c \in {Connector} |-> LeaseOf] EXCEPT ![Connector] = [LeaseOf EXCEPT !.ready = ready]] =
        [[c \in {Connector} |-> LeaseOf] EXCEPT ![Connector].ready = ready]
  BY Zenon
<1>6. LeaseOf.epoch # 0 /\ (ready => LeaseOf.available > 0)
  BY DEF LeaseOf
<1> QED
  BY <1>1, <1>2, <1>4, <1>5, <1>6 DEF L!SetReady, L!Held, LeaseOf

\* A heartbeat renews the lease it was sent under.
LEMMA RenewStep ==
    ASSUME NEW ready \in BOOLEAN, NEW h \in 1..MaxHeartbeat, NEW available \in 0..Slots,
           row.epoch # 0, now < row.expires, now >= head.highWater, row.heartbeat < h,
           ready => available > 0,
           head'.highEpoch = head.highEpoch, head'.highWater = now, now' = now,
           LeaseOf' = [epoch |-> row.epoch, expires |-> now + ControlTtl, heartbeat |-> h,
                       ready |-> ready, available |-> available]
    PROVE  L!Renew(Connector, h, available, ready)
<1>1. [c \in {Connector} |-> head.highWater][Connector] = head.highWater
      /\ [c \in {Connector} |-> LeaseOf][Connector] = LeaseOf
      /\ [c \in {Connector} |-> Slots][Connector] = Slots
  OBVIOUS
<1>2. [c \in {Connector} |-> head'.highWater] =
        [[c \in {Connector} |-> head.highWater] EXCEPT ![Connector] = now]
  BY Single
<1>3. [c \in {Connector} |-> LeaseOf'] =
        [[c \in {Connector} |-> LeaseOf] EXCEPT ![Connector] =
            [epoch |-> row.epoch, expires |-> now + ControlTtl, heartbeat |-> h,
             ready |-> ready, available |-> available]]
  BY Single
<1>4. LeaseOf.epoch = row.epoch /\ LeaseOf.expires = row.expires
      /\ LeaseOf.heartbeat = row.heartbeat
  BY DEF LeaseOf
<1>5. available <= Slots
  OBVIOUS
<1> QED
  BY <1>1, <1>2, <1>3, <1>4, <1>5 DEF L!Renew, L!Held, LeaseOf

\* A step that touches neither the clock nor what the router reads is a stutter.
LEMMA LeaseStutter ==
    ASSUME now' = now, LeaseOf' = LeaseOf, head'.highEpoch = head.highEpoch,
           head'.highWater = head.highWater
    PROVE  UNCHANGED L!leaseVars
BY DEF L!leaseVars, LeaseOf

\* Hello, current or successor credential.
LEMMA HelloRefines ==
    ASSUME ControlInv, NEW cred, NEW lost, Resume(cred, lost) \/ Promote(cred, lost)
    PROVE  L!Grant(Connector)
<1>0. head \in ControlHead /\ row' = IssuedLease /\ now' = now
      /\ now >= head.highWater /\ head.highEpoch < MaxEpoch
  BY DEF ControlInv, Rows, Resume, Promote, AcceptsCurrent, AcceptsPromotion, MayOpen
<1>1. head'.highEpoch = head.highEpoch + 1 /\ head'.highWater = now
  <2>1. CASE head' = [head EXCEPT !.highEpoch = @ + 1, !.highWater = now]
    BY <1>0, <2>1 DEF ControlHead
  <2>2. CASE head' = [head EXCEPT !.generation = @ + 1, !.revision = @ + 1,
                                  !.highEpoch = @ + 1, !.highWater = now]
    BY <1>0, <2>2 DEF ControlHead
  <2> QED
    BY <2>1, <2>2 DEF Resume, Promote
<1>2. LeaseOf' = [epoch |-> head.highEpoch + 1, expires |-> now + ControlTtl,
                  heartbeat |-> 0, ready |-> FALSE, available |-> 0]
  BY <1>0 DEF LeaseOf, IssuedLease
<1> QED
  BY <1>0, <1>1, <1>2, GrantStep

\* A withdrawn lease as the router reads it.
LEMMA NoRowView ==
    ASSUME row' = NoRow
    PROVE  LeaseOf' = [epoch |-> 0, expires |-> 0, heartbeat |-> 0, ready |-> FALSE,
                       available |-> 0]
BY DEF LeaseOf, NoRow

\* Revocation.
LEMMA RevokeRefines == ASSUME ControlInv, Revoke PROVE L!Withdraw(Connector)
<1>0. head \in ControlHead /\ row' = NoRow /\ now' = now /\ now >= head.highWater
      /\ head' = [head EXCEPT !.desired = "revoked", !.revision = @ + 1, !.highWater = now]
  BY DEF ControlInv, Rows, Revoke
<1>1. head'.highEpoch = head.highEpoch /\ head'.highWater = now
  BY <1>0 DEF ControlHead
<1> QED
  BY <1>0, <1>1, NoRowView, WithdrawStep

\* The acknowledgement of a configuration stops, drains or resumes.
LEMMA ConfigRefines ==
    ASSUME ControlInv, NEW i, AckConfig(i)
    PROVE  L!Withdraw(Connector) \/ \E ready \in BOOLEAN : L!SetReady(Connector, ready)
<1> DEFINE target == log[i].target
<1>0. /\ head \in ControlHead /\ row \in ControlRow /\ now' = now /\ now >= head.highWater
      /\ head' = [head EXCEPT !.desired = target, !.revision = @ + 1, !.highWater = now]
      /\ row' = CASE target = "stopped"  -> NoRow
                  [] target = "draining" -> [row EXCEPT !.observed = "draining"]
                  [] OTHER               -> row
      /\ row.epoch # 0
  BY DEF ControlInv, Rows, AckConfig, Configured, Acknowledges, Live, Session
<1> HIDE DEF target
<1>1. head'.highEpoch = head.highEpoch /\ head'.highWater = now /\ head'.desired = target
  BY <1>0 DEF ControlHead
<1>2. CASE target = "stopped"
  <2>1. row' = NoRow
    BY <1>0, <1>2
  <2> QED
    BY <1>0, <1>1, <2>1, NoRowView, WithdrawStep
<1>3. CASE target = "draining"
  <2>1. row' = [row EXCEPT !.observed = "draining"]
    BY <1>0, <1>3
  <2>2. LeaseOf' = [epoch |-> row.epoch, expires |-> row.expires, heartbeat |-> row.heartbeat,
                    available |-> row.available, ready |-> FALSE]
    BY <1>0, <1>1, <1>3, <2>1 DEF LeaseOf, ControlRow
  <2> QED
    BY <1>0, <1>1, <2>2, ReadyStep
<1>4. CASE target \notin {"stopped", "draining"}
  <2> DEFINE ready == target = "running" /\ row.observed = "ready"
  <2>1. row' = row
    BY <1>0, <1>4
  <2>2. LeaseOf' = [epoch |-> row.epoch, expires |-> row.expires, heartbeat |-> row.heartbeat,
                    available |-> row.available, ready |-> ready]
    BY <1>1, <2>1 DEF LeaseOf
  <2>3. ready \in BOOLEAN /\ (ready => row.available > 0)
    BY DEF ControlInv, ReadyHasRoom
  <2> HIDE DEF ready
  <2> QED
    BY <1>0, <1>1, <2>2, <2>3, ReadyStep
<1> QED
  BY <1>2, <1>3, <1>4

\* A heartbeat under the live lease.
LEMMA HeartbeatRefines ==
    ASSUME ControlInv, NEW h \in 1..MaxHeartbeat, NEW available \in 0..Slots,
           NEW degraded \in BOOLEAN, Heartbeat(h, available, degraded)
    PROVE  \E ready \in BOOLEAN : L!Renew(Connector, h, available, ready)
<1> DEFINE ready == head.desired = "running" /\ Observed(available, degraded) = "ready"
<1>0. /\ head \in ControlHead /\ row \in ControlRow /\ now' = now /\ now >= head.highWater
      /\ now < row.expires /\ row.heartbeat < h /\ row.epoch # 0
      /\ head' = [head EXCEPT !.highWater = now]
      /\ row' = [row EXCEPT !.expires = now + ControlTtl, !.heartbeat = h, !.beatAt = now,
                            !.observed = Observed(available, degraded), !.available = available]
  <2>1. Rows /\ h > row.heartbeat
    BY DEF ControlInv, Heartbeat, Beats
  <2>2. row.heartbeat < h
    BY <2>1, FieldTypes
  <2> QED
    BY <2>2 DEF ControlInv, Rows, Heartbeat, Session
<1>1. head'.highEpoch = head.highEpoch /\ head'.highWater = now /\ head'.desired = head.desired
  BY <1>0 DEF ControlHead
<1>2. row' = [epoch |-> row.epoch, expires |-> now + ControlTtl, heartbeat |-> h,
              beatAt |-> now, observed |-> Observed(available, degraded), available |-> available]
  BY <1>0 DEF ControlRow
<1>3. LeaseOf' = [epoch |-> row.epoch, expires |-> now + ControlTtl, heartbeat |-> h,
                  ready |-> ready, available |-> available]
  BY <1>1, <1>2 DEF LeaseOf
<1>4. ready \in BOOLEAN /\ (ready => available > 0)
  BY DEF Observed
<1> HIDE DEF ready
<1> QED
  BY <1>0, <1>1, <1>3, <1>4, RenewStep

\* Every step of the control plane is a step of the lease authority or a stutter.
LEMMA NextRefines ==
    ASSUME ControlInv, [Next]_vars
    PROVE  [L!LeaseStep]_(L!leaseVars)
<1>1. CASE Clock
  <2>1. L!Clock
    BY <1>1 DEF Clock, L!Clock
  <2> QED
    BY <2>1 DEF L!LeaseStep
<1>2. ASSUME UNCHANGED <<now, head, row>> PROVE UNCHANGED L!leaseVars
  BY <1>2, LeaseStutter DEF LeaseOf
<1>3. CASE Owner
  <2>1. CASE Revoke
    BY <2>1, RevokeRefines DEF L!LeaseStep
  <2>2. CASE ~Revoke
    BY <1>2, <1>3, <2>2 DEF Owner, EnqueueConfig, EnqueueRotation, EnqueueClose, EnqueueProvisioning
  <2> QED
    BY <2>1, <2>2
<1>4. CASE Reconnect
  BY <1>4, HelloRefines DEF Reconnect, L!LeaseStep
<1>5. CASE Disconnect \/ Apply \/ RotateReplay
  BY <1>2, <1>5 DEF Disconnect, Apply, RotateReplay
<1>6. ASSUME NEW i \in 1..Len(log),
             AckPlain(i) \/ AckConfig(i) \/ (\E lost \in BOOLEAN : Rotate(i, lost))
      PROVE  [L!LeaseStep]_(L!leaseVars)
  <2>1. CASE AckConfig(i)
    BY <2>1, ConfigRefines DEF L!LeaseStep
  <2>2. CASE ~AckConfig(i)
    BY <1>2, <1>6, <2>2 DEF AckPlain, Rotate
  <2> QED
    BY <2>1, <2>2
<1>7. ASSUME NEW h \in 1..MaxHeartbeat, NEW available \in 0..Slots, NEW degraded \in BOOLEAN,
             Heartbeat(h, available, degraded)
      PROVE  L!LeaseStep
  <2>1. PICK ready \in BOOLEAN : L!Renew(Connector, h, available, ready)
    BY <1>7, HeartbeatRefines
  <2>2. available \in 0..([c \in {Connector} |-> Slots][Connector])
    OBVIOUS
  <2> QED
    BY <2>1, <2>2 DEF L!LeaseStep
<1>8. CASE UNCHANGED vars
  BY <1>2, <1>8 DEF vars
<1> QED
  BY <1>1, <1>3, <1>4, <1>5, <1>6, <1>7, <1>8 DEF Next, Settle

(***************************************************************************)
(* The control head implements the lease authority that fences Agent Runs: *)
(* what RunRouting_proofs shows of Runs rests on leases this module keeps. *)
(***************************************************************************)
THEOREM ControlImplementsLeases == Spec => LeaseAuthoritySpec
<1>1. Init => L!LeaseInit
  <2> SUFFICES ASSUME Init PROVE L!LeaseInit
    OBVIOUS
  <2>1. LeaseOf = L!NoLease
    BY DEF Init, LeaseOf, NoRow, L!NoLease
  <2> QED
    BY <2>1 DEF Init, L!LeaseInit, LeaseOf
<1>2. ControlInv /\ [Next]_vars => [L!LeaseStep]_(L!leaseVars)
  BY NextRefines
<1> QED
  BY <1>1, <1>2, ControlSafety, PTL DEF Spec, LeaseAuthoritySpec, L!LeaseSpec
=============================================================================
