--------------------------- MODULE LeaseAuthority ---------------------------
(***************************************************************************)
(* What the Connector control plane promises the Run router: at any time a *)
(* Connector holds at most one control lease, identified by an epoch that  *)
(* is never reused, and a lease that is renewed only ever gains lifetime.  *)
(* Module ConnectorControl is the detailed control head (boots,            *)
(* generations, desired states, heartbeats) and implements this module;    *)
(* module RunRouting uses it to fence Agent Runs.                          *)
(*                                                                         *)
(* A lease id is a fresh UUID the server draws for every lease, so here a  *)
(* fence (boot, generation, lease id, epoch) is the pair connector, epoch. *)
(***************************************************************************)
EXTENDS Integers

CONSTANTS
    Connectors,       \* Connector ids of one tenant
    ControlTtl,       \* heartbeat_ttl_millis: lifetime of a control lease
    MaxConcurrency,   \* connector_instances.max_concurrency
    ClockMayRegress,  \* may the wall clock of the server step backwards?
    MaxTime,          \* bound: last instant of the clock
    MaxEpoch,         \* bound: leases issued to one Connector
    MaxHeartbeat      \* bound: heartbeats accepted under one lease

ASSUME LeaseConstants ==
    /\ ControlTtl \in Nat \ {0}
    /\ MaxConcurrency \in [Connectors -> Nat \ {0}]
    /\ ClockMayRegress \in BOOLEAN
    /\ MaxTime \in Nat
    /\ MaxEpoch \in Nat
    /\ MaxHeartbeat \in Nat

VARIABLES
    now,        \* what the server's clock reads
    lease,      \* the row of connector_leases with status 'active'
    highEpoch,  \* highest_lease_epoch
    highWater   \* server_time_high_water_ms of the Connector

leaseVars == <<now, lease, highEpoch, highWater>>

LeaseRow == [epoch: Nat, expires: Nat, heartbeat: Nat, ready: BOOLEAN, available: Nat]

\* No active row.  Epochs start at 1.
NoLease == [epoch |-> 0, expires |-> 0, heartbeat |-> 0, ready |-> FALSE, available |-> 0]

Held(c) == lease[c].epoch # 0

LeaseInit ==
    /\ now = 0
    /\ lease = [c \in Connectors |-> NoLease]
    /\ highEpoch = [c \in Connectors |-> 0]
    /\ highWater = [c \in Connectors |-> 0]

-----------------------------------------------------------------------------
\* The wall clock advances; it may also be stepped back.
Clock ==
    /\ \E t \in 0..MaxTime :
         /\ t # now
         /\ t < now => ClockMayRegress
         /\ t > now => t = now + 1
         /\ now' = t
    /\ UNCHANGED <<lease, highEpoch, highWater>>

\* A Hello is admitted: the successor lease replaces whatever lease was active.
Grant(c) ==
    /\ now >= highWater[c]
    /\ highEpoch[c] < MaxEpoch
    /\ highEpoch' = [highEpoch EXCEPT ![c] = @ + 1]
    /\ lease' = [lease EXCEPT ![c] =
          [epoch |-> highEpoch[c] + 1, expires |-> now + ControlTtl,
           heartbeat |-> 0, ready |-> FALSE, available |-> 0]]
    /\ highWater' = [highWater EXCEPT ![c] = now]
    /\ UNCHANGED now

\* Mutant of Renew: the time high water is not consulted.
RenewBackwards(c, h, available, ready) ==
    /\ Held(c)
    /\ now < lease[c].expires
    /\ lease[c].heartbeat < h
    /\ available <= MaxConcurrency[c]
    /\ ready => available > 0
    /\ lease' = [lease EXCEPT ![c] =
          [epoch |-> lease[c].epoch, expires |-> now + ControlTtl,
           heartbeat |-> h, ready |-> ready, available |-> available]]
    /\ highWater' = [highWater EXCEPT ![c] = now]
    /\ UNCHANGED <<now, highEpoch>>

\* A heartbeat under the exact live lease extends it and reports capacity.  Its
\* number only has to be larger than the last one.
Renew(c, h, available, ready) ==
    /\ Held(c)
    /\ now < lease[c].expires
    /\ now >= highWater[c]
    /\ lease[c].heartbeat < h
    /\ available <= MaxConcurrency[c]
    /\ ready => available > 0
    /\ lease' = [lease EXCEPT ![c] =
          [epoch |-> lease[c].epoch, expires |-> now + ControlTtl,
           heartbeat |-> h, ready |-> ready, available |-> available]]
    /\ highWater' = [highWater EXCEPT ![c] = now]
    /\ UNCHANGED <<now, highEpoch>>

\* A configuration acknowledgement changes whether new work is admitted (the
\* desired state) without touching the lease itself.
SetReady(c, ready) ==
    /\ Held(c)
    /\ now >= highWater[c]
    /\ ready => lease[c].available > 0
    /\ lease' = [lease EXCEPT ![c].ready = ready]
    /\ highWater' = [highWater EXCEPT ![c] = now]
    /\ UNCHANGED <<now, highEpoch>>

\* Stop, revocation: the lease is withdrawn at once.
Withdraw(c) ==
    /\ now >= highWater[c]
    /\ lease' = [lease EXCEPT ![c] = NoLease]
    /\ highWater' = [highWater EXCEPT ![c] = now]
    /\ UNCHANGED <<now, highEpoch>>

LeaseStep ==
    \/ Clock
    \/ \E c \in Connectors :
         \/ Grant(c)
         \/ Withdraw(c)
         \/ \E ready \in BOOLEAN :
              \/ SetReady(c, ready)
              \/ \E h \in 1..MaxHeartbeat, available \in 0..MaxConcurrency[c] :
                   Renew(c, h, available, ready)

LeaseSpec == LeaseInit /\ [][LeaseStep]_leaseVars

-----------------------------------------------------------------------------
LeaseTypeOK ==
    /\ now \in Nat
    /\ lease \in [Connectors -> LeaseRow]
    /\ highEpoch \in [Connectors -> Nat]
    /\ highWater \in [Connectors -> Nat]

(***************************************************************************)
(* A lease that is renewed never loses lifetime, even when the wall clock  *)
(* of the server steps backwards between two heartbeats, and an epoch that *)
(* was given up never comes back: a fence that stopped being current stays *)
(* stale for ever (connector.rs, record_heartbeat and issue_lease).        *)
(***************************************************************************)
FenceNeverRevives ==
    [][\A c \in Connectors :
          IF lease'[c].epoch = lease[c].epoch /\ Held(c)
          THEN lease'[c].expires >= lease[c].expires
          ELSE \/ lease'[c].epoch = 0
               \/ lease'[c].epoch > highEpoch[c]]_leaseVars

(***************************************************************************)
(* What makes the two facts above inductive: the active lease is the       *)
(* newest one ever issued, and it ends at most one lifetime after the last *)
(* time the Connector's head accepted (try_from_snapshot, connector.rs     *)
(* 451 and 480).                                                           *)
(***************************************************************************)
NewestLease ==
    \A c \in Connectors :
        /\ lease[c].epoch \in {0, highEpoch[c]}
        /\ lease[c].expires <= highWater[c] + ControlTtl

LeaseInv == LeaseTypeOK /\ NewestLease
=============================================================================
