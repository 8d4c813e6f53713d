----------------------------- MODULE RunStreams -----------------------------
(***************************************************************************)
(* Who settles a Run that nobody reports on.  expire_next_due_current has  *)
(* no background task: it runs on the control streams of the tenant's      *)
(* Connectors (crates/dtx-agent-control-server, drive_control), when one   *)
(* is opened and then every AGENT_RUN_RECONCILE_INTERVAL, and it takes the *)
(* due Runs of every Connector.  Module RunRouting lets the sweep happen   *)
(* at any time; here it needs a stream.                                    *)
(***************************************************************************)
EXTENDS RunRouting

VARIABLE open   \* the fences whose control stream is open on some server

streamVars == <<vars, open>>

Fences == Connectors \X (1..MaxEpoch)

StreamInit == Init /\ open = {}

\* A Hello that is admitted opens a stream; every other step of the control
\* plane leaves the streams as they are, although their lease may be gone.
ControlStep ==
    /\ ControlPlane
    /\ open' = open \cup {f \in Fences : f[2] = highEpoch'[f[1]] /\ f[2] > highEpoch[f[1]]}


\* One due Run in the tick of stream f, whichever Connector the Run is with.
SweepOn(f, r) ==
    /\ f \in open
    /\ Sweep(r)
    /\ UNCHANGED open

\* The Connector hangs up, or a handler fails and the stream is closed.
StreamEnds(f) ==
    /\ f \in open
    /\ open' = open \ {f}
    /\ UNCHANGED vars

\* After its sweep a tick asks for offers under its own fence, and the stream
\* is closed when that is stale.
StaleStreamEnds(f) == ~CurrentFence(f[1], f[2]) /\ StreamEnds(f)

StreamNext ==
    \/ ControlStep
    \/ \E r \in Runs : Serve(r) /\ UNCHANGED open
    \/ \E b \in Bindings : SetEnabled(b) /\ UNCHANGED open
    \/ \E f \in Fences : StreamEnds(f) \/ \E r \in Runs : SweepOn(f, r)

StreamSpec == StreamInit /\ [][StreamNext]_streamVars

-----------------------------------------------------------------------------
Settled(r) == state[r] \in {"reconcile_required", "expired"}

(***************************************************************************)
(* One control stream of the tenant that stays open is enough for a Run to *)
(* settle: it does not stay queued, offered or leased for ever, although   *)
(* its own Connector never connected, is cut off with the lease or does    *)
(* not answer (reconcile_agent_run_timeouts).  Without a stream nothing    *)
(* settles a Run.                                                          *)
(***************************************************************************)
SettlesOnStream(r) == (\E f \in Fences : <>[](f \in open)) => <>[]Settled(r)
=============================================================================
