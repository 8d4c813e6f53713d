---------------------------- MODULE MCRunRouting ----------------------------
(***************************************************************************)
(* Three situations of two Connectors, three Bindings and two Runs.  An    *)
(* initial state chooses one and each only leaves steps out:               *)
(*   "failover"  one Run may fail over from the first Connector to the     *)
(*               second while control streams come and go;                 *)
(*   "one"       one Run whose Connector reconnects, repeats its reports   *)
(*               and meets a clock that steps back;                        *)
(*   "two"       two Runs that compete for the slots of one Connector and  *)
(*               for a Binding.                                            *)
(***************************************************************************)
EXTENDS RunStreams, TLC

CONSTANTS c1, c2, r1, r2, b1, b2, b3

\* Two Bindings of different installations share the first Connector.
Routes    == b1 :> c1 @@ b2 :> c1 @@ b3 :> c2
OneEach   == [b \in Bindings |-> 1]
Slots     == c1 :> 2 @@ c2 :> 1
Plans     == r1 :> <<b1, b3>> @@ r2 :> <<b1, b2>>
Deadlines == [r \in Runs |-> 2]
GrantLong == [r \in Runs |-> MaxTime + 1]

VARIABLE scenario

SecondRunRests == state'[r2] = "queued" /\ runHigh'[r2] = 0

\* A Connector reports one slot, and is ready when it does.
OneSlotReported ==
    \A c \in Connectors :
       /\ lease'[c].heartbeat <= 1 /\ lease'[c].available <= 1
       /\ lease'[c].available = 1 <=> lease'[c].ready

\* The first Binding is disabled at most once; reports are left to the others.
Failover ==
    /\ SecondRunRests /\ OneSlotReported
    /\ now' >= now
    /\ \A c \in Connectors :
         highEpoch'[c] <= 1 /\ lease'[c].heartbeat = lease'[c].available
    /\ enabled'[b1] => enabled[b1]
    /\ granted' = granted /\ cancel' = cancel
    /\ exec'[r1].streams = NoExec.streams

\* The second Connector stays away and streams stay open, for a shorter time.
FirstConnector ==
    /\ highEpoch'[c2] = 0 /\ open \subseteq open'
    /\ enabled' = enabled
    /\ now' <= 2 /\ \A r \in Runs : highAttempt'[r] <= 2

OneRun == FirstConnector /\ SecondRunRests /\ OneSlotReported

\* The clock only advances, the Connector keeps its session and reports only the end of a Run.
TwoRuns ==
    /\ FirstConnector
    /\ now' >= now
    /\ highEpoch'[c1] <= 1
    /\ granted' = granted /\ cancel' = cancel
    /\ \A r \in Runs : exec'[r].streams = exec[r].streams /\ exec'[r].state # "failed"

Ordered(A) == scenario = "failover" /\ A /\ Failover /\ UNCHANGED scenario

runsVars == <<streamVars, scenario>>
RunsInit == StreamInit /\ scenario \in {"failover", "one", "two"}
RunsNext ==
    \/ Ordered(StreamNext)
    \/ scenario = "one" /\ StreamNext /\ OneRun /\ UNCHANGED scenario
    \/ scenario = "two" /\ StreamNext /\ TwoRuns /\ UNCHANGED scenario

\* Time passes.  A stream that stays open sweeps on its ticks, and is closed by the poll
\* behind the sweep once its fence is stale.
RunsSpec ==
    /\ RunsInit /\ [][RunsNext]_runsVars
    /\ WF_runsVars(Ordered(Clock /\ UNCHANGED <<runVars, open>>))
    /\ \A f \in {<<c1, 1>>, <<c2, 1>>} :
          /\ WF_runsVars(Ordered(StaleStreamEnds(f)))
          /\ WF_runsVars(Ordered(SweepOn(f, r1)))

=============================================================================
