----------------------------- MODULE MCControl -----------------------------
(***************************************************************************)
(* Two situations of one Connector.  In "stream" it gets provisioning      *)
(* commands, heartbeats, and meets a clock that steps back; in "rotation"  *)
(* it rotates its credential, loses replies and keeps reconnecting,        *)
(* applying and acknowledging, while every configuration is queued within  *)
(* the first replay page.  An initial state chooses one, and each only     *)
(* leaves steps out.                                                       *)
(***************************************************************************)
EXTENDS ConnectorControl

VARIABLE scenario

Stream ==
    /\ scenario = "stream"
    /\ head'.highEpoch <= 3
    /\ Len(log') <= 3
    /\ client'.epoch = 0 => head.highEpoch <= 1 \/ ~Live

Rotation ==
    /\ scenario = "rotation"
    /\ now' >= now
    /\ row'.heartbeat = 0
    /\ \A i \in 1..Len(log') : log'[i].kind # "provision"
    /\ \A i \in Pending' : log'[i].kind = "config" => i \in ReplayPage'

In(A) == A /\ UNCHANGED scenario /\ (Stream \/ Rotation)

controlVars == <<vars, scenario>>
ControlInit == Init /\ scenario \in {"stream", "rotation"}
ControlNext == In(Next)
ControlSpec ==
    /\ ControlInit /\ [][ControlNext]_controlVars
    /\ WF_controlVars(In(Reconnect))
    /\ WF_controlVars(In(Disconnect /\ ~Live))
    /\ WF_controlVars(In(Apply))
    /\ WF_controlVars(In(Settle))

\* A queued configuration is acknowledged in the end, although the stream drops and the
\* replies are lost, when it is on the first replay page (see ReconnectsRecoverable), no
\* provisioning command is delivered behind it (see BarrierRule) and the bound on the
\* sessions does not stop the Connector (acknowledge_operation).
RotationSettles == scenario = "rotation" => ConfigurationSettles
=============================================================================
