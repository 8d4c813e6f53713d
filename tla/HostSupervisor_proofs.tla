----------------------- MODULE HostSupervisor_proofs -----------------------
(***************************************************************************)
(* Proofs about the Agent host supervisor: the journal is one chain of     *)
(* operations whatever invocations overlap and die, and the machine is     *)
(* what the journal says when they do not overlap.                         *)
(***************************************************************************)
EXTENDS HostSupervisor, TLAPS, FiniteSetTheorems

-----------------------------------------------------------------------------
(* The inductive invariant *)

Creds        == {NoCred} \cup {HostOpOf[o].cred : o \in HostOps}
Desires      == {"none", "ensured", "stopped", "running", "removed"}
Observations == {"absent", "stopped", "starting", "running", "failed"}
Dispositions == {"applied", "blocked", "expired"}
Installs     == {"none", "prepared", "finalized"}

InstanceRow == [desired : Desires, obs : Observations, gen : Nat, cred : Creds,
                install : Installs]
Snapshots   == [rev : Nat, inst : [HostConns -> InstanceRow]]
Outcomes    == [disp : Dispositions, rev : Nat, desired : Desires, obs : Observations, gen : Nat]
RecordRow   == [state : {"none", "pending", "done"}, outcome : Outcomes \cup {<<>>}]

\* What an invocation holds while it runs.
LoadedRow   == [stage : {"loaded", "admit", "apply", "reconcile", "compensate"}, op : HostOps,
                mem : Snapshots]
MarkedRow   == [stage : {"marked"}, op : HostOps, mem : Snapshots, new : BOOLEAN]
CompleteRow == [stage : {"complete"}, op : HostOps, mem : Snapshots, obs : Observations,
                disp : Dispositions]
RunRow      == {IdleRun} \cup LoadedRow \cup MarkedRow \cup CompleteRow

JournalRows ==
    /\ record \in [HostOps -> RecordRow]
    /\ snapshot \in Snapshots
    /\ \A c \in HostConns : ObservationFits(snapshot.inst[c])
    /\ sent \in [HostOps -> NotSent .. Cardinality(HostOps)]
    /\ invoked \in [HostRuns -> RunRow]

MachineRows ==
    /\ unit \in [HostConns -> Units]
    /\ crashLoop \in [HostConns -> BOOLEAN]
    /\ activeCred \in [HostConns -> Creds]
    /\ mark \in [HostOps -> Marks]
    /\ restarts \in [HostOps -> Nat]
    /\ runnable \in BOOLEAN /\ overlapped \in BOOLEAN
    /\ hostFaults \in 0 .. MaxHostFaults

\* The operations that moved the host.
Moved == {o \in HostOps : record[o].state = "done" /\ record[o].outcome.disp # "expired"}

\* What is pending was admitted at the revision the host is at, and is alone.
PendingHere ==
    /\ \A o, p \in HostOps : (record[o].state = "pending" /\ record[p].state = "pending") => o = p
    /\ \A o \in HostOps :
          record[o].state = "pending" =>
              /\ sent[o] = snapshot.rev
              /\ snapshot.inst[Conn(o)].desired # "removed"

\* The chain of completed operations, and what was said of them.
Chain ==
    /\ \A o \in HostOps : record[o].state # "none" => sent[o] # NotSent
    /\ \A o \in HostOps : record[o].state = "done" => record[o].outcome \in Outcomes
    /\ \A o \in Moved : record[o].outcome.rev = sent[o] + 1
    /\ {sent[o] + 1 : o \in Moved} = 1 .. snapshot.rev
    /\ Cardinality(Moved) = snapshot.rev
AnswersTold ==
    /\ answers \in [HostOps -> SUBSET Outcomes]
    /\ \A o \in HostOps : \A a \in answers[o] : record[o].state = "done" /\ a = record[o].outcome

\* An invocation works on a snapshot the host is or was at, and what it wants to complete fits.
Fits(x) ==
    x # IdleRun =>
        /\ sent[x.op] # NotSent
        /\ x.mem.rev <= snapshot.rev /\ (x.mem.rev = snapshot.rev => x.mem = snapshot)
        /\ (x.stage = "complete" /\ x.disp = "applied") => ObservationValid(x.mem, x.op, x.obs)

JournalInv ==
    /\ JournalRows /\ MachineRows
    /\ PendingHere /\ Chain /\ AnswersTold
    /\ \A r \in HostRuns : Fits(invoked[r])

-----------------------------------------------------------------------------
(* One invocation at a time *)

Committed == {"apply", "reconcile", "compensate", "marked", "complete"}

\* The only invocation has the snapshot the host is at; the operation it admits is not
\* completed, and past admission it is the pending one.
Others(r) == \A q \in HostRuns \ {r} : invoked[q] = IdleRun
Alone(x) ==
    x # IdleRun =>
        /\ x.mem = snapshot
        /\ x.stage = "admit" => record[x.op].state # "done"
        /\ x.stage \in Committed => record[x.op].state = "pending"
        /\ x.stage = "compensate" => Starts(x.op)
        /\ x.stage = "marked" => /\ Kind(x.op) = "restart" /\ mark[x.op] # "none"
                                 /\ x.new => restarts[x.op] = 0
        /\ x.stage = "complete" =>
              /\ x.disp = "blocked" => (Starts(x.op) /\ unit[Conn(x.op)] = "off")
              /\ x.disp = "expired" => /\ Kind(x.op) = "prepare"
                                       /\ activeCred[Conn(x.op)] # HostOpOf[x.op].cred
              /\ x.disp = "applied" =>
                    /\ Kind(x.op) \in {"ensure", "stop", "remove", "prepare"} =>
                          unit[Conn(x.op)] = "off"
                    /\ Kind(x.op) \in {"rotate", "prepare"} =>
                          activeCred[Conn(x.op)] = HostOpOf[x.op].cred
RunAlone(r) == invoked[r] # IdleRun => (Others(r) /\ Alone(invoked[r]))

\* A Connector whose record says it is stopped is off, unless a start of it is pending.
OffUnlessStarting ==
    \A c \in HostConns :
        \/ snapshot.inst[c].desired \notin {"ensured", "stopped", "removed"}
        \/ unit[c] = "off"
        \/ \E o \in PendingOps : Starts(o) /\ Conn(o) = c

\* The process reads the recorded credential, or the one a pending operation brings.
CredUnlessChanging ==
    \A c \in HostConns :
        \/ snapshot.inst[c].desired = "removed"
        \/ activeCred[c] = snapshot.inst[c].cred
        \/ \E o \in PendingOps : /\ Kind(o) \in {"rotate", "prepare"} /\ Conn(o) = c
                                 /\ activeCred[c] = HostOpOf[o].cred

\* A restart that left no marker was not issued.
MarkedOnce == \A o \in HostOps : restarts[o] <= 1 /\ (mark[o] = "none" => restarts[o] = 0)

MachineInv ==
    ~overlapped =>
        /\ \A r \in HostRuns : RunAlone(r)
        /\ OffUnlessStarting /\ CredUnlessChanging /\ MarkedOnce

HostInv == JournalInv /\ MachineInv
-----------------------------------------------------------------------------
(* Invocations *)

\* What a live invocation holds.
LEMMA RunShape ==
    ASSUME JournalInv, NEW r \in HostRuns, invoked[r] # IdleRun
    PROVE  /\ invoked[r].op \in HostOps /\ invoked[r].mem \in Snapshots
           /\ Kind(invoked[r].op) \in CommandKinds /\ Conn(invoked[r].op) \in HostConns
           /\ invoked[r].stage \in {"loaded", "admit", "apply", "reconcile", "compensate"} =>
                 invoked[r] \in LoadedRow
           /\ invoked[r].stage = "marked" => invoked[r] \in MarkedRow
           /\ invoked[r].stage = "complete" => invoked[r] \in CompleteRow
<1>1. invoked[r] \in LoadedRow \cup MarkedRow \cup CompleteRow
  BY DEF JournalInv, JournalRows, RunRow
<1>2. /\ invoked[r].op \in HostOps /\ invoked[r].mem \in Snapshots
      /\ invoked[r] \in LoadedRow =>
            invoked[r].stage \in {"loaded", "admit", "apply", "reconcile", "compensate"}
      /\ invoked[r] \in MarkedRow => invoked[r].stage = "marked"
      /\ invoked[r] \in CompleteRow => invoked[r].stage = "complete"
  BY <1>1 DEF LoadedRow, MarkedRow, CompleteRow
<1> QED
  BY <1>1, <1>2, HostConstants DEF Kind, Conn

\* An invocation that ends.
LEMMA IdleFits == IdleRun \in RunRow /\ Fits(IdleRun) /\ Alone(IdleRun) /\ Alone(IdleRun)'
BY DEF RunRow, Fits, Alone

\* An invocation in a stage is not idle.
LEMMA StageLive ==
    ASSUME NEW r, NEW stage \in {"loaded", "admit", "apply", "reconcile", "compensate", "marked",
                                "complete"},
           invoked[r].stage = stage
    PROVE  invoked[r] # IdleRun
BY DEF IdleRun

\* GoTo moves the stage and keeps the rest.
LEMMA GoToFits ==
    ASSUME JournalInv, NEW r \in HostRuns, invoked[r] \in LoadedRow,
           NEW stage \in {"loaded", "admit", "apply", "reconcile", "compensate"}, GoTo(r, stage),
           NEW o \in HostOps, NEW s \in Snapshots, invoked[r].op = o, invoked[r].mem = s
    PROVE  \E x \in RunRow :
              /\ invoked' = [invoked EXCEPT ![r] = x] /\ Fits(x)
              /\ x = [stage |-> stage, op |-> o, mem |-> s]
<1> DEFINE x == [stage |-> stage, op |-> o, mem |-> s]
<1>1. x \in RunRow
  BY DEF RunRow, LoadedRow
<1>2. [invoked[r] EXCEPT !.stage = stage] = x
  BY DEF LoadedRow
<1>3. invoked' = [invoked EXCEPT ![r] = x]
  BY <1>2 DEF GoTo
<1>4. invoked[r] # IdleRun /\ Fits(invoked[r])
  BY DEF JournalInv, LoadedRow, IdleRun
<1>5. Fits(x)
  <2>1. x.op = o /\ x.mem = s /\ x.stage # "complete"
    OBVIOUS
  <2> QED
    BY <1>4, <2>1 DEF Fits
<1> QED
  BY <1>1, <1>3, <1>5

\* An observation that fits the command is one the journal knows.
LEMMA ObservationKnown ==
    ASSUME NEW s, NEW o, Kind(o) \in CommandKinds, NEW obs, ObservationValid(s, o, obs)
    PROVE  obs \in Observations
BY DEF ObservationValid, Observations, CommandKinds, Starts

\* What Observed leaves: an invocation about to complete, or none.
LEMMA ObservedFits ==
    ASSUME JournalInv, NEW r \in HostRuns, invoked[r] # IdleRun,
           NEW o \in HostOps, NEW s \in Snapshots, invoked[r].op = o, invoked[r].mem = s,
           NEW obs, Observed(r, obs, "applied")
    PROVE  \E x \in RunRow :
              /\ invoked' = [invoked EXCEPT ![r] = x] /\ Fits(x)
              /\ \/ x = IdleRun
                 \/ x = [stage |-> "complete", op |-> o, mem |-> s, obs |-> obs,
                         disp |-> "applied"]
<1>1. CASE ~ObservationValid(s, o, obs)
  BY <1>1, IdleFits DEF Observed
<1>2. CASE ObservationValid(s, o, obs)
  <2> DEFINE x == [stage |-> "complete", op |-> o, mem |-> s, obs |-> obs, disp |-> "applied"]
  <2>1. invoked' = [invoked EXCEPT ![r] = x]
    BY <1>2 DEF Observed
  <2>2. obs \in Observations
    BY <1>2, RunShape, ObservationKnown
  <2>3. x \in RunRow
    BY <2>2 DEF RunRow, CompleteRow, Dispositions
  <2>4. Fits(invoked[r])
    BY DEF JournalInv
  <2>5. Fits(x)
    <3>1. x.op = o /\ x.mem = s /\ x.obs = obs
      OBVIOUS
    <3> QED
      BY <1>2, <2>4, <3>1 DEF Fits
  <2> QED
    BY <2>1, <2>3, <2>5
<1> QED
  BY <1>1, <1>2

\* A step that writes nothing but an answer keeps the journal's part of the invariant.
LEMMA JournalStill ==
    ASSUME JournalInv, record' = record, snapshot' = snapshot, sent' = sent,
           AnswersTold', MachineRows',
           NEW r \in HostRuns, NEW x \in RunRow, Fits(x), invoked' = [invoked EXCEPT ![r] = x]
    PROVE  JournalInv'
<1>1. invoked' \in [HostRuns -> RunRow]
      /\ \A q \in HostRuns : invoked'[q] = IF q = r THEN x ELSE invoked[q]
  BY DEF JournalInv, JournalRows
<1>2. JournalRows'
  BY <1>1 DEF JournalInv, JournalRows
<1>3. PendingHere' /\ Chain'
  <2>1. Moved' = Moved
    BY DEF Moved
  <2> QED
    BY <2>1 DEF JournalInv, PendingHere, Chain
<1>4. ASSUME NEW q \in HostRuns PROVE Fits(invoked[q])'
  <2>1. Fits(invoked'[q])
    BY <1>1 DEF JournalInv
  <2> QED
    BY <2>1 DEF Fits
<1> QED
  BY <1>2, <1>3, <1>4 DEF JournalInv

\* A step that leaves the journal alone keeps its part of the invariant.
LEMMA JournalQuiet ==
    ASSUME JournalInv, UNCHANGED <<journalVars, sent>>, MachineRows',
           NEW r \in HostRuns, NEW x \in RunRow, Fits(x), invoked' = [invoked EXCEPT ![r] = x]
    PROVE  JournalInv'
<1>1. record' = record /\ snapshot' = snapshot /\ answers' = answers /\ sent' = sent
  BY DEF journalVars
<1>2. AnswersTold'
  BY <1>1 DEF JournalInv, AnswersTold
<1> QED
  BY <1>1, <1>2, JournalStill

\* A step of the only invocation keeps the machine's part when its conjuncts are kept.
LEMMA MachineQuiet ==
    ASSUME JournalInv, MachineInv, overlapped' = overlapped,
           NEW r \in HostRuns, invoked[r] # IdleRun,
           NEW x, invoked' = [invoked EXCEPT ![r] = x],
           ~overlapped => (Alone(x)' /\ OffUnlessStarting' /\ CredUnlessChanging' /\ MarkedOnce')
    PROVE  MachineInv'
<1> SUFFICES ASSUME ~overlapped
             PROVE  /\ \A q \in HostRuns : RunAlone(q)'
                    /\ OffUnlessStarting' /\ CredUnlessChanging' /\ MarkedOnce'
  BY DEF MachineInv
<1>1. \A q \in HostRuns \ {r} : invoked[q] = IdleRun
  BY DEF MachineInv, RunAlone, Others
<1>2. \A q \in HostRuns : invoked'[q] = IF q = r THEN x ELSE IdleRun
  BY <1>1 DEF JournalInv, JournalRows
<1>3. ASSUME NEW q \in HostRuns PROVE RunAlone(q)'
  <2>1. CASE q # r
    BY <1>2, <2>1 DEF RunAlone
  <2>2. CASE q = r
    <3>1. invoked'[q] = x /\ Others(q)'
      BY <1>2, <2>2 DEF Others
    <3>2. Alone(invoked[q])'
      BY <3>1 DEF Alone
    <3> QED
      BY <3>1, <3>2 DEF RunAlone
  <2> QED
    BY <2>1, <2>2
<1> QED
  BY <1>3

-----------------------------------------------------------------------------
(* The machine under one invocation *)

\* What is known of an invocation that is alone.
LEMMA SerialRun ==
    ASSUME MachineInv, ~overlapped, NEW r \in HostRuns, invoked[r] # IdleRun
    PROVE  /\ Others(r) /\ Alone(invoked[r])
           /\ OffUnlessStarting /\ CredUnlessChanging /\ MarkedOnce
BY DEF MachineInv, RunAlone

\* An operation that was carried out by the only invocation may be completed.
LEMMA AppliedAlone ==
    ASSUME NEW r, invoked[r] # IdleRun, Alone(invoked[r]), invoked[r].stage \in Committed,
           NEW o, NEW s, invoked[r].op = o, invoked[r].mem = s,
           record' = record, snapshot' = snapshot,
           NEW obs, NEW x,
           \/ x = IdleRun
           \/ x = [stage |-> "complete", op |-> o, mem |-> s, obs |-> obs, disp |-> "applied"],
           Kind(o) \in {"ensure", "stop", "remove", "prepare"} => unit'[Conn(o)] = "off",
           Kind(o) \in {"rotate", "prepare"} => activeCred'[Conn(o)] = HostOpOf[o].cred
    PROVE  Alone(x)'
<1>1. CASE x = IdleRun
  BY <1>1, IdleFits
<1>2. CASE x = [stage |-> "complete", op |-> o, mem |-> s, obs |-> obs, disp |-> "applied"]
  <2>1. s = snapshot /\ record[o].state = "pending"
    BY DEF Alone
  <2>2. x.stage = "complete" /\ x.op = o /\ x.mem = s /\ x.disp = "applied"
    BY <1>2
  <2> QED
    BY <2>1, <2>2 DEF Alone
<1> QED
  BY <1>1, <1>2

\* A unit that is only brought down, or whose start is pending, keeps the recorded stops.
LEMMA OffKept ==
    ASSUME OffUnlessStarting, record' = record, snapshot' = snapshot,
           \A c \in HostConns : \/ unit'[c] \in {"off", unit[c]}
                                \/ \E o \in PendingOps : Starts(o) /\ Conn(o) = c
    PROVE  OffUnlessStarting'
BY DEF OffUnlessStarting, PendingOps

\* A credential that is only restored, or brought by a pending operation, still agrees.
LEMMA CredKept ==
    ASSUME CredUnlessChanging, record' = record, snapshot' = snapshot,
           \A c \in HostConns :
              \/ activeCred'[c] \in {activeCred[c], snapshot.inst[c].cred}
              \/ \E o \in PendingOps : /\ Kind(o) \in {"rotate", "prepare"} /\ Conn(o) = c
                                       /\ activeCred'[c] = HostOpOf[o].cred
    PROVE  CredUnlessChanging'
BY DEF CredUnlessChanging, PendingOps

\* The operation of a committed invocation that is alone is pending.
LEMMA CommittedPending ==
    ASSUME NEW r, invoked[r] # IdleRun, Alone(invoked[r]), invoked[r].stage \in Committed,
           invoked[r].op \in HostOps
    PROVE  invoked[r].op \in PendingOps
BY DEF Alone, PendingOps

\* ensure, stop and remove_retaining_data.
LEMMA BringDownKeeps == ASSUME HostInv, NEW r \in HostRuns, BringDown(r) PROVE HostInv'
<1>1. /\ JournalInv /\ MachineInv /\ invoked[r].stage \in {"apply", "reconcile"}
      /\ invoked[r] # IdleRun
  BY StageLive DEF HostInv, BringDown, Applies
<1>2. PICK o \in HostOps, s \in Snapshots :
        invoked[r].op = o /\ invoked[r].mem = s /\ Conn(o) \in HostConns
  BY <1>1, RunShape
<1>3. PICK obs :
        /\ Observed(r, obs, "applied")
        /\ Kind(o) \in {"ensure", "stop", "remove"}
        /\ unit' = [unit EXCEPT ![Conn(o)] = "off"]
        /\ crashLoop' = [crashLoop EXCEPT ![Conn(o)] = FALSE]
        /\ UNCHANGED <<journalVars, activeCred, mark, restarts, sent, runnable, overlapped,
                       hostFaults>>
  BY <1>2 DEF BringDown, Applies
<1>4. MachineRows'
  BY <1>1, <1>2, <1>3 DEF JournalInv, MachineRows, Units
<1>5. PICK x \in RunRow :
        /\ invoked' = [invoked EXCEPT ![r] = x] /\ Fits(x)
        /\ \/ x = IdleRun
           \/ x = [stage |-> "complete", op |-> o, mem |-> s, obs |-> obs, disp |-> "applied"]
  BY <1>1, <1>2, <1>3, ObservedFits
<1>6. JournalInv'
  BY <1>1, <1>3, <1>4, <1>5, JournalQuiet
<1>7. unit'[Conn(o)] = "off" /\ \A c \in HostConns : unit'[c] \in {"off", unit[c]}
  BY <1>1, <1>2, <1>3 DEF JournalInv, MachineRows
<1>8. ASSUME ~overlapped
      PROVE  Alone(x)' /\ OffUnlessStarting' /\ CredUnlessChanging' /\ MarkedOnce'
  <2>1. /\ record' = record /\ snapshot' = snapshot /\ activeCred' = activeCred
        /\ mark' = mark /\ restarts' = restarts
    BY <1>3 DEF journalVars
  <2>2. /\ Alone(invoked[r]) /\ OffUnlessStarting /\ CredUnlessChanging /\ MarkedOnce
        /\ invoked[r].stage \in Committed
    BY <1>1, <1>8, SerialRun DEF Committed
  <2>3. Alone(x)'
    BY <1>1, <1>2, <1>3, <1>5, <1>7, <2>1, <2>2, AppliedAlone
  <2>4. OffUnlessStarting' /\ CredUnlessChanging'
    BY <1>7, <2>1, <2>2, OffKept, CredKept
  <2> QED
    BY <2>1, <2>2, <2>3, <2>4 DEF MarkedOnce
<1>9. MachineInv'
  BY <1>1, <1>3, <1>5, <1>8, MachineQuiet
<1> QED
  BY <1>6, <1>9 DEF HostInv

\* reconcile_policy_blocked_start.
LEMMA CompensateKeeps == ASSUME HostInv, NEW r \in HostRuns, CompensateStart(r) PROVE HostInv'
<1>1. /\ JournalInv /\ MachineInv /\ invoked[r].stage = "compensate" /\ invoked[r] # IdleRun
  BY StageLive DEF HostInv, CompensateStart
<1>2. PICK o \in HostOps, s \in Snapshots :
        invoked[r].op = o /\ invoked[r].mem = s /\ Conn(o) \in HostConns
  BY <1>1, RunShape
<1> DEFINE x == [stage |-> "complete", op |-> o, mem |-> s, obs |-> "stopped", disp |-> "blocked"]
<1>3. /\ invoked' = [invoked EXCEPT ![r] = x]
      /\ unit' = [unit EXCEPT ![Conn(o)] = "off"]
      /\ crashLoop' = [crashLoop EXCEPT ![Conn(o)] = FALSE]
      /\ UNCHANGED <<journalVars, activeCred, mark, restarts, sent, runnable, overlapped,
                     hostFaults>>
  BY <1>2 DEF CompensateStart, StopsUnit
<1>4. MachineRows'
  BY <1>1, <1>2, <1>3 DEF JournalInv, MachineRows, Units
<1>5. x \in RunRow /\ x.stage = "complete" /\ x.op = o /\ x.mem = s /\ x.disp = "blocked"
  BY DEF RunRow, CompleteRow, Observations, Dispositions
<1> HIDE DEF x
<1>6. Fits(x)
  <2>1. Fits(invoked[r])
    BY <1>1 DEF JournalInv
  <2> QED
    BY <1>1, <1>2, <1>5, <2>1 DEF Fits
<1>7. JournalInv'
  BY <1>1, <1>3, <1>4, <1>5, <1>6, JournalQuiet
<1>8. unit'[Conn(o)] = "off" /\ \A c \in HostConns : unit'[c] \in {"off", unit[c]}
  BY <1>1, <1>2, <1>3 DEF JournalInv, MachineRows
<1>9. ASSUME ~overlapped
      PROVE  Alone(x)' /\ OffUnlessStarting' /\ CredUnlessChanging' /\ MarkedOnce'
  <2>1. /\ record' = record /\ snapshot' = snapshot /\ activeCred' = activeCred
        /\ mark' = mark /\ restarts' = restarts
    BY <1>3 DEF journalVars
  <2>2. /\ Alone(invoked[r]) /\ OffUnlessStarting /\ CredUnlessChanging /\ MarkedOnce
    BY <1>1, <1>9, SerialRun
  <2>3. s = snapshot /\ record[o].state = "pending" /\ Starts(o)
    BY <1>1, <1>2, <2>2 DEF Alone, Committed
  <2>4. Alone(x)'
    BY <1>5, <1>8, <2>1, <2>3 DEF Alone
  <2>5. OffUnlessStarting' /\ CredUnlessChanging'
    BY <1>8, <2>1, <2>2, OffKept, CredKept
  <2> QED
    BY <2>1, <2>2, <2>4, <2>5 DEF MarkedOnce
<1>10. MachineInv'
  BY <1>1, <1>3, <1>9, MachineQuiet
<1> QED
  BY <1>7, <1>10 DEF HostInv

\* What a command may do to the units and to the credentials.
UnitsWithin(o) ==
    \A c \in HostConns : unit'[c] \in {"off", unit[c]} \/ (Starts(o) /\ Conn(o) = c)
CredsWithin(o, s) ==
    \A c \in HostConns :
        \/ activeCred'[c] \in {activeCred[c], s.inst[c].cred}
        \/ /\ Kind(o) \in {"rotate", "prepare"} /\ Conn(o) = c
           /\ activeCred'[c] = HostOpOf[o].cred

\* A command that changes the machine within what its pending operation allows.
LEMMA CommandKeeps ==
    ASSUME HostInv, NEW r \in HostRuns, invoked[r] # IdleRun, invoked[r].stage \in Committed,
           NEW o \in HostOps, NEW s, invoked[r].op = o, invoked[r].mem = s,
           UNCHANGED <<journalVars, sent, overlapped>>, MachineRows',
           UnitsWithin(o), CredsWithin(o, s),
           NEW x \in RunRow, Fits(x), invoked' = [invoked EXCEPT ![r] = x],
           (~overlapped /\ Alone(invoked[r]) /\ MarkedOnce) => (Alone(x)' /\ MarkedOnce')
    PROVE  HostInv'
<1>1. JournalInv /\ MachineInv /\ overlapped' = overlapped /\ UNCHANGED <<journalVars, sent>>
  BY DEF HostInv
<1>2. JournalInv'
  BY <1>1, JournalQuiet
<1>3. ASSUME ~overlapped
      PROVE  Alone(x)' /\ OffUnlessStarting' /\ CredUnlessChanging' /\ MarkedOnce'
  <2>1. record' = record /\ snapshot' = snapshot
    BY DEF journalVars
  <2>2. Alone(invoked[r]) /\ OffUnlessStarting /\ CredUnlessChanging /\ MarkedOnce
    BY <1>1, <1>3, SerialRun
  <2>3. s = snapshot /\ o \in PendingOps
    BY <2>2, CommittedPending DEF Alone
  <2> QED
    BY <1>3, <2>1, <2>2, <2>3, OffKept, CredKept DEF UnitsWithin, CredsWithin
<1> QED
  BY <1>1, <1>2, <1>3, MachineQuiet DEF HostInv

\* A launch that markers see leaves no marker where there was none.
LEMMA MarksMove ==
    ASSUME MachineRows, NEW c
    PROVE  /\ MovedMarks(c) \in [HostOps -> Marks]
           /\ \A o \in HostOps : MovedMarks(c)[o] = "none" <=> mark[o] = "none"
BY DEF MachineRows, MovedMarks, Marks

\* The credential after restore_installed_runtime_if_needed.
LEMMA CredRestored ==
    ASSUME MachineRows, NEW s \in Snapshots, NEW c \in HostConns,
           activeCred' = [activeCred EXCEPT ![c] = RestoredCred(s, c)]
    PROVE  /\ activeCred' \in [HostConns -> Creds]
           /\ \A d \in HostConns : activeCred'[d] \in {activeCred[d], s.inst[d].cred}
<1>1. s.inst[c].cred \in Creds
  BY DEF Snapshots, InstanceRow
<1>2. RestoredCred(s, c) \in {activeCred[c], s.inst[c].cred}
  BY DEF RestoredCred
<1> QED
  BY <1>1, <1>2 DEF MachineRows

\* start.
LEMMA StartKeeps == ASSUME HostInv, NEW r \in HostRuns, StartProcess(r) PROVE HostInv'
<1>1. /\ JournalInv /\ invoked[r].stage \in {"apply", "reconcile"} /\ invoked[r] # IdleRun
      /\ invoked[r].stage \in Committed
  BY StageLive DEF HostInv, StartProcess, Applies, Committed
<1>2. PICK o \in HostOps, s \in Snapshots :
        invoked[r].op = o /\ invoked[r].mem = s /\ Conn(o) \in HostConns
  BY <1>1, RunShape
<1> DEFINE c == Conn(o)
<1>3. /\ Kind(o) = "start"
      /\ activeCred' = [activeCred EXCEPT ![c] = RestoredCred(s, c)]
      /\ UNCHANGED <<journalVars, restarts, sent, runnable, overlapped, hostFaults>>
      /\ \/ /\ Give(r)
            /\ UNCHANGED <<unit, crashLoop, mark>>
         \/ /\ Observed(r, unit[c], "applied")
            /\ crashLoop' = [crashLoop EXCEPT ![c] = unit[c] = "failed"]
            /\ UNCHANGED <<unit, mark>>
         \/ \E u \in Launched :
               /\ unit' = [unit EXCEPT ![c] = u]
               /\ mark' = MovedMarks(c)
               /\ crashLoop' = [crashLoop EXCEPT ![c] = u = "failed"]
               /\ Observed(r, u, "applied")
  BY <1>2 DEF StartProcess, Applies
<1>4. MachineRows
  BY <1>1 DEF JournalInv
<1>5. /\ activeCred' \in [HostConns -> Creds]
      /\ \A d \in HostConns : activeCred'[d] \in {activeCred[d], s.inst[d].cred}
  BY <1>2, <1>3, <1>4, CredRestored
<1>6. /\ unit' \in [HostConns -> Units] /\ \A d \in HostConns : d # c => unit'[d] = unit[d]
      /\ crashLoop' \in [HostConns -> BOOLEAN] /\ mark' \in [HostOps -> Marks]
      /\ \A p \in HostOps : mark'[p] = "none" => mark[p] = "none"
  <2>1. /\ unit \in [HostConns -> Units] /\ crashLoop \in [HostConns -> BOOLEAN]
        /\ mark \in [HostOps -> Marks]
    BY <1>4 DEF MachineRows
  <2>2. \/ unit' = unit
        \/ \E u \in Launched : unit' = [unit EXCEPT ![c] = u]
    BY <1>3
  <2>3. unit' \in [HostConns -> Units] /\ \A d \in HostConns : d # c => unit'[d] = unit[d]
    BY <1>2, <2>1, <2>2 DEF Launched, Units
  <2>4. \/ crashLoop' = crashLoop
        \/ \E b \in BOOLEAN : crashLoop' = [crashLoop EXCEPT ![c] = b]
    BY <1>3, Zenon
  <2>5. crashLoop' \in [HostConns -> BOOLEAN]
    BY <2>1, <2>4
  <2>6. mark' = mark \/ mark' = MovedMarks(c)
    BY <1>3
  <2>7. /\ mark' \in [HostOps -> Marks]
        /\ \A p \in HostOps : mark'[p] = "none" => mark[p] = "none"
    BY <1>4, <2>1, <2>6, MarksMove
  <2> QED
    BY <2>3, <2>5, <2>7
<1>7. MachineRows'
  BY <1>3, <1>4, <1>5, <1>6 DEF MachineRows
<1>8. PICK obs : Give(r) \/ Observed(r, obs, "applied")
  BY <1>3
<1>9. PICK x \in RunRow :
        /\ invoked' = [invoked EXCEPT ![r] = x] /\ Fits(x)
        /\ \/ x = IdleRun
           \/ x = [stage |-> "complete", op |-> o, mem |-> s, obs |-> obs, disp |-> "applied"]
  BY <1>1, <1>2, <1>8, ObservedFits, IdleFits DEF Give
<1>10. (~overlapped /\ Alone(invoked[r]) /\ MarkedOnce) => (Alone(x)' /\ MarkedOnce')
  <2> SUFFICES ASSUME Alone(invoked[r]), MarkedOnce PROVE Alone(x)' /\ MarkedOnce'
    OBVIOUS
  <2>1. record' = record /\ snapshot' = snapshot /\ restarts' = restarts
    BY <1>3 DEF journalVars
  <2>2. /\ Kind(o) \notin {"ensure", "stop", "remove", "prepare"}
        /\ Kind(o) \notin {"rotate", "prepare"}
    BY <1>3
  <2>3. Alone(x)'
    BY <1>1, <1>2, <1>9, <2>1, <2>2, AppliedAlone
  <2> QED
    BY <1>6, <2>1, <2>3 DEF MarkedOnce
<1>11. Starts(o) /\ UNCHANGED <<journalVars, sent, overlapped>>
  BY <1>3 DEF Starts
<1> HIDE DEF c
<1>12. UnitsWithin(o) /\ CredsWithin(o, s)
  BY <1>5, <1>6, <1>11 DEF c, UnitsWithin, CredsWithin
<1> QED
  BY <1>1, <1>2, <1>7, <1>9, <1>10, <1>11, <1>12, CommandKeeps

\* restart, up to its marker.
LEMMA MarkKeeps == ASSUME HostInv, NEW r \in HostRuns, RestartMarked(r) PROVE HostInv'
<1>1. /\ JournalInv /\ invoked[r].stage \in {"apply", "reconcile"} /\ invoked[r] # IdleRun
      /\ invoked[r].stage \in Committed
  BY StageLive DEF HostInv, RestartMarked, Applies, Committed
<1>2. PICK o \in HostOps, s \in Snapshots :
        invoked[r].op = o /\ invoked[r].mem = s /\ Conn(o) \in HostConns
  BY <1>1, RunShape
<1>3. PICK new \in BOOLEAN : new = (mark[o] = "none")
  OBVIOUS
<1> DEFINE c == Conn(o)
           m == [stage |-> "marked", op |-> o, mem |-> s, new |-> new]
<1>4. /\ Kind(o) = "restart"
      /\ activeCred' = [activeCred EXCEPT ![c] = RestoredCred(s, c)]
      /\ UNCHANGED <<journalVars, unit, restarts, sent, runnable, overlapped, hostFaults>>
      /\ \/ /\ Give(r)
            /\ UNCHANGED <<crashLoop, mark>>
         \/ /\ crashLoop' = [crashLoop EXCEPT ![c] = unit[c] \in {"off", "failed"}]
            /\ Observed(r, IF unit[c] = "off" THEN "failed" ELSE unit[c], "applied")
            /\ UNCHANGED mark
         \/ /\ crashLoop' = [crashLoop EXCEPT ![c] = FALSE]
            /\ mark' = IF new THEN [mark EXCEPT ![o] = "pending"] ELSE mark
            /\ invoked' = [invoked EXCEPT ![r] = m]
  BY <1>2, <1>3 DEF RestartMarked, Applies
<1>5. MachineRows
  BY <1>1 DEF JournalInv
<1>6. /\ activeCred' \in [HostConns -> Creds]
      /\ \A d \in HostConns : activeCred'[d] \in {activeCred[d], s.inst[d].cred}
  BY <1>2, <1>4, <1>5, CredRestored
<1>7. /\ crashLoop' \in [HostConns -> BOOLEAN] /\ mark' \in [HostOps -> Marks]
      /\ \A p \in HostOps : mark'[p] = "none" => mark[p] = "none"
      /\ invoked' = [invoked EXCEPT ![r] = m] => (Give(r) \/ mark'[o] # "none"
                                                 \/ \E obs : Observed(r, obs, "applied"))
  <2>1. mark \in [HostOps -> Marks] /\ crashLoop \in [HostConns -> BOOLEAN]
    BY <1>5 DEF MachineRows
  <2>2. [mark EXCEPT ![o] = "pending"] \in [HostOps -> Marks]
        /\ \A p \in HostOps : [mark EXCEPT ![o] = "pending"][p] = IF p = o THEN "pending"
                                                                  ELSE mark[p]
    BY <2>1 DEF Marks
  <2>3. mark' = mark \/ mark' = [mark EXCEPT ![o] = "pending"]
    BY <1>4
  <2>4. crashLoop' \in [HostConns -> BOOLEAN]
    <3>1. \/ crashLoop' = crashLoop
          \/ \E b \in BOOLEAN : crashLoop' = [crashLoop EXCEPT ![c] = b]
      <4>1. (unit[c] \in {"off", "failed"}) \in BOOLEAN /\ FALSE \in BOOLEAN
        OBVIOUS
      <4> QED
        BY <1>4, <4>1, Zenon
    <3> QED
      BY <2>1, <3>1
  <2> QED
    BY <1>3, <1>4, <2>1, <2>2, <2>3, <2>4
<1>8. MachineRows'
  BY <1>4, <1>5, <1>6, <1>7 DEF MachineRows
<1>9. (\E obs : Give(r) \/ Observed(r, obs, "applied"))
      \/ (invoked' = [invoked EXCEPT ![r] = m] /\ mark'[o] # "none")
  BY <1>4, <1>7
<1>10. Starts(o) /\ UNCHANGED <<journalVars, sent, overlapped>> /\ unit' = unit
       /\ record' = record /\ snapshot' = snapshot /\ restarts' = restarts
  BY <1>4 DEF Starts, journalVars
<1> HIDE DEF c
<1>11. UnitsWithin(o) /\ CredsWithin(o, s)
  BY <1>6, <1>10 DEF UnitsWithin, CredsWithin
<1>12. CASE \E obs : Give(r) \/ Observed(r, obs, "applied")
  <2>1. PICK obs : Give(r) \/ Observed(r, obs, "applied")
    BY <1>12
  <2>2. PICK x \in RunRow :
          /\ invoked' = [invoked EXCEPT ![r] = x] /\ Fits(x)
          /\ \/ x = IdleRun
             \/ x = [stage |-> "complete", op |-> o, mem |-> s, obs |-> obs, disp |-> "applied"]
    BY <1>1, <1>2, <2>1, ObservedFits, IdleFits DEF Give
  <2>3. (~overlapped /\ Alone(invoked[r]) /\ MarkedOnce) => (Alone(x)' /\ MarkedOnce')
    <3> SUFFICES ASSUME Alone(invoked[r]), MarkedOnce PROVE Alone(x)' /\ MarkedOnce'
      OBVIOUS
    <3>1. /\ Kind(o) \notin {"ensure", "stop", "remove", "prepare"}
          /\ Kind(o) \notin {"rotate", "prepare"}
      BY <1>4
    <3>2. Alone(x)'
      BY <1>1, <1>2, <1>10, <2>2, <3>1, AppliedAlone
    <3> QED
      BY <1>7, <1>10, <3>2 DEF MarkedOnce
  <2> QED
    BY <1>1, <1>2, <1>8, <1>10, <1>11, <2>2, <2>3, CommandKeeps
<1>13. CASE invoked' = [invoked EXCEPT ![r] = m] /\ mark'[o] # "none"
  <2>1. /\ m \in RunRow /\ m.stage = "marked" /\ m.op = o /\ m.mem = s /\ m.new = new
        /\ m.stage \in Committed
    BY DEF RunRow, MarkedRow, Committed
  <2> HIDE DEF m
  <2>2. Fits(m)
    <3>1. Fits(invoked[r])
      BY <1>1 DEF JournalInv
    <3> QED
      BY <1>1, <1>2, <2>1, <3>1 DEF Fits
  <2>3. (~overlapped /\ Alone(invoked[r]) /\ MarkedOnce) => (Alone(m)' /\ MarkedOnce')
    <3> SUFFICES ASSUME Alone(invoked[r]), MarkedOnce PROVE Alone(m)' /\ MarkedOnce'
      OBVIOUS
    <3>1. s = snapshot /\ record[o].state = "pending"
      BY <1>1, <1>2 DEF Alone
    <3>2. new => restarts[o] = 0
      BY <1>3 DEF MarkedOnce
    <3>3. Alone(m)'
      BY <1>4, <1>10, <1>13, <2>1, <3>1, <3>2 DEF Alone
    <3> QED
      BY <1>7, <1>10, <3>3 DEF MarkedOnce
  <2> QED
    BY <1>1, <1>2, <1>8, <1>10, <1>11, <1>13, <2>1, <2>2, <2>3, CommandKeeps
<1> QED
  BY <1>9, <1>12, <1>13

\* restart, after its marker.
LEMMA RestartKeeps == ASSUME HostInv, NEW r \in HostRuns, RestartProcess(r) PROVE HostInv'
<1>1. /\ JournalInv /\ MachineInv /\ invoked[r].stage = "marked" /\ invoked[r] # IdleRun
      /\ invoked[r].stage \in Committed
  BY StageLive DEF HostInv, RestartProcess, Committed
<1>2. PICK o \in HostOps, s \in Snapshots :
        invoked[r].op = o /\ invoked[r].mem = s /\ Conn(o) \in HostConns
  BY <1>1, RunShape
<1> DEFINE c == Conn(o)
<1>3. /\ UNCHANGED <<journalVars, activeCred, sent, runnable, overlapped, hostFaults>>
      /\ \/ /\ mark' = IF unit[c] = "running" THEN [mark EXCEPT ![o] = "completed"] ELSE mark
            /\ crashLoop' = [crashLoop EXCEPT ![c] = @ \/ unit[c] = "failed"]
            /\ Observed(r, unit[c], "applied")
            /\ UNCHANGED <<unit, restarts>>
         \/ /\ Give(r)
            /\ UNCHANGED <<unit, crashLoop, mark, restarts>>
         \/ /\ unit' = [unit EXCEPT ![c] = IF @ = "running" THEN "off" ELSE @]
            /\ crashLoop' = [crashLoop EXCEPT ![c] = TRUE]
            /\ Observed(r, "failed", "applied")
            /\ UNCHANGED <<mark, restarts>>
         \/ /\ invoked[r].new
            /\ restarts' = [restarts EXCEPT ![o] = @ + 1]
            /\ \E u \in Launched :
                  /\ unit' = [unit EXCEPT ![c] = u]
                  /\ mark' = IF u = "running" THEN [MovedMarks(c) EXCEPT ![o] = "completed"]
                             ELSE MovedMarks(c)
                  /\ crashLoop' = [crashLoop EXCEPT ![c] = @ \/ u = "failed"]
                  /\ Observed(r, u, "applied")
  BY <1>2 DEF RestartProcess, IssuesRestart
<1>4. /\ unit \in [HostConns -> Units] /\ crashLoop \in [HostConns -> BOOLEAN]
      /\ mark \in [HostOps -> Marks] /\ restarts \in [HostOps -> Nat] /\ MachineRows
  BY <1>1 DEF JournalInv, MachineRows
<1>5. unit' \in [HostConns -> Units] /\ \A d \in HostConns : d # c => unit'[d] = unit[d]
  <2>1. \/ unit' = unit
        \/ \E u \in Units : unit' = [unit EXCEPT ![c] = u]
    <3>1. (IF unit[c] = "running" THEN "off" ELSE unit[c]) \in Units /\ Launched \subseteq Units
      BY <1>2, <1>4 DEF Units, Launched
    <3>2. \/ unit' = unit
          \/ unit' = [unit EXCEPT ![c] = IF unit[c] = "running" THEN "off" ELSE unit[c]]
          \/ \E u \in Launched : unit' = [unit EXCEPT ![c] = u]
      BY <1>3
    <3> QED
      BY <3>1, <3>2
  <2> QED
    BY <1>2, <1>4, <2>1
<1>6. crashLoop' \in [HostConns -> BOOLEAN]
  <2>1. \/ crashLoop' = crashLoop
        \/ \E b \in BOOLEAN : crashLoop' = [crashLoop EXCEPT ![c] = b]
    <3>1. /\ (crashLoop[c] \/ unit[c] = "failed") \in BOOLEAN /\ TRUE \in BOOLEAN
          /\ \A u \in Launched : (crashLoop[c] \/ u = "failed") \in BOOLEAN
      OBVIOUS
    <3>2. \/ crashLoop' = crashLoop
          \/ crashLoop' = [crashLoop EXCEPT ![c] = crashLoop[c] \/ unit[c] = "failed"]
          \/ crashLoop' = [crashLoop EXCEPT ![c] = TRUE]
          \/ \E u \in Launched : crashLoop' = [crashLoop EXCEPT ![c] = crashLoop[c] \/ u = "failed"]
      BY <1>3, Zenon
    <3> QED
      BY <3>1, <3>2, Zenon
  <2> QED
    BY <1>4, <2>1
<1>7. /\ mark' \in [HostOps -> Marks]
      /\ \A p \in HostOps : mark'[p] = "none" => mark[p] = "none"
  <2>1. \/ mark' = mark \/ mark' = [mark EXCEPT ![o] = "completed"]
        \/ mark' = MovedMarks(c) \/ mark' = [MovedMarks(c) EXCEPT ![o] = "completed"]
    BY <1>3
  <2> HIDE DEF c
  <2>2. /\ MovedMarks(c) \in [HostOps -> Marks]
        /\ \A p \in HostOps : MovedMarks(c)[p] = "none" <=> mark[p] = "none"
    BY <1>4, MarksMove
  <2> QED
    BY <1>4, <2>1, <2>2 DEF Marks
<1>8. \/ restarts' = restarts
      \/ invoked[r].new /\ restarts' = [restarts EXCEPT ![o] = restarts[o] + 1]
  BY <1>3
<1>9. MachineRows'
  <2>1. restarts' \in [HostOps -> Nat]
    BY <1>4, <1>8
  <2> QED
    BY <1>3, <1>4, <1>5, <1>6, <1>7, <2>1 DEF MachineRows
<1>10. PICK obs : Give(r) \/ Observed(r, obs, "applied")
  BY <1>3
<1>11. PICK x \in RunRow :
        /\ invoked' = [invoked EXCEPT ![r] = x] /\ Fits(x)
        /\ \/ x = IdleRun
           \/ x = [stage |-> "complete", op |-> o, mem |-> s, obs |-> obs, disp |-> "applied"]
  BY <1>1, <1>2, <1>10, ObservedFits, IdleFits DEF Give
<1>12. /\ UNCHANGED <<journalVars, sent, overlapped>> /\ activeCred' = activeCred
       /\ record' = record /\ snapshot' = snapshot /\ overlapped' = overlapped
       /\ UNCHANGED <<journalVars, sent>>
  BY <1>3 DEF journalVars
<1> HIDE DEF c
<1>13. JournalInv'
  BY <1>1, <1>9, <1>11, <1>12, JournalQuiet
<1>14. ASSUME ~overlapped
       PROVE  Alone(x)' /\ OffUnlessStarting' /\ CredUnlessChanging' /\ MarkedOnce'
  <2>1. Alone(invoked[r]) /\ OffUnlessStarting /\ CredUnlessChanging /\ MarkedOnce
    BY <1>1, <1>14, SerialRun
  <2>2. /\ Kind(o) = "restart" /\ mark[o] # "none" /\ (invoked[r].new => restarts[o] = 0)
        /\ o \in PendingOps
    BY <1>1, <1>2, <2>1, CommittedPending DEF Alone
  <2>3. /\ Kind(o) \notin {"ensure", "stop", "remove", "prepare"}
        /\ Kind(o) \notin {"rotate", "prepare"} /\ Starts(o)
    BY <2>2 DEF Starts
  <2>4. Alone(x)'
    BY <1>1, <1>2, <1>11, <1>12, <2>1, <2>3, AppliedAlone
  <2>5. OffUnlessStarting'
    BY <1>5, <1>12, <2>1, <2>2, <2>3, OffKept DEF c
  <2>6. CredUnlessChanging'
    BY <1>12, <2>1, CredKept
  <2>7. MarkedOnce'
    <3>1. mark'[o] # "none"
      BY <1>7, <2>2
    <3> QED
      BY <1>4, <1>7, <1>8, <2>1, <2>2, <3>1 DEF MarkedOnce
  <2> QED
    BY <2>4, <2>5, <2>6, <2>7
<1>15. MachineInv'
  BY <1>1, <1>11, <1>12, <1>14, MachineQuiet
<1> QED
  BY <1>13, <1>15 DEF HostInv

\* rotate_credential.
LEMMA RotateKeeps == ASSUME HostInv, NEW r \in HostRuns, RotateCredential(r) PROVE HostInv'
<1>1. /\ JournalInv /\ invoked[r].stage \in {"apply", "reconcile"} /\ invoked[r] # IdleRun
      /\ invoked[r].stage \in Committed
  BY StageLive DEF HostInv, RotateCredential, Applies, Committed
<1>2. PICK o \in HostOps, s \in Snapshots :
        invoked[r].op = o /\ invoked[r].mem = s /\ Conn(o) \in HostConns
  BY <1>1, RunShape
<1>3. PICK obs :
        /\ Kind(o) = "rotate" /\ Observed(r, obs, "applied")
        /\ activeCred' = [activeCred EXCEPT ![Conn(o)] = HostOpOf[o].cred]
        /\ UNCHANGED <<journalVars, unit, crashLoop, mark, restarts, sent, runnable, overlapped,
                       hostFaults>>
  BY <1>2 DEF RotateCredential, Applies
<1>4. /\ activeCred' \in [HostConns -> Creds] /\ activeCred'[Conn(o)] = HostOpOf[o].cred
      /\ \A d \in HostConns : d # Conn(o) => activeCred'[d] = activeCred[d]
  <2>1. HostOpOf[o].cred \in Creds
    BY DEF Creds
  <2> QED
    BY <1>1, <1>2, <1>3, <2>1 DEF JournalInv, MachineRows
<1>5. MachineRows'
  BY <1>1, <1>3, <1>4 DEF JournalInv, MachineRows
<1>6. PICK x \in RunRow :
        /\ invoked' = [invoked EXCEPT ![r] = x] /\ Fits(x)
        /\ \/ x = IdleRun
           \/ x = [stage |-> "complete", op |-> o, mem |-> s, obs |-> obs, disp |-> "applied"]
  BY <1>1, <1>2, <1>3, ObservedFits
<1>7. /\ UNCHANGED <<journalVars, sent, overlapped>> /\ unit' = unit /\ mark' = mark
      /\ record' = record /\ snapshot' = snapshot /\ restarts' = restarts
  BY <1>3 DEF journalVars
<1>8. UnitsWithin(o) /\ CredsWithin(o, s)
  BY <1>3, <1>4, <1>7 DEF UnitsWithin, CredsWithin
<1>9. (~overlapped /\ Alone(invoked[r]) /\ MarkedOnce) => (Alone(x)' /\ MarkedOnce')
  <2> SUFFICES ASSUME Alone(invoked[r]), MarkedOnce PROVE Alone(x)' /\ MarkedOnce'
    OBVIOUS
  <2>1. Kind(o) \notin {"ensure", "stop", "remove", "prepare"}
    BY <1>3
  <2>2. Alone(x)'
    BY <1>1, <1>2, <1>4, <1>6, <1>7, <2>1, AppliedAlone
  <2> QED
    BY <1>7, <2>2 DEF MarkedOnce
<1> QED
  BY <1>1, <1>2, <1>5, <1>6, <1>7, <1>8, <1>9, CommandKeeps

\* LinuxBootstrapProvider::prepare.
LEMMA PrepareKeeps == ASSUME HostInv, NEW r \in HostRuns, PrepareMaterial(r) PROVE HostInv'
<1>1. /\ JournalInv /\ invoked[r].stage \in {"apply", "reconcile"} /\ invoked[r] # IdleRun
      /\ invoked[r].stage \in Committed
  BY StageLive DEF HostInv, PrepareMaterial, Applies, Committed
<1>2. PICK o \in HostOps, s \in Snapshots :
        invoked[r].op = o /\ invoked[r].mem = s /\ Conn(o) \in HostConns
  BY <1>1, RunShape
<1> DEFINE c == Conn(o)
           e == [stage |-> "complete", op |-> o, mem |-> s, obs |-> s.inst[c].obs,
                 disp |-> "expired"]
<1>3. /\ Kind(o) = "prepare"
      /\ UNCHANGED <<journalVars, mark, restarts, sent, runnable, overlapped, hostFaults>>
      /\ \/ /\ activeCred[c] # HostOpOf[o].cred
            /\ invoked' = [invoked EXCEPT ![r] = e]
            /\ UNCHANGED <<unit, crashLoop, activeCred>>
         \/ /\ unit' = [unit EXCEPT ![c] = "off"]
            /\ crashLoop' = [crashLoop EXCEPT ![c] = FALSE]
            /\ activeCred' = [activeCred EXCEPT ![c] = HostOpOf[o].cred]
            /\ Observed(r, "stopped", "applied") \/ Give(r)
  BY <1>2 DEF PrepareMaterial, Applies
<1>4. /\ UNCHANGED <<journalVars, sent, overlapped>> /\ mark' = mark /\ restarts' = restarts
      /\ record' = record /\ snapshot' = snapshot /\ MachineRows
  BY <1>1, <1>3 DEF journalVars, JournalInv
<1>5. CASE /\ activeCred[c] # HostOpOf[o].cred
           /\ invoked' = [invoked EXCEPT ![r] = e]
           /\ UNCHANGED <<unit, crashLoop, activeCred>>
  <2>1. MachineRows'
    BY <1>3, <1>4, <1>5 DEF MachineRows
  <2>2. /\ e \in RunRow /\ e.stage = "complete" /\ e.op = o /\ e.mem = s /\ e.disp = "expired"
        /\ e.stage \in Committed
    <3>1. s.inst[c].obs \in Observations
      BY <1>2 DEF Snapshots, InstanceRow
    <3> QED
      BY <3>1 DEF RunRow, CompleteRow, Dispositions, Committed
  <2> HIDE DEF e
  <2>3. Fits(e)
    <3>1. Fits(invoked[r])
      BY <1>1 DEF JournalInv
    <3> QED
      BY <1>1, <1>2, <2>2, <3>1 DEF Fits
  <2>4. UnitsWithin(o) /\ CredsWithin(o, s)
    BY <1>5 DEF UnitsWithin, CredsWithin
  <2>5. (~overlapped /\ Alone(invoked[r]) /\ MarkedOnce) => (Alone(e)' /\ MarkedOnce')
    <3> SUFFICES ASSUME Alone(invoked[r]), MarkedOnce PROVE Alone(e)' /\ MarkedOnce'
      OBVIOUS
    <3>1. s = snapshot /\ record[o].state = "pending"
      BY <1>1, <1>2 DEF Alone
    <3>2. Alone(e)'
      BY <1>3, <1>4, <1>5, <2>2, <3>1 DEF Alone
    <3> QED
      BY <1>4, <3>2 DEF MarkedOnce
  <2> QED
    BY <1>1, <1>2, <1>4, <1>5, <2>1, <2>2, <2>3, <2>4, <2>5, CommandKeeps
<1>6. CASE /\ unit' = [unit EXCEPT ![c] = "off"]
           /\ crashLoop' = [crashLoop EXCEPT ![c] = FALSE]
           /\ activeCred' = [activeCred EXCEPT ![c] = HostOpOf[o].cred]
           /\ Observed(r, "stopped", "applied") \/ Give(r)
  <2>1. /\ activeCred' \in [HostConns -> Creds] /\ activeCred'[c] = HostOpOf[o].cred
        /\ \A d \in HostConns : d # c => activeCred'[d] = activeCred[d]
    <3>1. HostOpOf[o].cred \in Creds
      BY DEF Creds
    <3> QED
      BY <1>2, <1>4, <1>6, <3>1 DEF MachineRows
  <2>2. /\ unit' \in [HostConns -> Units] /\ unit'[c] = "off"
        /\ \A d \in HostConns : unit'[d] \in {"off", unit[d]}
        /\ crashLoop' \in [HostConns -> BOOLEAN]
    BY <1>2, <1>4, <1>6 DEF MachineRows, Units
  <2>3. MachineRows'
    BY <1>3, <1>4, <2>1, <2>2 DEF MachineRows
  <2>4. PICK x \in RunRow :
          /\ invoked' = [invoked EXCEPT ![r] = x] /\ Fits(x)
          /\ \/ x = IdleRun
             \/ x = [stage |-> "complete", op |-> o, mem |-> s, obs |-> "stopped",
                     disp |-> "applied"]
    BY <1>1, <1>2, <1>6, ObservedFits, IdleFits DEF Give
  <2>5. UnitsWithin(o) /\ CredsWithin(o, s)
    BY <1>3, <2>1, <2>2 DEF UnitsWithin, CredsWithin
  <2>6. (~overlapped /\ Alone(invoked[r]) /\ MarkedOnce) => (Alone(x)' /\ MarkedOnce')
    <3> SUFFICES ASSUME Alone(invoked[r]), MarkedOnce PROVE Alone(x)' /\ MarkedOnce'
      OBVIOUS
    <3>1. unit'[Conn(o)] = "off" /\ activeCred'[Conn(o)] = HostOpOf[o].cred
      BY <2>1, <2>2
    <3> HIDE DEF c
    <3>2. Alone(x)'
      BY <1>1, <1>2, <1>4, <2>4, <3>1, AppliedAlone
    <3> QED
      BY <1>4, <3>2 DEF MarkedOnce
  <2> QED
    BY <1>1, <1>2, <1>4, <2>3, <2>4, <2>5, <2>6, CommandKeeps
<1> QED
  BY <1>3, <1>5, <1>6

\* LinuxBootstrapProvider::finalize.
LEMMA FinalizeKeeps == ASSUME HostInv, NEW r \in HostRuns, FinalizeMaterial(r) PROVE HostInv'
<1>1. /\ JournalInv /\ invoked[r].stage \in {"apply", "reconcile"} /\ invoked[r] # IdleRun
      /\ invoked[r].stage \in Committed
  BY StageLive DEF HostInv, FinalizeMaterial, Applies, Committed
<1>2. PICK o \in HostOps, s \in Snapshots :
        invoked[r].op = o /\ invoked[r].mem = s /\ Conn(o) \in HostConns
  BY <1>1, RunShape
<1>3. /\ Kind(o) = "finalize" /\ (Observed(r, "running", "applied") \/ Give(r))
      /\ UNCHANGED <<journalVars, machineVars, sent, runnable, overlapped, hostFaults>>
  BY <1>2 DEF FinalizeMaterial, Applies
<1>4. /\ UNCHANGED <<journalVars, sent, overlapped>> /\ mark' = mark /\ restarts' = restarts
      /\ record' = record /\ snapshot' = snapshot /\ unit' = unit /\ activeCred' = activeCred
      /\ MachineRows'
  BY <1>1, <1>3 DEF journalVars, machineVars, JournalInv, MachineRows
<1>5. PICK x \in RunRow :
        /\ invoked' = [invoked EXCEPT ![r] = x] /\ Fits(x)
        /\ \/ x = IdleRun
           \/ x = [stage |-> "complete", op |-> o, mem |-> s, obs |-> "running",
                   disp |-> "applied"]
  BY <1>1, <1>2, <1>3, ObservedFits, IdleFits DEF Give
<1>6. UnitsWithin(o) /\ CredsWithin(o, s)
  BY <1>4 DEF UnitsWithin, CredsWithin
<1>7. (~overlapped /\ Alone(invoked[r]) /\ MarkedOnce) => (Alone(x)' /\ MarkedOnce')
  <2> SUFFICES ASSUME Alone(invoked[r]), MarkedOnce PROVE Alone(x)' /\ MarkedOnce'
    OBVIOUS
  <2>1. /\ Kind(o) \notin {"ensure", "stop", "remove", "prepare"}
        /\ Kind(o) \notin {"rotate", "prepare"}
    BY <1>3
  <2>2. Alone(x)'
    BY <1>1, <1>2, <1>4, <1>5, <2>1, AppliedAlone
  <2> QED
    BY <1>4, <2>2 DEF MarkedOnce
<1> QED
  BY <1>1, <1>2, <1>4, <1>5, <1>6, <1>7, CommandKeeps

-----------------------------------------------------------------------------
(* Requests *)

\* An invocation that ends, or dies, with everything else as it was.
LEMMA GiveKeeps ==
    ASSUME HostInv, NEW r \in HostRuns, invoked[r] # IdleRun, Give(r),
           UNCHANGED <<journalVars, machineVars, sent, overlapped>>, MachineRows'
    PROVE  HostInv'
<1>1. /\ JournalInv /\ MachineInv /\ UNCHANGED <<journalVars, sent>>
      /\ overlapped' = overlapped /\ unit' = unit /\ activeCred' = activeCred
      /\ mark' = mark /\ restarts' = restarts /\ record' = record /\ snapshot' = snapshot
      /\ invoked' = [invoked EXCEPT ![r] = IdleRun]
  BY DEF HostInv, machineVars, journalVars, Give
<1>2. JournalInv'
  BY <1>1, IdleFits, JournalQuiet
<1>3. ASSUME ~overlapped
      PROVE  Alone(IdleRun)' /\ OffUnlessStarting' /\ CredUnlessChanging' /\ MarkedOnce'
  BY <1>1, <1>3, SerialRun, IdleFits, OffKept, CredKept DEF MarkedOnce
<1> QED
  BY <1>1, <1>2, <1>3, MachineQuiet DEF HostInv

\* A loaded invocation that goes on to another stage.
LEMMA StageKeeps ==
    ASSUME HostInv, NEW r \in HostRuns, invoked[r] # IdleRun, invoked[r] \in LoadedRow,
           NEW stage \in {"admit", "apply", "reconcile", "compensate"}, GoTo(r, stage),
           stage = "admit" => record[invoked[r].op].state # "done",
           stage # "admit" => record[invoked[r].op].state = "pending",
           stage = "compensate" => Starts(invoked[r].op),
           UNCHANGED <<journalVars, machineVars, sent, runnable, overlapped, hostFaults>>
    PROVE  HostInv'
<1>1. /\ JournalInv /\ MachineInv /\ UNCHANGED <<journalVars, sent>>
      /\ overlapped' = overlapped /\ unit' = unit /\ activeCred' = activeCred
      /\ mark' = mark /\ restarts' = restarts /\ record' = record /\ snapshot' = snapshot
  BY DEF HostInv, machineVars, journalVars
<1>2. PICK o \in HostOps, s \in Snapshots : invoked[r].op = o /\ invoked[r].mem = s
  BY DEF LoadedRow
<1>3. PICK x \in RunRow :
        /\ invoked' = [invoked EXCEPT ![r] = x] /\ Fits(x)
        /\ x = [stage |-> stage, op |-> o, mem |-> s]
  BY <1>1, <1>2, GoToFits
<1>4. MachineRows'
  BY <1>1 DEF JournalInv, MachineRows, machineVars
<1>5. JournalInv'
  BY <1>1, <1>3, <1>4, JournalQuiet
<1>6. ASSUME ~overlapped
      PROVE  Alone(x)' /\ OffUnlessStarting' /\ CredUnlessChanging' /\ MarkedOnce'
  <2>1. Alone(invoked[r]) /\ OffUnlessStarting /\ CredUnlessChanging /\ MarkedOnce
    BY <1>1, <1>6, SerialRun
  <2>2. x.stage = stage /\ x.op = o /\ x.mem = s
    BY <1>3
  <2>3. Alone(x)'
    BY <1>1, <1>2, <2>1, <2>2 DEF Alone, Committed
  <2> QED
    BY <1>1, <2>1, <2>3, OffKept, CredKept DEF MarkedOnce
<1> QED
  BY <1>1, <1>3, <1>5, <1>6, MachineQuiet DEF HostInv

\* A command the catalog does not allow any more.
LEMMA NotAllowedKeeps == ASSUME HostInv, NEW r \in HostRuns, NotAllowed(r) PROVE HostInv'
<1>1. /\ invoked[r] # IdleRun /\ Give(r)
      /\ UNCHANGED <<journalVars, machineVars, sent, overlapped>>
  BY StageLive DEF NotAllowed
<1>2. MachineRows'
  BY DEF NotAllowed, HostInv, JournalInv, MachineRows, machineVars
<1> QED
  BY <1>1, <1>2, GiveKeeps

\* A unit that is still failed after it was told to stop.
LEMMA StopFailsKeeps == ASSUME HostInv, NEW r \in HostRuns, StopFails(r) PROVE HostInv'
<1>1. /\ invoked[r] # IdleRun /\ Give(r)
      /\ UNCHANGED <<journalVars, machineVars, sent, overlapped>>
  BY StageLive DEF StopFails, Applies
<1>2. MachineRows'
  BY DEF StopFails, HostInv, JournalInv, MachineRows, machineVars
<1> QED
  BY <1>1, <1>2, GiveKeeps

\* An invocation dies.
LEMMA RunDiesKeeps == ASSUME HostInv, NEW r \in HostRuns, RunDies(r) PROVE HostInv'
<1>1. /\ invoked[r] # IdleRun /\ Give(r)
      /\ UNCHANGED <<journalVars, machineVars, sent, overlapped>>
  BY DEF RunDies
<1>2. hostFaults' \in 0 .. MaxHostFaults
  BY HostConstants DEF RunDies, Fault, HostInv, JournalInv, MachineRows
<1>3. MachineRows'
  BY <1>2 DEF RunDies, HostInv, JournalInv, MachineRows, machineVars
<1> QED
  BY <1>1, <1>3, GiveKeeps

\* lookup, without an answer.
LEMMA LookUpStages ==
    ASSUME HostInv, NEW r \in HostRuns, LookUp(r), answers' = answers
    PROVE  HostInv'
<1>1. /\ JournalInv /\ invoked[r].stage = "loaded" /\ invoked[r] # IdleRun
      /\ invoked[r] \in LoadedRow
  BY StageLive, RunShape DEF LookUp, HostInv
<1>2. /\ UNCHANGED <<journalVars, machineVars, sent, runnable, overlapped, hostFaults>>
      /\ UNCHANGED <<journalVars, machineVars, sent, overlapped>>
  BY DEF LookUp, journalVars
<1>3. MachineRows'
  BY <1>1, <1>2 DEF JournalInv, MachineRows, machineVars
<1>4. CASE Give(r)
  BY <1>1, <1>2, <1>3, <1>4, GiveKeeps
<1>5. CASE record[invoked[r].op].state # "done" /\ GoTo(r, "admit")
  BY <1>1, <1>2, <1>5, StageKeeps
<1>6. CASE /\ record[invoked[r].op].state = "pending"
           /\ \/ Starts(invoked[r].op) /\ GoTo(r, "compensate")
              \/ GoTo(r, "reconcile")
  BY <1>1, <1>2, <1>6, StageKeeps
<1> QED
  BY <1>4, <1>5, <1>6 DEF LookUp

\* An invocation that ends with the outcome that is recorded.
LEMMA AnswerKeeps ==
    ASSUME HostInv, NEW r \in HostRuns, invoked[r] # IdleRun, Give(r),
           NEW o \in HostOps, record[o].state = "done",
           answers' = [answers EXCEPT ![o] = @ \cup {record[o].outcome}],
           UNCHANGED <<record, snapshot, machineVars, sent, runnable, overlapped, hostFaults>>
    PROVE  HostInv'
<1>1. /\ JournalInv /\ MachineInv /\ record' = record /\ snapshot' = snapshot /\ sent' = sent
      /\ overlapped' = overlapped /\ unit' = unit /\ activeCred' = activeCred
      /\ mark' = mark /\ restarts' = restarts
      /\ invoked' = [invoked EXCEPT ![r] = IdleRun]
  BY DEF HostInv, machineVars, Give
<1>2. MachineRows'
  BY <1>1 DEF JournalInv, MachineRows, machineVars
<1>3. AnswersTold'
  <2>1. record[o].outcome \in Outcomes /\ AnswersTold
    BY <1>1 DEF JournalInv, Chain
  <2>2. /\ answers' \in [HostOps -> SUBSET Outcomes]
        /\ \A p \in HostOps : \A a \in answers'[p] :
              a \in answers[p] \/ (p = o /\ a = record[o].outcome)
    BY <2>1 DEF AnswersTold
  <2> QED
    BY <1>1, <2>1, <2>2 DEF AnswersTold
<1>4. JournalInv'
  BY <1>1, <1>2, <1>3, IdleFits, JournalStill
<1>5. ASSUME ~overlapped
      PROVE  Alone(IdleRun)' /\ OffUnlessStarting' /\ CredUnlessChanging' /\ MarkedOnce'
  BY <1>1, <1>5, SerialRun, IdleFits, OffKept, CredKept DEF MarkedOnce
<1> QED
  BY <1>1, <1>4, <1>5, MachineQuiet DEF HostInv

\* lookup.
LEMMA LookUpKeeps == ASSUME HostInv, NEW r \in HostRuns, LookUp(r) PROVE HostInv'
<1>1. JournalInv /\ invoked[r] # IdleRun
  BY StageLive DEF LookUp, HostInv
<1>2. invoked[r].op \in HostOps
  BY <1>1, RunShape
<1>3. CASE answers' = answers
  BY <1>3, LookUpStages
<1>4. CASE answers' # answers
  <2>1. /\ record[invoked[r].op].state = "done" /\ Give(r)
        /\ answers' = [answers EXCEPT ![invoked[r].op] = @ \cup {record[invoked[r].op].outcome}]
        /\ UNCHANGED <<record, snapshot, machineVars, sent, runnable, overlapped, hostFaults>>
    BY <1>4 DEF LookUp
  <2> QED
    BY <1>1, <1>2, <2>1, AnswerKeeps
<1> QED
  BY <1>3, <1>4

\* The operations that moved the host are at most all of them.
LEMMA RevisionBounded ==
    ASSUME JournalInv
    PROVE  /\ IsFiniteSet(Moved) /\ Cardinality(HostOps) \in Nat
           /\ snapshot.rev \in 0 .. Cardinality(HostOps)
<1>1. Moved \subseteq HostOps
  BY DEF Moved
<1>2. /\ IsFiniteSet(Moved) /\ Cardinality(Moved) <= Cardinality(HostOps)
      /\ Cardinality(HostOps) \in Nat /\ Cardinality(Moved) \in Nat
  BY <1>1, HostConstants, FS_Subset, FS_CardinalityType
<1> QED
  BY <1>2 DEF JournalInv, Chain

\* load_snapshot.
LEMMA LoadKeeps == ASSUME HostInv, NEW r \in HostRuns, NEW o \in HostOps, LoadHost(r, o) PROVE HostInv'
<1>1. PICK s \in Snapshots : s = snapshot
  BY DEF HostInv, JournalInv, JournalRows
<1> DEFINE x == [stage |-> "loaded", op |-> o, mem |-> s]
<1>2. /\ JournalInv /\ MachineInv /\ invoked[r] = IdleRun
      /\ sent' = IF sent[o] = NotSent THEN [sent EXCEPT ![o] = snapshot.rev] ELSE sent
      /\ invoked' = [invoked EXCEPT ![r] = x]
      /\ overlapped' = (overlapped \/ \E q \in HostRuns \ {r} : invoked[q] # IdleRun)
      /\ record' = record /\ snapshot' = snapshot /\ answers' = answers /\ unit' = unit
      /\ crashLoop' = crashLoop /\ activeCred' = activeCred /\ mark' = mark
      /\ restarts' = restarts /\ runnable' = runnable /\ hostFaults' = hostFaults
  BY <1>1 DEF LoadHost, HostInv, journalVars, machineVars
<1>3. /\ sent \in [HostOps -> NotSent .. Cardinality(HostOps)] /\ PendingHere /\ Chain
      /\ AnswersTold /\ JournalRows /\ MachineRows
  BY <1>2 DEF JournalInv, JournalRows
<1>4. /\ Cardinality(HostOps) \in Nat /\ snapshot.rev \in 0 .. Cardinality(HostOps)
  BY <1>2, RevisionBounded
<1>5. /\ sent' \in [HostOps -> NotSent .. Cardinality(HostOps)] /\ sent'[o] # NotSent
      /\ \A p \in HostOps : sent[p] # NotSent => sent'[p] = sent[p]
  BY <1>2, <1>3, <1>4 DEF NotSent
<1>6. /\ x \in RunRow /\ x.op = o /\ x.mem = s /\ x.stage = "loaded"
  BY DEF RunRow, LoadedRow
<1> HIDE DEF x
<1>7. invoked' \in [HostRuns -> RunRow]
      /\ \A q \in HostRuns : invoked'[q] = IF q = r THEN x ELSE invoked[q]
  BY <1>2, <1>3, <1>6 DEF JournalRows
<1>8. JournalRows' /\ AnswersTold' /\ MachineRows'
  <2>1. overlapped' \in BOOLEAN
    BY <1>2
  <2> QED
    BY <1>2, <1>3, <1>5, <1>7, <2>1 DEF JournalRows, AnswersTold, MachineRows
<1>9. PendingHere' /\ Chain'
  <2>1. \A p \in HostOps : record[p].state # "none" => sent'[p] = sent[p]
    BY <1>3, <1>5 DEF Chain
  <2>2. Moved' = Moved /\ \A p \in Moved : p \in HostOps /\ sent'[p] = sent[p]
    BY <1>2, <2>1 DEF Moved
  <2>3. {sent'[p] + 1 : p \in Moved} = {sent[p] + 1 : p \in Moved}
    BY <2>2
  <2>4. PendingHere'
    BY <1>2, <1>3, <2>1 DEF PendingHere
  <2>5. Chain'
    BY <1>2, <1>3, <2>1, <2>2, <2>3 DEF Chain
  <2> QED
    BY <2>4, <2>5
<1>10. ASSUME NEW q \in HostRuns PROVE Fits(invoked[q])'
  <2>1. CASE q = r
    <3>1. snapshot.rev <= snapshot.rev
      BY <1>4
    <3> QED
      BY <1>1, <1>2, <1>5, <1>6, <1>7, <2>1, <3>1 DEF Fits
  <2>2. CASE q # r /\ invoked[q] # IdleRun
    <3>1. Fits(invoked[q]) /\ invoked[q].op \in HostOps /\ invoked'[q] = invoked[q]
      BY <1>2, <1>7, <2>2, RunShape DEF JournalInv
    <3> QED
      BY <1>2, <1>5, <2>2, <3>1 DEF Fits
  <2> QED
    BY <1>7, <2>1, <2>2 DEF Fits
<1>11. MachineInv'
  <2> SUFFICES ASSUME ~overlapped'
               PROVE  /\ \A q \in HostRuns : RunAlone(q)'
                      /\ OffUnlessStarting' /\ CredUnlessChanging' /\ MarkedOnce'
    BY DEF MachineInv
  <2>1. ~overlapped /\ \A q \in HostRuns \ {r} : invoked'[q] = IdleRun
    BY <1>2, <1>7
  <2>2. OffUnlessStarting' /\ CredUnlessChanging' /\ MarkedOnce'
    BY <1>2, <2>1, OffKept, CredKept DEF MachineInv, MarkedOnce
  <2>3. ASSUME NEW q \in HostRuns PROVE RunAlone(q)'
    <3>1. CASE q # r
      BY <2>1, <3>1 DEF RunAlone
    <3>2. CASE q = r
      <4>1. invoked'[q] = x /\ Others(q)'
        BY <1>7, <2>1, <3>2 DEF Others
      <4>2. Alone(invoked[q])'
        BY <1>1, <1>2, <1>6, <4>1 DEF Alone, Committed
      <4> QED
        BY <4>1, <4>2 DEF RunAlone
    <3> QED
      BY <3>1, <3>2
  <2> QED
    BY <2>2, <2>3
<1> QED
  BY <1>8, <1>9, <1>10, <1>11 DEF HostInv, JournalInv

-----------------------------------------------------------------------------
(* The journal *)

\* No command is resolved for a Connector that was removed.
LEMMA ResolvesLive ==
    ASSUME NEW s, NEW o, Kind(o) \in CommandKinds, Resolves(s, o)
    PROVE  s.inst[Conn(o)].desired # "removed"
BY DEF Resolves, CommandKinds, Starts

\* persist_intent.
LEMMA AdmitKeeps == ASSUME HostInv, NEW r \in HostRuns, AdmitIntent(r) PROVE HostInv'
<1>1. /\ JournalInv /\ MachineInv /\ invoked[r].stage = "admit" /\ invoked[r] # IdleRun
  BY StageLive DEF AdmitIntent, HostInv
<1>2. PICK o \in HostOps, s \in Snapshots :
        /\ invoked[r].op = o /\ invoked[r].mem = s /\ Kind(o) \in CommandKinds
        /\ invoked[r] \in LoadedRow
  BY <1>1, RunShape
<1>3. /\ snapshot' = snapshot /\ answers' = answers /\ sent' = sent /\ overlapped' = overlapped
      /\ unit' = unit /\ activeCred' = activeCred /\ mark' = mark /\ restarts' = restarts
      /\ MachineRows' /\ UNCHANGED <<machineVars, sent, overlapped>>
  BY <1>1 DEF AdmitIntent, machineVars, JournalInv, MachineRows
<1>4. CASE record' = record /\ Give(r)
  <2>1. UNCHANGED <<journalVars, machineVars, sent, overlapped>>
    BY <1>3, <1>4 DEF journalVars
  <2> QED
    BY <1>1, <1>3, <1>4, <2>1, GiveKeeps
<1>5. CASE /\ Resolves(s, o) /\ Persists(s, o) /\ record[o].state # "done"
           /\ record' = [record EXCEPT ![o] = [state |-> "pending", outcome |-> <<>>]]
           /\ GoTo(r, "apply")
  <2>1. /\ s.rev = sent[o] /\ s = snapshot /\ PendingOps \subseteq {o}
        /\ s.inst[Conn(o)].desired # "removed"
    BY <1>2, <1>5, ResolvesLive DEF Persists
  <2>2. /\ record \in [HostOps -> RecordRow] /\ JournalRows /\ PendingHere /\ Chain /\ AnswersTold
    BY <1>1 DEF JournalInv, JournalRows
  <2>3. /\ record' \in [HostOps -> RecordRow] /\ record'[o].state = "pending"
        /\ \A p \in HostOps : p # o => record'[p] = record[p]
    BY <1>5, <2>2 DEF RecordRow
  <2>4. PICK x \in RunRow :
          /\ invoked' = [invoked EXCEPT ![r] = x] /\ Fits(x)
          /\ x = [stage |-> "apply", op |-> o, mem |-> s]
    BY <1>1, <1>2, <1>5, GoToFits
  <2>5. invoked' \in [HostRuns -> RunRow]
        /\ \A q \in HostRuns : invoked'[q] = IF q = r THEN x ELSE invoked[q]
    BY <2>2, <2>4 DEF JournalRows
  <2>6. JournalRows'
    BY <1>3, <2>2, <2>3, <2>5 DEF JournalRows
  <2>7. PendingHere'
    BY <1>3, <2>1, <2>2, <2>3 DEF PendingHere, PendingOps
  <2>8. Chain' /\ AnswersTold'
    <3>1. Moved' = Moved
      BY <1>5, <2>3 DEF Moved
    <3>2. sent[o] # NotSent
      BY <1>1, <1>2 DEF JournalInv, Fits
    <3>3. \A p \in Moved : record'[p] = record[p]
      BY <1>5, <2>3 DEF Moved
    <3>4. Chain'
      BY <1>3, <2>2, <2>3, <3>1, <3>2, <3>3 DEF Chain
    <3>5. AnswersTold'
      BY <1>3, <1>5, <2>2, <2>3 DEF AnswersTold
    <3> QED
      BY <3>4, <3>5
  <2>9. ASSUME NEW q \in HostRuns PROVE Fits(invoked[q])'
    <3>1. Fits(invoked'[q])
      BY <1>1, <2>4, <2>5 DEF JournalInv
    <3> QED
      BY <1>3, <3>1 DEF Fits
  <2>10. JournalInv'
    BY <1>3, <2>6, <2>7, <2>8, <2>9 DEF JournalInv
  <2>11. ASSUME ~overlapped
         PROVE  Alone(x)' /\ OffUnlessStarting' /\ CredUnlessChanging' /\ MarkedOnce'
    <3>1. OffUnlessStarting /\ CredUnlessChanging /\ MarkedOnce
      BY <1>1, <2>11, SerialRun
    <3>2. PendingOps \subseteq PendingOps'
      BY <2>3 DEF PendingOps
    <3>3. x.op = o /\ x.mem = s /\ x.stage = "apply"
      BY <2>4
    <3>4. Alone(x)'
      BY <1>3, <2>1, <2>3, <3>3 DEF Alone
    <3>5. OffUnlessStarting' /\ CredUnlessChanging'
      BY <1>3, <3>1, <3>2 DEF OffUnlessStarting, CredUnlessChanging
    <3> QED
      BY <1>3, <3>1, <3>4, <3>5 DEF MarkedOnce
  <2>12. MachineInv'
    BY <1>1, <1>3, <2>4, <2>11, MachineQuiet
  <2> QED
    BY <2>10, <2>12 DEF HostInv
<1>6. CASE record[o].state = "done" /\ record' = record /\ GoTo(r, "apply")
  <2>1. UNCHANGED <<journalVars, sent>>
    BY <1>3, <1>6 DEF journalVars
  <2>2. PICK x \in RunRow :
          /\ invoked' = [invoked EXCEPT ![r] = x] /\ Fits(x)
          /\ x = [stage |-> "apply", op |-> o, mem |-> s]
    BY <1>1, <1>2, <1>6, GoToFits
  <2>3. JournalInv'
    BY <1>1, <1>3, <2>1, <2>2, JournalQuiet
  <2>4. overlapped
    <3>1. ASSUME ~overlapped PROVE Alone(invoked[r])
      BY <1>1, <3>1, SerialRun
    <3> QED
      BY <1>1, <1>2, <1>6, <3>1 DEF Alone
  <2> QED
    BY <1>3, <2>3, <2>4 DEF HostInv, MachineInv
<1> QED
  BY <1>2, <1>4, <1>5, <1>6 DEF AdmitIntent

\* The instance a completed intent leaves: it fits, and it is stopped or has another
\* credential only as its operation says.
LEMMA InstanceFits ==
    ASSUME NEW i \in InstanceRow, ObservationFits(i), i.desired # "removed",
           NEW o \in HostOps, NEW obs \in Observations, NEW disp \in {"applied", "blocked"},
           NEW s, i = s.inst[Conn(o)], disp = "applied" => ObservationValid(s, o, obs),
           NEW j, j = InstanceAfter(i, o, obs, disp)
    PROVE  /\ j \in InstanceRow /\ ObservationFits(j)
           /\ j.desired \in {"ensured", "stopped", "removed"} =>
                 \/ disp = "blocked" \/ Kind(o) \in {"ensure", "stop", "remove", "prepare"}
                 \/ ~Starts(o) /\ j.desired = i.desired
           /\ j.cred = IF disp = "applied" /\ Kind(o) \in {"rotate", "prepare"}
                       THEN HostOpOf[o].cred ELSE i.cred
<1>1. Kind(o) \in CommandKinds
  BY HostConstants DEF Kind
<1>2. ASSUME NEW d \in Desires, NEW b \in Observations, j = [i EXCEPT !.desired = d, !.obs = b]
      PROVE  j \in InstanceRow /\ j.desired = d /\ j.obs = b /\ j.cred = i.cred
  BY <1>2 DEF InstanceRow
<1>3. CASE disp = "blocked"
  <2>1. j = [i EXCEPT !.desired = "stopped", !.obs = "stopped"]
    BY <1>3 DEF InstanceAfter
  <2>2. "stopped" \in Desires /\ "stopped" \in Observations
    BY DEF Desires, Observations
  <2> QED
    BY <1>2, <1>3, <2>1, <2>2 DEF ObservationFits
<1>4. CASE disp = "applied" /\ Kind(o) = "ensure"
  <2>1. j = [i EXCEPT !.desired = "ensured", !.obs = obs] /\ obs = "stopped"
    BY <1>4 DEF InstanceAfter, ObservationValid, Starts
  <2> QED
    BY <1>2, <1>4, <2>1 DEF Desires, ObservationFits
<1>5. CASE disp = "applied" /\ Kind(o) \in {"start", "restart"}
  <2>1. j = [i EXCEPT !.desired = "running", !.obs = obs] /\ obs \in {"running", "failed"}
    BY <1>5 DEF InstanceAfter, ObservationValid, Starts
  <2> QED
    BY <1>2, <1>5, <2>1 DEF Desires, ObservationFits
<1>6. CASE disp = "applied" /\ Kind(o) = "stop"
  <2>1. j = [i EXCEPT !.desired = "stopped", !.obs = obs] /\ obs = "stopped"
    BY <1>6 DEF InstanceAfter, ObservationValid, Starts
  <2> QED
    BY <1>2, <1>6, <2>1 DEF Desires, ObservationFits
<1>7. CASE disp = "applied" /\ Kind(o) = "remove"
  <2>1. j = [i EXCEPT !.desired = "removed", !.obs = obs] /\ obs = "absent"
    BY <1>7 DEF InstanceAfter, ObservationValid, Starts
  <2> QED
    BY <1>2, <1>7, <2>1 DEF Desires, ObservationFits
<1>8. CASE disp = "applied" /\ Kind(o) = "rotate"
  <2>1. j = [i EXCEPT !.gen = @ + 1, !.cred = HostOpOf[o].cred, !.obs = obs]
        /\ (IF i.desired = "running" THEN obs \in {"running", "failed"} ELSE obs = "stopped")
    BY <1>8 DEF InstanceAfter, ObservationValid, Starts
  <2>2. HostOpOf[o].cred \in Creds
    BY DEF Creds
  <2>3. /\ j \in InstanceRow /\ j.desired = i.desired /\ j.obs = obs
        /\ j.cred = HostOpOf[o].cred
    <3>1. PICK g \in Nat : g = i.gen + 1
      BY DEF InstanceRow
    <3>2. j = [i EXCEPT !.gen = g, !.cred = HostOpOf[o].cred, !.obs = obs]
      BY <2>1, <3>1
    <3>3. j = [desired |-> i.desired, obs |-> obs, gen |-> g, cred |-> HostOpOf[o].cred,
               install |-> i.install]
      BY <3>2, Zenon DEF InstanceRow
    <3> QED
      BY <2>2, <3>3 DEF InstanceRow
  <2>4. i.desired \in {"none", "ensured", "stopped", "running"}
    BY DEF InstanceRow, Desires
  <2> QED
    BY <1>8, <2>1, <2>3, <2>4 DEF ObservationFits, Starts
<1>9. CASE disp = "applied" /\ Kind(o) = "prepare"
  <2>1. j = [desired |-> "ensured", obs |-> "stopped", gen |-> PlanGeneration,
             cred |-> HostOpOf[o].cred, install |-> "prepared"]
    BY <1>9 DEF InstanceAfter, Starts
  <2>2. HostOpOf[o].cred \in Creds /\ PlanGeneration \in Nat
    BY HostConstants DEF Creds
  <2> QED
    BY <1>9, <2>1, <2>2 DEF InstanceRow, Desires, Observations, Installs, ObservationFits
<1>10. CASE disp = "applied" /\ Kind(o) = "finalize"
  <2>1. j = [i EXCEPT !.install = "finalized"]
    BY <1>10 DEF InstanceAfter, Starts
  <2>2. /\ j \in InstanceRow /\ j.desired = i.desired /\ j.obs = i.obs /\ j.cred = i.cred
    BY <2>1 DEF InstanceRow, Installs
  <2> QED
    BY <1>10, <2>2 DEF ObservationFits, Starts
<1> QED
  BY <1>1, <1>3, <1>4, <1>5, <1>6, <1>7, <1>8, <1>9, <1>10 DEF CommandKinds

\* The snapshot a completed intent leaves.
LEMMA SnapshotFits ==
    ASSUME NEW s \in Snapshots, \A c \in HostConns : ObservationFits(s.inst[c]),
           NEW o \in HostOps, s.inst[Conn(o)].desired # "removed",
           NEW obs \in Observations, NEW disp \in Dispositions,
           disp = "applied" => ObservationValid(s, o, obs),
           NEW t, t = AfterIntent(s, o, obs, disp)
    PROVE  /\ t \in Snapshots /\ \A c \in HostConns : ObservationFits(t.inst[c])
           /\ OutcomeOf(t, o, disp) \in Outcomes
           /\ OutcomeOf(t, o, disp).disp = disp /\ OutcomeOf(t, o, disp).rev = t.rev
           /\ disp = "expired" => t = s
           /\ disp # "expired" =>
                 /\ t.rev = s.rev + 1
                 /\ \A c \in HostConns : c # Conn(o) => t.inst[c] = s.inst[c]
                 /\ t.inst[Conn(o)].desired \in {"ensured", "stopped", "removed"} =>
                       \/ disp = "blocked" \/ Kind(o) \in {"ensure", "stop", "remove", "prepare"}
                       \/ ~Starts(o) /\ t.inst[Conn(o)].desired = s.inst[Conn(o)].desired
                 /\ t.inst[Conn(o)].cred =
                       IF disp = "applied" /\ Kind(o) \in {"rotate", "prepare"}
                       THEN HostOpOf[o].cred ELSE s.inst[Conn(o)].cred
<1> DEFINE c == Conn(o)
<1>1. c \in HostConns
  BY HostConstants DEF Conn
<1>2. /\ s.rev \in Nat /\ s.inst \in [HostConns -> InstanceRow] /\ s.inst[c] \in InstanceRow
  BY <1>1 DEF Snapshots
<1>3. ASSUME t \in Snapshots
      PROVE  /\ OutcomeOf(t, o, disp) \in Outcomes
             /\ OutcomeOf(t, o, disp).disp = disp /\ OutcomeOf(t, o, disp).rev = t.rev
  <2>1. t.rev \in Nat /\ t.inst[c] \in InstanceRow
    BY <1>1, <1>3 DEF Snapshots
  <2> QED
    BY <2>1 DEF OutcomeOf, Outcomes, InstanceRow
<1>4. CASE disp = "expired"
  BY <1>3, <1>4 DEF AfterIntent
<1>5. CASE disp # "expired"
  <2> DEFINE j == InstanceAfter(s.inst[c], o, obs, disp)
  <2>1. t = [rev |-> s.rev + 1, inst |-> [s.inst EXCEPT ![c] = j]]
    BY <1>5 DEF AfterIntent
  <2>2. disp \in {"applied", "blocked"}
    BY <1>5 DEF Dispositions
  <2> HIDE DEF j
  <2>3. /\ j \in InstanceRow /\ ObservationFits(j)
        /\ j.desired \in {"ensured", "stopped", "removed"} =>
              \/ disp = "blocked" \/ Kind(o) \in {"ensure", "stop", "remove", "prepare"}
              \/ ~Starts(o) /\ j.desired = s.inst[c].desired
        /\ j.cred = IF disp = "applied" /\ Kind(o) \in {"rotate", "prepare"}
                    THEN HostOpOf[o].cred ELSE s.inst[c].cred
    <3>1. s.inst[c].desired # "removed" /\ ObservationFits(s.inst[c])
      BY <1>1
    <3>2. j = InstanceAfter(s.inst[c], o, obs, disp)
      BY DEF j
    <3> QED
      BY <1>2, <2>2, <3>1, <3>2, InstanceFits
  <2> HIDE DEF c
  <2>4. /\ t.rev = s.rev + 1 /\ t.inst[c] = j
        /\ \A d \in HostConns : d # c => t.inst[d] = s.inst[d]
        /\ t \in Snapshots
    BY <1>1, <1>2, <2>1, <2>3 DEF Snapshots
  <2>5. \A d \in HostConns : ObservationFits(t.inst[d])
    BY <2>3, <2>4
  <2> QED
    BY <1>3, <1>5, <2>3, <2>4, <2>5 DEF c
<1> QED
  BY <1>4, <1>5

\* What complete writes: the receipt and the next snapshot in one step.
Writes(o, t, w) ==
    /\ record' = [record EXCEPT ![o] = [state |-> "done", outcome |-> w]]
    /\ snapshot' = t
    /\ answers' = [answers EXCEPT ![o] = @ \cup {w}]

\* The journal after complete has written.
LEMMA WriteKeepsJournal ==
    ASSUME JournalInv, NEW r \in HostRuns, Give(r), NEW o \in HostOps, NEW s \in Snapshots,
           record[o].state = "pending", snapshot = s, s.inst[Conn(o)].desired # "removed",
           NEW t \in Snapshots, \A c \in HostConns : ObservationFits(t.inst[c]),
           NEW w \in Outcomes, w.rev = t.rev,
           IF w.disp = "expired" THEN t = s ELSE t.rev = s.rev + 1,
           Writes(o, t, w), UNCHANGED sent, MachineRows'
    PROVE  JournalInv' /\ PendingOps' = {}
<1>1. /\ record \in [HostOps -> RecordRow] /\ sent \in [HostOps -> NotSent .. Cardinality(HostOps)]
      /\ invoked \in [HostRuns -> RunRow] /\ PendingHere /\ Chain /\ AnswersTold
  BY DEF JournalInv, JournalRows
<1>2. /\ record' \in [HostOps -> RecordRow] /\ record'[o] = [state |-> "done", outcome |-> w]
      /\ \A p \in HostOps : p # o => record'[p] = record[p]
  BY <1>1 DEF Writes, RecordRow
<1>3. record'[o].state = "done" /\ record'[o].outcome = w
  BY <1>2
<1>4. /\ invoked' \in [HostRuns -> RunRow]
      /\ \A q \in HostRuns : invoked'[q] = IF q = r THEN IdleRun ELSE invoked[q]
  BY <1>1, IdleFits DEF Give
<1>5. JournalRows'
  BY <1>1, <1>2, <1>4 DEF JournalRows, Writes
<1>6. \A p \in HostOps : record'[p].state # "pending"
  BY <1>1, <1>2, <1>3 DEF PendingHere
<1>7. PendingHere' /\ PendingOps' = {}
  BY <1>6 DEF PendingHere, PendingOps
<1>8. AnswersTold'
  <2>1. answers \in [HostOps -> SUBSET Outcomes] /\ answers[o] = {}
    BY <1>1 DEF AnswersTold
  <2>2. /\ answers' \in [HostOps -> SUBSET Outcomes] /\ answers'[o] = {w}
        /\ \A p \in HostOps : p # o => answers'[p] = answers[p]
    BY <2>1 DEF Writes
  <2> QED
    BY <1>1, <1>2, <1>3, <2>2 DEF AnswersTold
<1>9. Chain'
  <2>1. \A p \in HostOps : record'[p].state # "none" => sent'[p] # NotSent
    BY <1>1, <1>2 DEF Chain
  <2>2. \A p \in HostOps : record'[p].state = "done" => record'[p].outcome \in Outcomes
    BY <1>1, <1>2, <1>3 DEF Chain
  <2>3. o \notin Moved /\ \A p \in Moved : p \in HostOps /\ record'[p] = record[p]
    BY <1>2 DEF Moved
  <2>4. CASE w.disp = "expired"
    <3>1. Moved' = Moved
      BY <1>2, <1>3, <2>4 DEF Moved
    <3>2. snapshot' = snapshot
      BY <2>4 DEF Writes
    <3> QED
      BY <1>1, <2>1, <2>2, <2>3, <3>1, <3>2 DEF Chain
  <2>5. CASE w.disp # "expired"
    <3>1. Moved' = Moved \cup {o}
      BY <1>2, <1>3, <2>5 DEF Moved
    <3>2. /\ s.rev \in Nat /\ snapshot'.rev = s.rev + 1 /\ w.rev = s.rev + 1
          /\ sent[o] = s.rev
      BY <1>1, <2>5 DEF Writes, PendingHere, Snapshots
    <3>3. \A p \in Moved' : record'[p].outcome.rev = sent'[p] + 1
      BY <1>1, <1>3, <2>3, <3>1, <3>2 DEF Chain
    <3>4. {sent'[p] + 1 : p \in Moved'} = 1 .. snapshot'.rev
      <4>1. {sent'[p] + 1 : p \in Moved'} = {sent[p] + 1 : p \in Moved} \cup {sent[o] + 1}
        BY <3>1
      <4>2. {sent[p] + 1 : p \in Moved} = 1 .. s.rev
        BY <1>1 DEF Chain
      <4>3. (1 .. s.rev) \cup {s.rev + 1} = 1 .. (s.rev + 1)
        BY <3>2
      <4> QED
        BY <3>2, <4>1, <4>2, <4>3
    <3>5. Cardinality(Moved') = snapshot'.rev
      <4>1. IsFiniteSet(Moved) /\ Cardinality(Moved) = s.rev
        BY <1>1, RevisionBounded DEF Chain
      <4>2. Cardinality(Moved \cup {o}) = Cardinality(Moved) + 1
        BY <2>3, <4>1, FS_AddElement
      <4> QED
        BY <3>1, <3>2, <4>1, <4>2
    <3> QED
      BY <2>1, <2>2, <3>3, <3>4, <3>5 DEF Chain
  <2> QED
    BY <2>4, <2>5
<1>10. ASSUME NEW q \in HostRuns PROVE Fits(invoked[q])'
  <2>1. CASE invoked'[q] = IdleRun
    BY <2>1 DEF Fits
  <2>2. CASE invoked'[q] # IdleRun
    <3>1. invoked'[q] = invoked[q] /\ invoked[q] # IdleRun
      BY <1>4, <2>2
    <3>2. Fits(invoked[q]) /\ invoked[q].mem \in Snapshots
      BY <3>1, RunShape DEF JournalInv
    <3>3. /\ invoked[q].mem.rev \in Nat /\ s.rev \in Nat /\ invoked[q].mem.rev <= s.rev
          /\ invoked[q].mem.rev = s.rev => invoked[q].mem = s
      BY <3>1, <3>2 DEF Fits, Snapshots
    <3>4. invoked[q].mem.rev <= t.rev /\ (invoked[q].mem.rev = t.rev => invoked[q].mem = t)
      BY <3>3
    <3> QED
      BY <3>1, <3>2, <3>4 DEF Fits, Writes
  <2> QED
    BY <2>1, <2>2
<1> QED
  BY <1>5, <1>7, <1>8, <1>9, <1>10 DEF JournalInv

\* complete.
LEMMA CompleteKeeps == ASSUME HostInv, NEW r \in HostRuns, CompleteIntent(r) PROVE HostInv'
<1>1. /\ JournalInv /\ MachineInv /\ invoked[r].stage = "complete" /\ invoked[r] # IdleRun
      /\ invoked[r] \in CompleteRow
  BY StageLive, RunShape DEF CompleteIntent, HostInv
<1>2. PICK o \in HostOps, s \in Snapshots, obs \in Observations, disp \in Dispositions :
        /\ invoked[r].op = o /\ invoked[r].mem = s /\ invoked[r].obs = obs
        /\ invoked[r].disp = disp
  BY <1>1 DEF CompleteRow
<1>3. PICK t : t = AfterIntent(s, o, obs, disp)
  OBVIOUS
<1>4. PICK w : w = OutcomeOf(t, o, disp)
  OBVIOUS
<1>5. /\ Give(r) /\ UNCHANGED <<machineVars, sent, runnable, overlapped, hostFaults>>
      /\ UNCHANGED <<machineVars, sent, overlapped>>
      /\ \/ record[o].state = "pending" /\ snapshot = s /\ Writes(o, t, w)
         \/ /\ record[o].state = "done" /\ record[o].outcome = w
            /\ answers' = [answers EXCEPT ![o] = @ \cup {w}]
            /\ UNCHANGED <<record, snapshot>>
         \/ UNCHANGED journalVars
  BY <1>2, <1>3, <1>4 DEF CompleteIntent, SameReceipt, Writes
<1>6. /\ MachineRows' /\ overlapped' = overlapped /\ unit' = unit /\ activeCred' = activeCred
      /\ mark' = mark /\ restarts' = restarts /\ sent' = sent
  BY <1>1, <1>5 DEF JournalInv, MachineRows, machineVars
<1>7. CASE UNCHANGED journalVars
  <2>1. UNCHANGED <<journalVars, machineVars, sent, overlapped>>
    BY <1>5, <1>7
  <2> QED
    BY <1>1, <1>5, <1>6, <2>1, GiveKeeps
<1>8. CASE /\ record[o].state = "done" /\ record[o].outcome = w
           /\ answers' = [answers EXCEPT ![o] = @ \cup {w}]
           /\ UNCHANGED <<record, snapshot>>
  <2>1. /\ answers' = [answers EXCEPT ![o] = @ \cup {record[o].outcome}]
        /\ UNCHANGED <<record, snapshot, machineVars, sent, runnable, overlapped, hostFaults>>
    BY <1>5, <1>8
  <2> QED
    BY <1>1, <1>5, <1>8, <2>1, AnswerKeeps
<1>9. CASE record[o].state = "pending" /\ snapshot = s /\ Writes(o, t, w)
  <2>1. /\ s.inst[Conn(o)].desired # "removed" /\ PendingHere
        /\ \A c \in HostConns : ObservationFits(s.inst[c])
    BY <1>1, <1>9 DEF JournalInv, JournalRows, PendingHere
  <2>2. disp = "applied" => ObservationValid(s, o, obs)
    <3>1. Fits(invoked[r])
      BY <1>1 DEF JournalInv
    <3> QED
      BY <1>1, <1>2, <3>1 DEF Fits
  <2>3. /\ t \in Snapshots /\ \A c \in HostConns : ObservationFits(t.inst[c])
        /\ w \in Outcomes /\ w.disp = disp /\ w.rev = t.rev
        /\ disp = "expired" => t = s
        /\ disp # "expired" => t.rev = s.rev + 1
    BY <1>3, <1>4, <2>1, <2>2, SnapshotFits
  <2>4. disp # "expired" =>
          /\ \A c \in HostConns : c # Conn(o) => t.inst[c] = s.inst[c]
          /\ t.inst[Conn(o)].desired \in {"ensured", "stopped", "removed"} =>
                \/ disp = "blocked" \/ Kind(o) \in {"ensure", "stop", "remove", "prepare"}
                \/ ~Starts(o) /\ t.inst[Conn(o)].desired = s.inst[Conn(o)].desired
          /\ t.inst[Conn(o)].cred =
                IF disp = "applied" /\ Kind(o) \in {"rotate", "prepare"}
                THEN HostOpOf[o].cred ELSE s.inst[Conn(o)].cred
    BY <1>3, <2>1, <2>2, SnapshotFits
  <2>5. JournalInv' /\ PendingOps' = {}
    <3>1. IF w.disp = "expired" THEN t = s ELSE t.rev = s.rev + 1
      BY <2>3
    <3> QED
      BY <1>1, <1>5, <1>6, <1>9, <2>1, <2>3, <3>1, WriteKeepsJournal
  <2>6. ASSUME ~overlapped
        PROVE  Alone(IdleRun)' /\ OffUnlessStarting' /\ CredUnlessChanging' /\ MarkedOnce'
    <3>1. Alone(invoked[r]) /\ OffUnlessStarting /\ CredUnlessChanging /\ MarkedOnce
      BY <1>1, <2>6, SerialRun
    <3>2. /\ disp = "blocked" => (Starts(o) /\ unit[Conn(o)] = "off")
          /\ disp = "expired" => /\ Kind(o) = "prepare"
                                 /\ activeCred[Conn(o)] # HostOpOf[o].cred
          /\ disp = "applied" =>
                /\ Kind(o) \in {"ensure", "stop", "remove", "prepare"} => unit[Conn(o)] = "off"
                /\ Kind(o) \in {"rotate", "prepare"} => activeCred[Conn(o)] = HostOpOf[o].cred
      BY <1>1, <1>2, <3>1 DEF Alone
    <3>3. \A p \in PendingOps : p = o
      BY <1>9, <2>1 DEF PendingOps, PendingHere
    <3>4. snapshot' = t /\ disp \in {"applied", "blocked", "expired"}
          /\ (Starts(o) <=> Kind(o) \in {"start", "restart"})
      BY <1>9 DEF Writes, Dispositions, Starts
    <3>5. ASSUME NEW c \in HostConns,
                 t.inst[c].desired \in {"ensured", "stopped", "removed"}
          PROVE  unit[c] = "off"
      <4>1. \/ s.inst[c].desired \notin {"ensured", "stopped", "removed"}
            \/ unit[c] = "off" \/ (Starts(o) /\ Conn(o) = c)
        BY <1>9, <3>1, <3>3 DEF OffUnlessStarting
      <4>2. CASE disp = "expired"
        BY <2>3, <3>2, <3>4, <3>5, <4>1, <4>2
      <4>3. CASE disp # "expired" /\ c # Conn(o)
        BY <2>4, <3>5, <4>1, <4>3
      <4>4. CASE disp # "expired" /\ c = Conn(o)
        BY <2>4, <3>2, <3>4, <3>5, <4>1, <4>4
      <4> QED
        BY <4>2, <4>3, <4>4
    <3>6. ASSUME NEW c \in HostConns
          PROVE  t.inst[c].desired = "removed" \/ activeCred[c] = t.inst[c].cred
      <4>1. \/ s.inst[c].desired = "removed" \/ activeCred[c] = s.inst[c].cred
            \/ /\ Kind(o) \in {"rotate", "prepare"} /\ Conn(o) = c
               /\ activeCred[c] = HostOpOf[o].cred
        BY <1>9, <3>1, <3>3 DEF CredUnlessChanging
      <4>2. CASE disp = "expired"
        BY <2>3, <3>2, <4>1, <4>2
      <4>3. CASE disp # "expired" /\ c # Conn(o)
        BY <2>4, <4>1, <4>3
      <4>4. CASE disp # "expired" /\ c = Conn(o)
        BY <2>1, <2>4, <3>2, <3>4, <4>1, <4>4
      <4> QED
        BY <4>2, <4>3, <4>4
    <3>7. OffUnlessStarting' /\ CredUnlessChanging'
      BY <1>6, <3>4, <3>5, <3>6 DEF OffUnlessStarting, CredUnlessChanging
    <3> QED
      BY <1>6, <3>1, <3>7, IdleFits DEF MarkedOnce
  <2>7. MachineInv'
    <3>1. invoked' = [invoked EXCEPT ![r] = IdleRun]
      BY <1>5 DEF Give
    <3> QED
      BY <1>1, <1>6, <2>6, <3>1, MachineQuiet
  <2> QED
    BY <2>5, <2>7 DEF HostInv
<1> QED
  BY <1>5, <1>7, <1>8, <1>9

-----------------------------------------------------------------------------
(* Faults, and the theorems *)

\* The service manager and the catalog move on their own.
LEMMA OutsideKeeps ==
    ASSUME HostInv, UNCHANGED <<record, snapshot, answers, sent, invoked, overlapped>>,
           MachineRows', activeCred' = activeCred, restarts' = restarts,
           \A c \in HostConns : unit[c] = "off" => unit'[c] = "off",
           \A o \in HostOps : mark'[o] = "none" <=> mark[o] = "none"
    PROVE  HostInv'
<1>1. JournalInv /\ MachineInv /\ JournalRows
  BY DEF HostInv, JournalInv
<1>2. JournalInv'
  <2>1. Moved' = Moved
    BY DEF Moved
  <2>2. JournalRows' /\ PendingHere' /\ Chain' /\ AnswersTold'
    BY <1>1, <2>1 DEF JournalInv, JournalRows, PendingHere, Chain, AnswersTold
  <2>3. \A r \in HostRuns : Fits(invoked[r])'
    BY <1>1 DEF JournalInv, Fits
  <2> QED
    BY <2>2, <2>3 DEF JournalInv
<1>3. ASSUME ~overlapped PROVE OffUnlessStarting' /\ CredUnlessChanging' /\ MarkedOnce'
  BY <1>1, <1>3 DEF MachineInv, OffUnlessStarting, CredUnlessChanging, MarkedOnce, PendingOps
<1>4. ASSUME ~overlapped, NEW r \in HostRuns PROVE RunAlone(r)'
  <2>1. CASE invoked[r] = IdleRun
    BY <2>1 DEF RunAlone
  <2>2. CASE invoked[r] # IdleRun
    <3>1. Others(r) /\ Alone(invoked[r])
      BY <1>1, <1>4, <2>2, SerialRun
    <3>2. invoked[r].op \in HostOps /\ Conn(invoked[r].op) \in HostConns
      BY <1>1, <2>2, RunShape
    <3>3. Alone(invoked[r])' /\ Others(r)'
      BY <2>2, <3>1, <3>2 DEF Alone, Others
    <3> QED
      BY <3>3 DEF RunAlone
  <2> QED
    BY <2>1, <2>2
<1> QED
  BY <1>2, <1>3, <1>4 DEF HostInv, MachineInv

\* A process dies or is restarted, a unit settles, a release is withdrawn.
LEMMA FaultsKeep ==
    ASSUME HostInv,
           RevokeRelease \/ \E c \in HostConns : ProcessDies(c) \/ UnitSettles(c)
    PROVE  HostInv'
<1>1. MachineRows /\ hostFaults \in 0 .. MaxHostFaults
  BY DEF HostInv, JournalInv, MachineRows
<1>2. CASE RevokeRelease
  <2>1. /\ UNCHANGED <<record, snapshot, answers, sent, invoked, overlapped>>
        /\ unit' = unit /\ crashLoop' = crashLoop /\ activeCred' = activeCred /\ mark' = mark
        /\ restarts' = restarts /\ runnable' = FALSE
        /\ hostFaults' = hostFaults + 1 /\ hostFaults < MaxHostFaults
    BY <1>2 DEF RevokeRelease, Fault, journalVars, machineVars
  <2>2. hostFaults' \in 0 .. MaxHostFaults
    BY <1>1, <2>1, HostConstants
  <2>3. MachineRows'
    BY <1>1, <2>1, <2>2 DEF MachineRows
  <2> QED
    BY <2>1, <2>3, OutsideKeeps
<1>3. ASSUME NEW c \in HostConns, ProcessDies(c) \/ UnitSettles(c) PROVE HostInv'
  <2>1. PICK u \in {"failed", "off", "starting", "running"} :
          /\ unit' = [unit EXCEPT ![c] = u] /\ unit[c] # "off"
          /\ mark' = MovedMarks(c) \/ mark' = mark
    BY <1>3 DEF ProcessDies, UnitSettles
  <2>2. /\ UNCHANGED <<record, snapshot, answers, sent, invoked, overlapped>>
        /\ crashLoop' = crashLoop /\ activeCred' = activeCred /\ restarts' = restarts
        /\ runnable' = runnable /\ overlapped' = overlapped
    BY <1>3 DEF ProcessDies, UnitSettles, journalVars
  <2>3. hostFaults' \in 0 .. MaxHostFaults
    BY <1>1, <1>3, HostConstants DEF ProcessDies, UnitSettles, Fault
  <2>4. /\ unit' \in [HostConns -> Units]
        /\ \A d \in HostConns : unit[d] = "off" => unit'[d] = "off"
    BY <1>1, <2>1 DEF MachineRows, Units
  <2>5. /\ mark' \in [HostOps -> Marks]
        /\ \A o \in HostOps : mark'[o] = "none" <=> mark[o] = "none"
    BY <1>1, <2>1, MarksMove DEF MachineRows
  <2>6. MachineRows'
    BY <1>1, <2>2, <2>3, <2>4, <2>5 DEF MachineRows
  <2> QED
    BY <2>2, <2>4, <2>5, <2>6, OutsideKeeps
<1> QED
  BY <1>2, <1>3

\* A host no supervisor has been invoked on.
LEMMA InitHost == HostInit => HostInv
<1> SUFFICES ASSUME HostInit PROVE HostInv
  OBVIOUS
<1>1. NoCred \in Creds /\ NoRecord \in RecordRow /\ IdleRun \in RunRow
  BY DEF Creds, NoRecord, RecordRow, RunRow
<1>2. NoInstance \in InstanceRow /\ ObservationFits(NoInstance)
  BY <1>1 DEF NoInstance, InstanceRow, Desires, Observations, Installs, ObservationFits
<1>3. /\ snapshot \in Snapshots /\ snapshot.rev = 0
      /\ \A c \in HostConns : snapshot.inst[c] = NoInstance
  BY <1>2 DEF HostInit, Snapshots
<1>4. Cardinality(HostOps) \in Nat
  BY HostConstants, FS_CardinalityType
<1>5. JournalRows
  BY <1>1, <1>2, <1>3, <1>4 DEF HostInit, JournalRows, NotSent
<1>6. MachineRows
  <2>1. /\ unit \in [HostConns -> Units] /\ activeCred \in [HostConns -> Creds]
        /\ mark \in [HostOps -> Marks] /\ restarts \in [HostOps -> Nat]
        /\ hostFaults \in 0 .. MaxHostFaults
    BY <1>1, HostConstants DEF HostInit, Units, Marks
  <2>2. /\ crashLoop \in [HostConns -> BOOLEAN]
        /\ runnable \in BOOLEAN /\ overlapped \in BOOLEAN
    BY DEF HostInit
  <2> QED
    BY <2>1, <2>2 DEF MachineRows
<1>7. \A o \in HostOps : record[o].state = "none"
  BY DEF HostInit, NoRecord
<1>8. PendingHere /\ AnswersTold
  BY <1>7 DEF PendingHere, AnswersTold, HostInit
<1>9. Chain
  <2>1. Moved = {}
    BY <1>7 DEF Moved
  <2>2. Cardinality(Moved) = 0 /\ 1 .. 0 = {}
    BY <2>1, FS_EmptySet
  <2> QED
    BY <1>3, <1>7, <2>1, <2>2 DEF Chain
<1>10. \A r \in HostRuns : invoked[r] = IdleRun
  BY DEF HostInit
<1>11. MachineInv
  <2>1. \A r \in HostRuns : RunAlone(r)
    BY <1>10 DEF RunAlone
  <2>2. OffUnlessStarting /\ CredUnlessChanging /\ MarkedOnce
    BY <1>3 DEF HostInit, OffUnlessStarting, CredUnlessChanging, MarkedOnce, NoInstance
  <2> QED
    BY <2>1, <2>2 DEF MachineInv
<1> QED
  BY <1>5, <1>6, <1>8, <1>9, <1>10, <1>11 DEF HostInv, JournalInv, Fits

\* Every step of the supervisor, the service manager and the catalog keeps the invariant.
LEMMA HostStep == HostInv /\ [HostNext]_hostVars => HostInv'
<1> SUFFICES ASSUME HostInv, [HostNext]_hostVars PROVE HostInv'
  OBVIOUS
<1>1. ASSUME NEW r \in HostRuns, NEW o \in HostOps, LoadHost(r, o) PROVE HostInv'
  BY <1>1, LoadKeeps
<1>2. ASSUME NEW r \in HostRuns,
             \/ LookUp(r) \/ AdmitIntent(r) \/ CompleteIntent(r) \/ NotAllowed(r)
             \/ StopFails(r) \/ RunDies(r)
      PROVE  HostInv'
  BY <1>2, LookUpKeeps, AdmitKeeps, CompleteKeeps, NotAllowedKeeps, StopFailsKeeps,
     RunDiesKeeps
<1>3. ASSUME NEW r \in HostRuns,
             \/ BringDown(r) \/ CompensateStart(r) \/ StartProcess(r) \/ RestartMarked(r)
             \/ RestartProcess(r) \/ RotateCredential(r) \/ PrepareMaterial(r)
             \/ FinalizeMaterial(r)
      PROVE  HostInv'
  BY <1>3, BringDownKeeps, CompensateKeeps, StartKeeps, MarkKeeps, RestartKeeps, RotateKeeps,
     PrepareKeeps, FinalizeKeeps
<1>4. CASE RevokeRelease \/ \E c \in HostConns : ProcessDies(c) \/ UnitSettles(c)
  BY <1>4, FaultsKeep
<1>5. CASE UNCHANGED hostVars
  <2>1. /\ UNCHANGED <<record, snapshot, answers, sent, invoked, overlapped>>
        /\ activeCred' = activeCred /\ restarts' = restarts /\ unit' = unit /\ mark' = mark
    BY <1>5 DEF hostVars
  <2>2. MachineRows'
    BY <1>5 DEF hostVars, HostInv, JournalInv, MachineRows
  <2> QED
    BY <2>1, <2>2, OutsideKeeps
<1> QED
  BY <1>1, <1>2, <1>3, <1>4, <1>5 DEF HostNext

\* The inductive invariant of the host supervisor: the chain of the journal, what overlapping
\* invocations hold of it, and the machine when there is one invocation at a time.
THEOREM HostSafety == HostSpec => []HostInv
BY InitHost, HostStep, PTL DEF HostSpec

\* For any Connectors, operations and invocations, the journal is one chain of operations with
\* one outcome each and a snapshot every load accepts, although invocations overlap and die
\* between any two of its calls (persist_intent, complete, restore_completed).
THEOREM HostJournal == HostSpec => []JournalSound
<1>1. HostInv => JournalSound
  <2> SUFFICES ASSUME HostInv PROVE JournalSound
    OBVIOUS
  <2>1. JournalInv /\ JournalRows /\ MachineRows /\ PendingHere /\ Chain /\ AnswersTold
    BY DEF HostInv, JournalInv
  <2>2. HostTypeOK
    <3>1. snapshot.rev \in 0 .. Cardinality(HostOps)
      BY <2>1, RevisionBounded
    <3> QED
      BY <2>1, <3>1 DEF HostTypeOK, JournalRows, MachineRows, RecordRow, Snapshots, InstanceRow,
                       Installs
  <2>3. JournalSerial
    <3>1. Cardinality(PendingOps) <= 1
      <4>1. CASE PendingOps = {}
        BY <4>1, FS_EmptySet
      <4>2. CASE PendingOps # {}
        <5>1. PICK o \in PendingOps : PendingOps = {o}
          BY <2>1, <4>2 DEF PendingHere, PendingOps
        <5> QED
          BY <5>1, FS_Singleton
      <4> QED
        BY <4>1, <4>2
    <3> QED
      BY <2>1, <3>1 DEF JournalSerial, Chain, Moved
  <2>4. AnswersAgree
    <3> SUFFICES ASSUME NEW o \in HostOps PROVE Cardinality(answers[o]) <= 1
      BY DEF AnswersAgree
    <3>1. CASE answers[o] = {}
      BY <3>1, FS_EmptySet
    <3>2. CASE answers[o] # {}
      <4>1. PICK a : answers[o] = {a}
        BY <2>1, <3>2 DEF AnswersTold
      <4>2. Cardinality({a}) = 1
        BY FS_Singleton
      <4> QED
        BY <4>1, <4>2
    <3> QED
      BY <3>1, <3>2
  <2> QED
    BY <2>2, <2>3, <2>4 DEF JournalSound
<1> QED
  BY <1>1, HostSafety, PTL

\* When invocations do not overlap, the machine is what the journal says between operations and
\* a restart is issued at most once, however often invocations and processes die and whenever
\* the release is withdrawn (reconcile_policy_blocked_start, rotate_credential, restart).
THEOREM HostMachine == HostSpec => []MachineAgrees
<1>1. HostInv => MachineAgrees
  <2> SUFFICES ASSUME HostInv PROVE MachineAgrees
    OBVIOUS
  <2>1. ~overlapped => (OffUnlessStarting /\ CredUnlessChanging /\ MarkedOnce)
    BY DEF HostInv, MachineInv
  <2>2. RecordedStopHolds /\ CredentialAgrees
    BY <2>1 DEF RecordedStopHolds, CredentialAgrees, OffUnlessStarting, CredUnlessChanging
  <2>3. RestartOnce
    BY <2>1 DEF RestartOnce, MarkedOnce
  <2> QED
    BY <2>2, <2>3 DEF MachineAgrees
<1> QED
  BY <1>1, HostSafety, PTL

=============================================================================
