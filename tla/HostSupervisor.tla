--------------------------- MODULE HostSupervisor ---------------------------
(***************************************************************************)
(* The Agent host supervisor: one invocation per request loads the journal *)
(* of the host, writes an intent, changes the process of a Connector and   *)
(* completes the intent together with the next snapshot                    *)
(* (crates/dtx-agent-host-supervisor, bins/dtx-agent-host-supervisor).     *)
(*                                                                         *)
(* Every call of the journal holds its lock and is one step; nothing holds *)
(* it between two calls, so an invocation may die, or another may run,     *)
(* anywhere in between.  The service manager and the release catalog are   *)
(* external.  Tenants, adapters, digests and file permissions are left     *)
(* out, and there is one release, which the catalog may stop allowing.     *)
(***************************************************************************)
EXTENDS Integers, FiniteSets

CONSTANTS
    HostConns,
    HostOps,        \* operation identifiers
    HostOpOf,       \* [kind, conn, cred] of an operation
    HostRuns,       \* invocations that may be alive together
    PlanGeneration, \* the credential generation of every install plan
    MaxHostFaults   \* bound: deaths of an invocation or of a process, and revocations

NoCred == "none"
CommandKinds == {"ensure", "start", "stop", "restart", "rotate", "remove", "prepare", "finalize"}

ASSUME HostConstants ==
    /\ IsFiniteSet(HostOps)
    /\ \A o \in HostOps : HostOpOf[o].kind \in CommandKinds /\ HostOpOf[o].conn \in HostConns
    /\ PlanGeneration \in Nat \ {0}
    /\ MaxHostFaults \in Nat

VARIABLES
    record,       \* the journal's record of each operation
    snapshot,     \* the journal's snapshot: a revision and the instances
    sent,         \* the revision the operator expects, fixed with the operation
    unit,         \* the process of each Connector, as the service manager sees it
    crashLoop,    \* the crash loop marker
    activeCred,   \* the credential file the process reads
    mark,         \* restart markers; "moved" once the unit has another invocation than the marker's
    runnable,     \* whether the catalog still lets the release start
    invoked,      \* the invocations of the supervisor
    answers,      \* history: outcomes reported for each operation
    restarts,     \* history: restarts issued for each operation
    overlapped,   \* history: whether two invocations were ever alive together
    hostFaults

hostVars == <<record, snapshot, sent, unit, crashLoop, activeCred, mark, runnable,
              invoked, answers, restarts, overlapped, hostFaults>>
machineVars == <<unit, crashLoop, activeCred, mark, restarts>>
journalVars == <<record, snapshot, answers>>

Kind(o) == HostOpOf[o].kind
Conn(o) == HostOpOf[o].conn

NoInstance == [desired |-> "none", obs |-> "absent", gen |-> 0, cred |-> NoCred, install |-> "none"]
NoRecord   == [state |-> "none", outcome |-> <<>>]
Marks      == {"none", "pending", "moved", "completed"}
IdleRun    == [stage |-> "idle"]
Units      == {"off", "starting", "running", "failed"}
NotSent     == -1

\* snapshot_observation_is_valid, which every load and every write of the journal asks for.
ObservationFits(i) ==
    \/ i.desired = "none"
    \/ i.desired \in {"ensured", "stopped"} /\ i.obs = "stopped"
    \/ i.desired = "running" /\ i.obs \in {"running", "failed"}
    \/ i.desired = "removed" /\ i.obs = "absent"

HostTypeOK ==
    /\ \A o \in HostOps : record[o].state \in {"none", "pending", "done"}
    /\ snapshot.rev \in 0 .. Cardinality(HostOps)
    /\ \A c \in HostConns :
          /\ ObservationFits(snapshot.inst[c])
          /\ snapshot.inst[c].install \in {"none", "prepared", "finalized"}
          /\ unit[c] \in Units /\ crashLoop[c] \in BOOLEAN
    /\ sent \in [HostOps -> NotSent .. Cardinality(HostOps)]
    /\ restarts \in [HostOps -> Nat] /\ mark \in [HostOps -> Marks]
    /\ runnable \in BOOLEAN /\ overlapped \in BOOLEAN
    /\ hostFaults \in 0 .. MaxHostFaults

HostInit ==
    /\ record = [o \in HostOps |-> NoRecord]
    /\ snapshot = [rev |-> 0, inst |-> [c \in HostConns |-> NoInstance]]
    /\ sent = [o \in HostOps |-> NotSent]
    /\ unit = [c \in HostConns |-> "off"]
    /\ crashLoop = [c \in HostConns |-> FALSE]
    /\ activeCred = [c \in HostConns |-> NoCred]
    /\ mark = [o \in HostOps |-> "none"]
    /\ runnable = TRUE
    /\ invoked = [r \in HostRuns |-> IdleRun]
    /\ answers = [o \in HostOps |-> {}]
    /\ restarts = [o \in HostOps |-> 0]
    /\ overlapped = FALSE
    /\ hostFaults = 0

-----------------------------------------------------------------------------
(* Requests and the journal. *)

\* handle_inner and handle_v2_inner: load_snapshot, then the install states.  A new
\* request names the revision the operator has seen, a retry repeats the whole request.
LoadHost(r, o) ==
    /\ invoked[r] = IdleRun
    /\ sent' = IF sent[o] = NotSent THEN [sent EXCEPT ![o] = snapshot.rev] ELSE sent
    /\ invoked' = [invoked EXCEPT ![r] = [stage |-> "loaded", op |-> o, mem |-> snapshot]]
    /\ overlapped' = (overlapped \/ \E q \in HostRuns \ {r} : invoked[q] # IdleRun)
    /\ UNCHANGED <<journalVars, machineVars, runnable, hostFaults>>

PendingOps == {o \in HostOps : record[o].state = "pending"}
Give(r) == invoked' = [invoked EXCEPT ![r] = IdleRun]
GoTo(r, stage) == invoked' = [invoked EXCEPT ![r].stage = stage]

IsInstall(o) == Kind(o) \in {"prepare", "finalize"}
Starts(o)    == Kind(o) \in {"start", "restart"}

\* lookup: a completed operation answers with its receipt (restore_completed,
\* restore_install_completed), a pending one is taken up again.
LookUp(r) ==
    LET o == invoked[r].op
    IN /\ invoked[r].stage = "loaded"
       /\ \/ /\ record[o].state = "done"
             /\ answers' = [answers EXCEPT ![o] = @ \cup {record[o].outcome}]
             /\ Give(r)
          \/ /\ record[o].state = "pending" /\ ~IsInstall(o)
             /\ IF invoked[r].mem.rev # sent[o] THEN Give(r)
                ELSE IF Starts(o) /\ ~runnable THEN GoTo(r, "compensate")
                ELSE GoTo(r, "reconcile")
             /\ UNCHANGED answers
          \/ /\ record[o].state = "none" \/ (record[o].state = "pending" /\ IsInstall(o))
             /\ GoTo(r, "admit")
             /\ UNCHANGED answers
       /\ UNCHANGED <<record, snapshot, machineVars, sent, runnable, overlapped, hostFaults>>

\* resolve_command, and the checks of the two install operations.
Resolves(s, o) ==
    LET i == s.inst[Conn(o)]
        usable == i.desired \notin {"none", "removed"}
        idle   == i.desired \notin {"removed", "running"}
    IN CASE Kind(o) = "ensure" -> idle /\ runnable
         [] Starts(o) -> usable /\ runnable /\ i.cred # NoCred
         [] Kind(o) \in {"stop", "remove"} -> usable
         [] Kind(o) = "rotate" ->
               usable /\ runnable /\ i.install = "none" /\ i.cred # HostOpOf[o].cred
         [] Kind(o) = "prepare" ->
               idle /\ i.install = "none" /\ (runnable \/ record[o].state = "pending")
         [] Kind(o) = "finalize" ->
               i.install = "prepared" /\ i.desired = "running" /\ unit[Conn(o)] = "running"

\* persist_intent compares the snapshot it was given with the file, and refuses a
\* second pending intent; it accepts the exact retry of a pending one, and that of a
\* completed one, whose predecessor had the same revision and was the same snapshot.
PersistsAnything(s, o) == s.rev = sent[o]
Persists(s, o) ==
    /\ s.rev = sent[o]
    /\ record[o].state = "done" \/ (s = snapshot /\ PendingOps \subseteq {o})

\* execute up to persist_intent.  Nothing is written between the check of the pending
\* operations and the write, which repeats it under the lock.
AdmitIntent(r) ==
    LET o == invoked[r].op
        s == invoked[r].mem
    IN /\ invoked[r].stage = "admit"
       /\ \/ /\ Resolves(s, o) /\ Persists(s, o)
             /\ record' = IF record[o].state = "done" THEN record
                          ELSE [record EXCEPT ![o] = [state |-> "pending", outcome |-> <<>>]]
             /\ GoTo(r, "apply")
          \/ /\ ~(Resolves(s, o) /\ Persists(s, o))
             /\ UNCHANGED record
             /\ Give(r)
       /\ UNCHANGED <<snapshot, answers, machineVars, sent, runnable, overlapped, hostFaults>>

\* What a completed intent makes of its Connector (apply_state, apply_policy_blocked_state,
\* and the staged state of the two install operations), and the snapshot with it.
InstanceAfter(i, o, obs, disp) ==
    IF disp = "blocked" THEN [i EXCEPT !.desired = "stopped", !.obs = "stopped"]
    ELSE CASE Kind(o) = "ensure" -> [i EXCEPT !.desired = "ensured", !.obs = obs]
           [] Starts(o) -> [i EXCEPT !.desired = "running", !.obs = obs]
           [] Kind(o) = "stop" -> [i EXCEPT !.desired = "stopped", !.obs = obs]
           [] Kind(o) = "remove" -> [i EXCEPT !.desired = "removed", !.obs = obs]
           [] Kind(o) = "rotate" ->
                 [i EXCEPT !.gen = @ + 1, !.cred = HostOpOf[o].cred, !.obs = obs]
           [] Kind(o) = "prepare" ->
                 [desired |-> "ensured", obs |-> "stopped", gen |-> PlanGeneration,
                  cred |-> HostOpOf[o].cred, install |-> "prepared"]
           [] Kind(o) = "finalize" -> [i EXCEPT !.install = "finalized"]

AfterIntent(s, o, obs, disp) ==
    IF disp = "expired" THEN s
    ELSE [rev |-> s.rev + 1,
          inst |-> [s.inst EXCEPT ![Conn(o)] = InstanceAfter(s.inst[Conn(o)], o, obs, disp)]]

\* The receipt of an operation (current_outcome_with_disposition).
OutcomeOf(s, o, disp) ==
    [disp |-> disp, rev |-> s.rev, desired |-> s.inst[Conn(o)].desired,
     obs |-> s.inst[Conn(o)].obs, gen |-> s.inst[Conn(o)].gen]

\* What the journal asks of a completion besides the shape that AfterIntent has: the
\* lifecycle precondition of every command but ensure is an existing instance, and a
\* finalize reports a running one (validate_lifecycle_transition, OperationReceipt).
TransitionValid(s, o, disp) ==
    disp # "expired" =>
        /\ Kind(o) # "ensure" => s.inst[Conn(o)].desired # "none"
        /\ Kind(o) = "finalize" => s.inst[Conn(o)].obs = "running"

\* A completion that was already written must be repeated exactly.
SameReceipt(o, outcome) == record[o].outcome = outcome

\* complete, and the answer to the operator.
CompleteIntent(r) ==
    LET o    == invoked[r].op
        s    == invoked[r].mem
        disp == invoked[r].disp
        next == AfterIntent(s, o, invoked[r].obs, disp)
        outcome == OutcomeOf(next, o, disp)
    IN /\ invoked[r].stage = "complete"
       /\ \/ /\ record[o].state = "pending" /\ snapshot = s /\ TransitionValid(s, o, disp)
             /\ record' = [record EXCEPT ![o] = [state |-> "done", outcome |-> outcome]]
             /\ snapshot' = next
             /\ answers' = [answers EXCEPT ![o] = @ \cup {outcome}]
          \/ /\ record[o].state = "done" /\ SameReceipt(o, outcome) /\ snapshot = next
             /\ answers' = [answers EXCEPT ![o] = @ \cup {outcome}]
             /\ UNCHANGED <<record, snapshot>>
          \/ /\ \/ record[o].state = "pending" /\ ~(snapshot = s /\ TransitionValid(s, o, disp))
                \/ record[o].state = "done" /\ ~(SameReceipt(o, outcome) /\ snapshot = next)
             /\ UNCHANGED journalVars
       /\ Give(r)
       /\ UNCHANGED <<machineVars, sent, runnable, overlapped, hostFaults>>

-----------------------------------------------------------------------------
(* The process controller. *)

\* The observation of a command must fit it (observation_is_valid); otherwise, and
\* after every error, the intent stays pending and the invocation ends.
ObservationValid(s, o, obs) ==
    CASE Kind(o) \in {"ensure", "stop", "prepare"} -> obs = "stopped"
      [] Starts(o) -> obs \in {"running", "failed"}
      [] Kind(o) = "remove" -> obs = "absent"
      [] Kind(o) = "finalize" -> obs = "running"
      [] Kind(o) = "rotate" -> IF s.inst[Conn(o)].desired = "running"
                               THEN obs \in {"running", "failed"} ELSE obs = "stopped"

Observed(r, obs, disp) ==
    invoked' = [invoked EXCEPT ![r] =
        IF ObservationValid(invoked[r].mem, invoked[r].op, obs)
        THEN [stage |-> "complete", op |-> invoked[r].op, mem |-> invoked[r].mem,
              obs |-> obs, disp |-> disp]
        ELSE IdleRun]

\* apply_intent: validate_intent at the expected revision.  A first attempt asks the
\* catalog again, a later one only where the command starts the process.
Applies(r, kinds) ==
    /\ invoked[r].stage \in {"apply", "reconcile"}
    /\ Kind(invoked[r].op) \in kinds
Allowed(r) ==
    \/ runnable
    \/ Kind(invoked[r].op) \in {"stop", "remove", "prepare", "finalize"}
    \/ invoked[r].stage = "reconcile" /\ ~Starts(invoked[r].op)

NotAllowed(r) ==
    /\ invoked[r].stage \in {"apply", "reconcile"} /\ ~Allowed(r)
    /\ Give(r)
    /\ UNCHANGED <<journalVars, machineVars, sent, runnable, overlapped, hostFaults>>

\* ensure, stop and remove_retaining_data leave no process and no crash loop marker.
BringDown(r) ==
    LET c == Conn(invoked[r].op)
    IN /\ Applies(r, {"ensure", "stop", "remove"}) /\ Allowed(r)
       /\ unit' = [unit EXCEPT ![c] = "off"]
       /\ crashLoop' = [crashLoop EXCEPT ![c] = FALSE]
       /\ Observed(r, IF Kind(invoked[r].op) = "remove" THEN "absent" ELSE "stopped", "applied")
       /\ UNCHANGED <<journalVars, activeCred, mark, restarts, sent, runnable,
                      overlapped, hostFaults>>

\* reconcile_policy_blocked_start: the process is stopped and the intent completed so.
KeepsUnit(c) == unit[c]
StopsUnit(c) == "off"
CompensateStart(r) ==
    LET c == Conn(invoked[r].op)
    IN /\ invoked[r].stage = "compensate"
       /\ unit' = [unit EXCEPT ![c] = StopsUnit(c)]
       /\ crashLoop' = [crashLoop EXCEPT ![c] = FALSE]
       /\ invoked' = [invoked EXCEPT ![r] =
             [stage |-> "complete", op |-> invoked[r].op, mem |-> invoked[r].mem,
              obs |-> "stopped", disp |-> "blocked"]]
       /\ UNCHANGED <<journalVars, activeCred, mark, restarts, sent, runnable,
                      overlapped, hostFaults>>

\* A failed unit may still be failed after it was told to stop: ensure, stop and the
\* compensation report an error and the intent stays pending.  (Removal resets it first.)
StopFails(r) ==
    /\ \/ Applies(r, {"ensure", "stop"}) /\ Allowed(r)
       \/ invoked[r].stage = "compensate"
    /\ unit[Conn(invoked[r].op)] = "failed"
    /\ Give(r)
    /\ UNCHANGED <<journalVars, machineVars, sent, runnable, overlapped, hostFaults>>

\* adopt_bootstrap_artifacts and verify_active_credential: the credential an
\* installed Connector has after them, and whether a start may go on with it.
RestoredCred(s, c) ==
    IF s.inst[c].install # "none" /\ unit[c] \in {"off", "failed"} THEN s.inst[c].cred
    ELSE activeCred[c]
CredentialReady(s, c) ==
    /\ RestoredCred(s, c) = s.inst[c].cred
    /\ s.inst[c].install # "none" => unit[c] # "starting"

\* What the service manager reports after it was told to start a unit.
Launched == {"starting", "running", "failed"}

\* A launch gives the unit a new invocation identifier: markers that wait see it.
MovedMarks(c) ==
    [o \in HostOps |-> IF Conn(o) = c /\ mark[o] = "pending" THEN "moved" ELSE mark[o]]

StartProcess(r) ==
    LET c == Conn(invoked[r].op)
        s == invoked[r].mem
    IN /\ Applies(r, {"start"}) /\ Allowed(r)
       /\ activeCred' = [activeCred EXCEPT ![c] = RestoredCred(s, c)]
       /\ \/ /\ ~CredentialReady(s, c) \/ crashLoop[c]
             /\ Give(r)
             /\ UNCHANGED <<unit, crashLoop, mark>>
          \/ /\ CredentialReady(s, c) /\ ~crashLoop[c]
             /\ \/ /\ unit[c] \in {"running", "failed"}
                   /\ Observed(r, unit[c], "applied")
                   /\ crashLoop' = [crashLoop EXCEPT ![c] = unit[c] = "failed"]
                   /\ UNCHANGED <<unit, mark>>
                \/ /\ unit[c] \in {"off", "starting"}
                   /\ \E u \in Launched :
                         /\ unit' = [unit EXCEPT ![c] = u]
                         /\ mark' = MovedMarks(c)
                         /\ crashLoop' = [crashLoop EXCEPT ![c] = u = "failed"]
                         /\ Observed(r, u, "applied")
       /\ UNCHANGED <<journalVars, restarts, sent, runnable, overlapped, hostFaults>>

\* restart up to its marker; a completed marker only observes.
RestartMarked(r) ==
    LET o == invoked[r].op
        c == Conn(o)
        s == invoked[r].mem
    IN /\ Applies(r, {"restart"}) /\ Allowed(r)
       /\ activeCred' = [activeCred EXCEPT ![c] = RestoredCred(s, c)]
       /\ \/ /\ ~CredentialReady(s, c)
             /\ Give(r)
             /\ UNCHANGED <<crashLoop, mark>>
          \/ /\ CredentialReady(s, c) /\ mark[o] = "completed"
             /\ crashLoop' = [crashLoop EXCEPT ![c] = unit[c] \in {"off", "failed"}]
             /\ Observed(r, IF unit[c] = "off" THEN "failed" ELSE unit[c], "applied")
             /\ UNCHANGED mark
          \/ /\ CredentialReady(s, c) /\ mark[o] # "completed"
             /\ crashLoop' = [crashLoop EXCEPT ![c] = FALSE]
             /\ mark' = IF mark[o] = "none" THEN [mark EXCEPT ![o] = "pending"] ELSE mark
             /\ invoked' = [invoked EXCEPT ![r] =
                   [stage |-> "marked", op |-> o, mem |-> s, new |-> mark[o] = "none"]]
       /\ UNCHANGED <<journalVars, unit, restarts, sent, runnable, overlapped,
                      hostFaults>>

\* A unit with an invocation the marker does not name was restarted since.
Restarted(o) == unit[Conn(o)] # "off" /\ mark[o] = "moved"

\* The restart is issued only by the invocation that wrote the marker.
IssuesRestart(r) == invoked[r].new

RestartProcess(r) ==
    LET o == invoked[r].op
        c == Conn(o)
    IN /\ invoked[r].stage = "marked"
       /\ \/ /\ Restarted(o)
             /\ mark' = IF unit[c] = "running" THEN [mark EXCEPT ![o] = "completed"] ELSE mark
             /\ crashLoop' = [crashLoop EXCEPT ![c] = @ \/ unit[c] = "failed"]
             /\ Observed(r, unit[c], "applied")
             /\ UNCHANGED <<unit, restarts>>
          \/ /\ ~Restarted(o) /\ ~IssuesRestart(r) /\ unit[c] = "starting"
             /\ Give(r)
             /\ UNCHANGED <<unit, crashLoop, mark, restarts>>
          \/ /\ ~Restarted(o) /\ ~IssuesRestart(r) /\ unit[c] # "starting"
             /\ unit' = [unit EXCEPT ![c] = IF @ = "running" THEN "off" ELSE @]
             /\ crashLoop' = [crashLoop EXCEPT ![c] = TRUE]
             /\ Observed(r, "failed", "applied")
             /\ UNCHANGED <<mark, restarts>>
          \/ /\ ~Restarted(o) /\ IssuesRestart(r)
             /\ restarts' = [restarts EXCEPT ![o] = @ + 1]
             /\ \E u \in Launched :
                   /\ unit' = [unit EXCEPT ![c] = u]
                   /\ mark' = IF u = "running" THEN [MovedMarks(c) EXCEPT ![o] = "completed"]
                              ELSE MovedMarks(c)
                   /\ crashLoop' = [crashLoop EXCEPT ![c] = @ \/ u = "failed"]
                   /\ Observed(r, u, "applied")
       /\ UNCHANGED <<journalVars, activeCred, sent, runnable, overlapped, hostFaults>>

\* materialize and rotate_credential: the file is replaced, then the unit observed.
RotateCredential(r) ==
    LET c == Conn(invoked[r].op)
    IN /\ Applies(r, {"rotate"}) /\ Allowed(r)
       /\ activeCred' = [activeCred EXCEPT ![c] = HostOpOf[invoked[r].op].cred]
       /\ Observed(r, IF unit[c] = "off" THEN "stopped" ELSE unit[c], "applied")
       /\ UNCHANGED <<journalVars, unit, crashLoop, mark, restarts, sent, runnable,
                      overlapped, hostFaults>>

\* LinuxBootstrapProvider::prepare and finalize.  An expired plan with no trace of a claim
\* changes nothing; a proof for another generation is refused.
PrepareMaterial(r) ==
    LET o == invoked[r].op
        c == Conn(o)
        i == invoked[r].mem.inst[c]
    IN /\ Applies(r, {"prepare"})
       /\ \/ /\ activeCred[c] # HostOpOf[o].cred
             /\ invoked' = [invoked EXCEPT ![r] =
                   [stage |-> "complete", op |-> o, mem |-> invoked[r].mem,
                    obs |-> i.obs, disp |-> "expired"]]
             /\ UNCHANGED <<unit, crashLoop, activeCred>>
          \/ /\ unit' = [unit EXCEPT ![c] = "off"]
             /\ crashLoop' = [crashLoop EXCEPT ![c] = FALSE]
             /\ activeCred' = [activeCred EXCEPT ![c] = HostOpOf[o].cred]
             /\ IF i.desired = "none" \/ i.gen = PlanGeneration
                THEN Observed(r, "stopped", "applied") ELSE Give(r)
       /\ UNCHANGED <<journalVars, mark, restarts, sent, runnable, overlapped, hostFaults>>

FinalizeMaterial(r) ==
    /\ Applies(r, {"finalize"})
    /\ IF unit[Conn(invoked[r].op)] = "running" THEN Observed(r, "running", "applied") ELSE Give(r)
    /\ UNCHANGED <<journalVars, machineVars, sent, runnable, overlapped, hostFaults>>

-----------------------------------------------------------------------------
(* Faults and the service manager. *)

Fault == hostFaults < MaxHostFaults /\ hostFaults' = hostFaults + 1

\* An invocation dies, or a command or file operation of its next step fails.
RunDies(r) ==
    /\ Fault
    /\ invoked[r] # IdleRun
    /\ Give(r)
    /\ UNCHANGED <<journalVars, machineVars, sent, runnable, overlapped>>

\* A process dies for good, exits, or is restarted by the service manager.
ProcessDies(c) ==
    /\ Fault
    /\ unit[c] = "running"
    /\ \E u \in {"failed", "off", "starting"} :
          /\ unit' = [unit EXCEPT ![c] = u]
          /\ mark' = IF u = "starting" THEN MovedMarks(c) ELSE mark
    /\ UNCHANGED <<journalVars, crashLoop, activeCred, restarts, sent, runnable, invoked,
                   overlapped>>

\* A unit that was starting is up, or has failed.
UnitSettles(c) ==
    /\ unit[c] = "starting"
    /\ \E u \in {"running", "failed"} : unit' = [unit EXCEPT ![c] = u]
    /\ UNCHANGED <<journalVars, crashLoop, activeCred, mark, restarts, sent, runnable,
                   invoked, overlapped, hostFaults>>

\* The catalog stops allowing the release.
RevokeRelease ==
    /\ Fault
    /\ runnable /\ runnable' = FALSE
    /\ UNCHANGED <<journalVars, machineVars, sent, invoked, overlapped>>

HostNext ==
    \/ \E r \in HostRuns :
          \/ \E o \in HostOps : LoadHost(r, o)
          \/ LookUp(r) \/ AdmitIntent(r) \/ CompleteIntent(r) \/ NotAllowed(r)
          \/ BringDown(r) \/ StopFails(r) \/ CompensateStart(r) \/ StartProcess(r)
          \/ RestartMarked(r) \/ RestartProcess(r) \/ RotateCredential(r)
          \/ PrepareMaterial(r) \/ FinalizeMaterial(r) \/ RunDies(r)
    \/ \E c \in HostConns : ProcessDies(c) \/ UnitSettles(c)
    \/ RevokeRelease

HostSpec == HostInit /\ [][HostNext]_hostVars

-----------------------------------------------------------------------------
(* Properties. *)

\* Completed operations form one chain: each took the host from the revision its operator
\* saw to the next, no two the same step, and at most one is pending, although invocations
\* overlap and die between any two calls of the journal (persist_intent, complete).
JournalSerial ==
    LET done == {o \in HostOps : record[o].state = "done" /\ record[o].outcome.disp # "expired"}
    IN /\ Cardinality(PendingOps) <= 1
       /\ \A o \in done : record[o].outcome.rev = sent[o] + 1
       /\ {sent[o] + 1 : o \in done} = 1 .. snapshot.rev
       /\ Cardinality(done) = snapshot.rev

\* All invocations report one outcome for an operation (restore_completed, complete).
AnswersAgree == \A o \in HostOps : Cardinality(answers[o]) <= 1

\* Between operations, a Connector recorded as stopped or removed has no process, also
\* when an invocation died after it started one and the release was then withdrawn
\* (reconcile_policy_blocked_start).  Invocations that overlap are excluded: one that
\* was delayed may start a process after a later stop was recorded.
RecordedStopHolds ==
    (~overlapped /\ PendingOps = {}) =>
        \A c \in HostConns :
            snapshot.inst[c].desired \in {"ensured", "stopped", "removed"} => unit[c] = "off"

\* Between operations the process reads the credential that is recorded (rotate_credential,
\* adopt_bootstrap_artifacts); overlapping invocations are excluded.
CredentialAgrees ==
    (~overlapped /\ PendingOps = {}) =>
        \A c \in HostConns :
            snapshot.inst[c].desired \notin {"none", "removed"} =>
                activeCred[c] = snapshot.inst[c].cred

\* One restart operation restarts the process at most once, however often its invocation
\* dies and is repeated (the restart marker of LinuxProcessController::restart).
RestartOnce == ~overlapped => \A o \in HostOps : restarts[o] <= 1

\* An install for which the Connector has proved its material is recorded, as the contract
\* test of prepare_connector_material shows for a Connector the host does not know yet.
PreparedIsRecorded ==
    \A r \in HostRuns :
        (invoked[r].stage = "complete" /\ Kind(invoked[r].op) = "prepare"
            /\ record[invoked[r].op].state = "pending") =>
                TransitionValid(invoked[r].mem, invoked[r].op, invoked[r].disp)

\* The journal as the next invocation finds it: one chain of operations with one outcome
\* each, and a snapshot every load accepts (journal.rs validate).
JournalSound == HostTypeOK /\ JournalSerial /\ AnswersAgree

\* The machine as the journal describes it, between operations.
MachineAgrees == RecordedStopHolds /\ CredentialAgrees /\ RestartOnce
=============================================================================
