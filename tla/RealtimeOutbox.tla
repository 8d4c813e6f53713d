--------------------------- MODULE RealtimeOutbox ---------------------------
(***************************************************************************)
(* Publication of the realtime journal: every event has an outbox row, and *)
(* the worker of each gateway claims rows for a while, broadcasts them to  *)
(* the sockets of its process and marks them published                     *)
(* (bins/dtx-realtime-sync-gateway/src/outbox.rs over realtime.claim_outbox *)
(* and realtime.mark_outbox_published).                                    *)
(***************************************************************************)
EXTENDS RealtimeJournal

CONSTANTS
    Gateways,       \* gateway processes, each with one worker
    ClaimTtl,       \* OUTBOX_CLAIM_TTL_MILLIS
    MaxCrashes      \* bound: failed cycles and crashes

ASSUME OutboxConstants ==
    /\ ClaimTtl \in Nat \ {0}
    /\ MaxCrashes \in Nat
    /\ Gateways \cap {"nobody", "lapsed"} = {}

VARIABLES
    outbox,     \* publication state of every event, by cursor
    worker,     \* the outbox loop of each gateway
    announced,  \* history: events some gateway broadcast
    crashes

outboxVars == <<journalVars, outbox, worker, announced, crashes>>

Nobody == "nobody"
Lapsed == "lapsed"          \* a claim id no worker holds any more
Idle   == [stage |-> "idle", batch |-> {}]

OutboxTypeOK ==
    /\ JournalTypeOK
    /\ Len(outbox) <= Len(journal)
    /\ \A i \in DOMAIN outbox :
          outbox[i] \in [published : BOOLEAN, claim : Gateways \cup {Nobody, Lapsed},
                         until : Nat]
    /\ worker \in [Gateways -> [stage : {"idle", "claimed", "sent"},
                                batch : SUBSET Cursors]]
    /\ announced \subseteq Cursors
    /\ crashes \in 0 .. MaxCrashes

OutboxInit ==
    /\ JournalInit
    /\ outbox = <<>>
    /\ worker = [g \in Gateways |-> Idle]
    /\ announced = {}
    /\ crashes = 0

\* A writer commits the event and its outbox row in one transaction.
AppendWithOutbox(expires) ==
    /\ AppendEvent(expires)
    /\ outbox' = Append(outbox, [published |-> FALSE, claim |-> Nobody, until |-> 0])
    /\ UNCHANGED <<worker, announced, crashes>>

\* A row nobody holds, or whose claim ran out.
ClaimableOnce(i) ==
    /\ i >= floor
    /\ ~outbox[i].published
    /\ outbox[i].claim = Nobody
    /\ ~Expired(i)
Claimable(i) ==
    /\ i >= floor
    /\ ~outbox[i].published
    /\ outbox[i].claim = Nobody \/ outbox[i].until <= rtNow
    /\ ~Expired(i)

\* Rows a worker leaves behind keep their claim, which no later mark names.
Abandoned(g) ==
    [i \in DOMAIN outbox |->
        IF outbox[i].claim = g THEN [outbox[i] EXCEPT !.claim = Lapsed] ELSE outbox[i]]

ClaimOutbox(g) ==
    LET rows == FirstOf({i \in DOMAIN outbox : Claimable(i)}, BatchLimit)
    IN /\ worker[g].stage = "idle"
       /\ rows # {}
       /\ outbox' = [i \in DOMAIN outbox |->
                        IF i \in rows
                        THEN [published |-> FALSE, claim |-> g, until |-> rtNow + ClaimTtl]
                        ELSE Abandoned(g)[i]]
       /\ worker' = [worker EXCEPT ![g] = [stage |-> "claimed", batch |-> rows]]
       /\ UNCHANGED <<journalVars, announced, crashes>>

\* The notifications enter the channel of this process, where a socket that is slow or
\* not subscribed yet loses them; a socket may replay at any time without one.
Broadcast(g) ==
    /\ worker[g].stage = "claimed"
    /\ worker' = [worker EXCEPT ![g].stage = "sent"]
    /\ announced' = announced \cup worker[g].batch
    /\ UNCHANGED <<journalVars, outbox, crashes>>

\* A worker may mark what it has broadcast.
MayMark(g) == worker[g].stage = "sent"

\* Only rows that still carry this claim are marked.
MarkPublished(g) ==
    /\ MayMark(g)
    /\ outbox' = [i \in DOMAIN outbox |->
                    IF outbox[i].claim = g /\ i >= floor
                    THEN [outbox[i] EXCEPT !.published = TRUE] ELSE outbox[i]]
    /\ worker' = [worker EXCEPT ![g] = Idle]
    /\ UNCHANGED <<journalVars, announced, crashes>>

\* The cycle fails at a step and starts over later, or the process dies.
\* Bound: the clock runs on until the claim has lapsed.
CycleFails(g) ==
    /\ crashes < MaxCrashes
    /\ rtNow + ClaimTtl <= RtMaxTime
    /\ worker[g].stage # "idle"
    /\ crashes' = crashes + 1
    /\ worker' = [worker EXCEPT ![g] = Idle]
    /\ outbox' = Abandoned(g)
    /\ UNCHANGED <<journalVars, announced>>

OutboxTick == JournalTick /\ UNCHANGED <<outbox, worker, announced, crashes>>

OutboxNext ==
    \/ \E ttl \in DeliveryTtls \cup {RtRetention} : AppendWithOutbox(rtNow + ttl)
    \/ \E g \in Gateways :
          \/ ClaimOutbox(g) \/ Broadcast(g) \/ MarkPublished(g)
          \/ CycleFails(g)
    \/ CompactExpired /\ UNCHANGED <<outbox, worker, announced, crashes>>
    \/ OutboxTick

OutboxSpec == OutboxInit /\ [][OutboxNext]_outboxVars

\* The loop of a worker is scheduled, and time passes.
WorkerStep(g) == ClaimOutbox(g) \/ Broadcast(g) \/ MarkPublished(g)

-----------------------------------------------------------------------------
(* Properties. *)

\* Again and again every outbox row has been broadcast by some gateway or its event has
\* expired, although workers die between claim, broadcast and mark and claims move from
\* one to another: a row is never marked published without its broadcast, and none is
\* forgotten with a dead claim (claim_outbox, publish, mark_outbox_published).
OutboxDrains == []<>(\A i \in DOMAIN outbox : i \in announced \/ Expired(i))
=============================================================================
