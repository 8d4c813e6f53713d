---------------------------- MODULE RealtimeSync ----------------------------
(***************************************************************************)
(* The realtime invalidation stream of one identity: a gateway serves the  *)
(* journal to a device over a socket, under a lease that the next hello of *)
(* the device fences off (crates/dtx-realtime-sync and                     *)
(* bins/dtx-realtime-sync-gateway over the realtime schema).               *)
(*                                                                         *)
(* Every request of a device takes the advisory lock of its identity       *)
(* (authenticate_in_transaction).  A LeaseOperation keeps that lock and    *)
(* the lease row across the reads of a replay page and the writes to the   *)
(* socket, so it is several steps here: `op` names the connection that     *)
(* holds it.  Deliveries to the mailbox and the compactor do not take this *)
(* lock and interleave with those steps.  The client is external: it says  *)
(* hello with the last cursor it received, and resynchronises through the  *)
(* mailbox when it is told to catch up.                                    *)
(***************************************************************************)
EXTENDS RealtimeJournal

CONSTANTS
    RtDevices,
    Conns,          \* socket slots
    DeviceOf,       \* the device behind a socket
    LeaseTtl,       \* LEASE_TTL_MILLIS
    PageLimit,      \* MAX_REPLAY_EVENTS
    MaxFence,       \* bound: leases of one device
    MaxFaults       \* bound: lost connections

ASSUME RealtimeConstants ==
    /\ DeviceOf \in [Conns -> RtDevices] /\ "none" \notin Conns
    /\ LeaseTtl \in Nat \ {0} /\ PageLimit \in Nat \ {0}
    /\ MaxFence \in Nat /\ MaxFaults \in Nat

VARIABLES
    lease,      \* device_leases
    syncAck,    \* device_sync_acks
    revoked,    \* devices the identity log revoked
    conn,       \* what a gateway keeps for a socket
    op,         \* the LeaseOperation that holds the identity lock
    wire,       \* frames written to a socket and not yet read
    live,       \* sockets the client still has open
    cursor,     \* the client's durable cursor
    told,       \* history: events a device was told of, or resynchronised over
    faults

realtimeVars == <<journalVars, lease, syncAck, revoked, conn, op, wire, live, cursor,
                  told, faults>>

NoConn == "none"
Closed == [phase |-> "closed", fence |-> 0, until |-> 0, next |-> 0]
NoOp   == [conn |-> NoConn, stage |-> "none", high |-> 0, at |-> 0, page |-> <<>>]

RealtimeTypeOK ==
    /\ JournalTypeOK
    /\ lease \in [RtDevices -> [fence : 0 .. MaxFence, until : Nat]]
    /\ syncAck \in [RtDevices -> 0 .. Len(journal)]
    /\ revoked \subseteq RtDevices
    /\ conn \in [Conns -> [phase : {"closed", "hello", "open"}, fence : 0 .. MaxFence,
                           until : Nat, next : 0 .. Len(journal)]]
    /\ op \in [conn : Conns \cup {NoConn},
               stage : {"none", "begun", "head", "send", "catchup"},
               high : 0 .. Len(journal), at : Nat, page : Seq(Cursors)]
    /\ wire \in [Conns -> Seq(Cursors)]
    /\ live \subseteq Conns
    /\ cursor \in [RtDevices -> 0 .. Len(journal)]
    /\ told \in [RtDevices -> SUBSET Cursors]
    /\ faults \in 0 .. MaxFaults

RealtimeInit ==
    /\ JournalInit
    /\ lease = [d \in RtDevices |-> [fence |-> 0, until |-> 0]]
    /\ syncAck = [d \in RtDevices |-> 0]
    /\ revoked = {}
    /\ conn = [k \in Conns |-> Closed]
    /\ op = NoOp
    /\ wire = [k \in Conns |-> <<>>]
    /\ live = {}
    /\ cursor = [d \in RtDevices |-> 0]
    /\ told = [d \in RtDevices |-> {}]
    /\ faults = 0

-----------------------------------------------------------------------------
(* The writers. *)

\* The identity's advisory lock, which a LeaseOperation holds until it ends.
LockIgnored == TRUE
LockFree == op = NoOp

\* An envelope for the identity: under the mailbox lock only.
AppendDelivery(ttl) ==
    /\ AppendEvent(rtNow + ttl)
    /\ UNCHANGED <<lease, syncAck, revoked, conn, op, wire, live, cursor, told, faults>>

\* A read cursor of the account: the device is authenticated, so the lock is taken.
AppendRead ==
    /\ LockFree
    /\ AppendEvent(rtNow + RtRetention)
    /\ UNCHANGED <<lease, syncAck, revoked, conn, op, wire, live, cursor, told, faults>>

\* The identity log revokes a device and tells the others.
RevokeDevice(d) ==
    /\ LockFree
    /\ d \notin revoked
    /\ AppendEvent(rtNow + RtRetention)
    /\ revoked' = revoked \cup {d}
    /\ UNCHANGED <<lease, syncAck, conn, op, wire, live, cursor, told, faults>>

-----------------------------------------------------------------------------
(* A socket.  The client has at most one socket open per device; the gateway may *)
(* still serve one that the client has given up.                                  *)

Dropped(k) ==
    /\ conn' = [conn EXCEPT ![k] = Closed]
    /\ wire' = [wire EXCEPT ![k] = <<>>]
    /\ live' = live \ {k}

\* lock_current_lease and the heartbeat's UPDATE: the row still names this lease.
LeaseCurrent(k) ==
    /\ lease[DeviceOf[k]].fence = conn[k].fence
    /\ lease[DeviceOf[k]].until > rtNow

Authenticated(k) == DeviceOf[k] \notin revoked

\* begin_gateway_operation succeeds; it times out behind another operation.
OperationGranted(k) == LockFree /\ Authenticated(k) /\ LeaseCurrent(k)

\* acquire: every hello takes the lease over with the next fence.
AcquireLease(k) ==
    LET d == DeviceOf[k]
    IN /\ conn[k].phase = "closed"
       /\ \A other \in live : DeviceOf[other] # d
       /\ LockFree
       /\ Authenticated(k)
       /\ cursor[d] <= Highwater
       /\ lease[d].fence < MaxFence
       /\ lease' = [lease EXCEPT ![d] = [fence |-> lease[d].fence + 1,
                                         until |-> rtNow + LeaseTtl]]
       /\ conn' = [conn EXCEPT ![k] = [phase |-> "hello", fence |-> lease[d].fence + 1,
                                       until |-> rtNow + LeaseTtl, next |-> cursor[d]]]
       /\ live' = live \cup {k}
       /\ UNCHANGED <<journalVars, syncAck, revoked, op, wire, cursor, told, faults>>

\* The hello acknowledgement is sent under the lease; then the socket subscribes.
HelloAck(k) ==
    /\ conn[k].phase = "hello"
    /\ \/ /\ OperationGranted(k) /\ k \in live
          /\ conn' = [conn EXCEPT ![k].phase = "open"]
          /\ UNCHANGED <<wire, live>>
       \/ /\ ~OperationGranted(k) \/ k \notin live
          /\ Dropped(k)
    /\ UNCHANGED <<journalVars, lease, syncAck, revoked, op, cursor, told, faults>>

\* A replay begins, or the socket is closed.
BeginOrClose(k) ==
    \/ /\ OperationGranted(k)
       /\ op' = [NoOp EXCEPT !.conn = k, !.stage = "begun"]
       /\ UNCHANGED <<conn, wire, live>>
    \/ /\ ~OperationGranted(k)
       /\ Dropped(k)
       /\ UNCHANGED op

\* A replay starts on the safety tick, on a notification of the broadcast channel, or
\* on the word that some were dropped.
ReplayStarts(k) ==
    /\ conn[k].phase = "open" /\ op.conn # k
    /\ BeginOrClose(k)
    /\ UNCHANGED <<journalVars, lease, syncAck, revoked, cursor, told, faults>>

\* The gateway's own copy of the lease has not run out.
SideEffectAllowed(k) == rtNow < conn[k].until

\* Rows the journal no longer has in full after this cursor.
BeyondReplayByOne(after, first) == after < first
BeyondReplay(after, first) == after + 1 < first

\* First statement of a page: the head.
ReplayHead(k) ==
    /\ op.conn = k /\ op.stage = "begun"
    /\ SideEffectAllowed(k)
    /\ op' = [op EXCEPT !.stage = IF \/ BeyondReplay(conn[k].next, floor)
                                     \/ conn[k].next > Highwater
                                  THEN "catchup" ELSE "head",
                        !.high = Highwater, !.at = rtNow]
    /\ UNCHANGED <<journalVars, lease, syncAck, revoked, conn, wire, live, cursor, told,
                   faults>>

\* Rows after the cursor that have not expired, in order and at most a page.
PageRows(after) ==
    LET rows == FirstOf({i \in floor .. Highwater : i > after /\ journal[i] > op.at},
                        PageLimit)
    IN [n \in 1 .. Cardinality(rows) |->
            CHOOSE i \in rows : Cardinality({j \in rows : j < i}) = n - 1]

\* Every row of a page is the successor of the one before.
AnyPage(after, page) == TRUE
PageContiguous(after, page) == \A n \in DOMAIN page : page[n] = after + n

\* A page that does not connect to the cursor, or is empty short of the highwater.
HoleInPage(after, page) == ~PageContiguous(after, page)
PageBroken(after, page) ==
    \/ page = <<>> /\ after < op.high
    \/ ~PageContiguous(after, page)

\* Second statement: the rows, and whether they can be served.
ReplayRows(k) ==
    LET after == conn[k].next
        page  == PageRows(after)
        gap   == PageBroken(after, page)
    IN /\ op.conn = k /\ op.stage = "head"
       /\ op' = [op EXCEPT !.stage = IF gap THEN "catchup" ELSE "send",
                           !.page = IF gap THEN <<>> ELSE page]
       /\ UNCHANGED <<journalVars, lease, syncAck, revoked, conn, wire, live, cursor, told,
                   faults>>

\* One invalidation is written; next_cursor follows it.
SendEvent(k) ==
    /\ op.conn = k /\ op.stage = "send" /\ op.page # <<>>
    /\ SideEffectAllowed(k)
    /\ wire' = [wire EXCEPT ![k] = IF k \in live THEN Append(@, Head(op.page)) ELSE @]
    /\ conn' = [conn EXCEPT ![k].next = Head(op.page)]
    /\ op' = [op EXCEPT !.page = Tail(op.page)]
    /\ UNCHANGED <<journalVars, lease, syncAck, revoked, live, cursor, told, faults>>

\* The page is out and the operation ends.
FinishOperation(k) ==
    /\ op.conn = k /\ op.stage = "send" /\ op.page = <<>>
    /\ op' = NoOp
    /\ UNCHANGED <<journalVars, lease, syncAck, revoked, conn, wire, live, cursor, told,
                   faults>>

\* The catch-up frame goes out and the socket is closed; a client that is still there
\* resynchronises up to the highwater it was given.
SendCatchUp(k) ==
    LET d == DeviceOf[k]
    IN /\ op.conn = k /\ op.stage = "catchup"
       /\ SideEffectAllowed(k)
       /\ op' = NoOp
       /\ Dropped(k)
       /\ cursor' = [cursor EXCEPT ![d] = IF k \in live THEN op.high ELSE @]
       /\ told' = [told EXCEPT ![d] = IF k \in live THEN @ \cup 1 .. op.high ELSE @]
       /\ UNCHANGED <<journalVars, lease, syncAck, revoked, faults>>

\* The lease runs out under the operation, or the socket cannot be written any more.
OperationEnds(k) ==
    /\ op.conn = k
    /\ ~SideEffectAllowed(k) \/ k \notin live
    /\ op' = NoOp
    /\ Dropped(k)
    /\ UNCHANGED <<journalVars, lease, syncAck, revoked, cursor, told, faults>>

\* The request is refused and the socket closed.
Refused(k) ==
    /\ ~Authenticated(k) \/ ~LeaseCurrent(k)
    /\ Dropped(k)

\* A heartbeat extends the row and the gateway's copy together.
HeartbeatLease(k) ==
    LET d == DeviceOf[k]
    IN /\ conn[k].phase = "open" /\ k \in live
       /\ LockFree
       /\ conn[k].until # rtNow + LeaseTtl
       /\ \/ /\ Authenticated(k) /\ LeaseCurrent(k)
             /\ lease' = [lease EXCEPT ![d].until = rtNow + LeaseTtl]
             /\ conn' = [conn EXCEPT ![k].until = rtNow + LeaseTtl]
             /\ UNCHANGED <<wire, live>>
          \/ Refused(k) /\ UNCHANGED lease
       /\ UNCHANGED <<journalVars, syncAck, revoked, op, cursor, told, faults>>

\* GREATEST of the stored and the new acknowledgement.
Greatest(stored, value) == IF value > stored THEN value ELSE stored

\* The client acknowledges a cursor it has received, in any order.
Acknowledge(k, c) ==
    LET d == DeviceOf[k]
    IN /\ conn[k].phase = "open" /\ k \in live
       /\ LockFree
       /\ c <= cursor[d] /\ c # syncAck[d]
       /\ \/ /\ Authenticated(k) /\ LeaseCurrent(k) /\ c <= Highwater
             /\ syncAck' = [syncAck EXCEPT ![d] = Greatest(@, c)]
             /\ UNCHANGED <<conn, wire, live>>
          \/ Refused(k) /\ UNCHANGED syncAck
       /\ UNCHANGED <<journalVars, lease, revoked, op, cursor, told, faults>>

\* The reply to a heartbeat or an acknowledgement needs an operation of its own, which
\* may time out behind the one of another socket.
ReplyTimesOut(k) ==
    /\ conn[k].phase = "open" /\ k \in live
    /\ op.conn \notin {NoConn, k}
    /\ Dropped(k)
    /\ UNCHANGED <<journalVars, lease, syncAck, revoked, op, cursor, told, faults>>

-----------------------------------------------------------------------------
(* The client and the network. *)

\* An invalidation arrives: its cursor becomes the device's.
ClientReceives(k) ==
    LET d == DeviceOf[k]
    IN /\ k \in live /\ wire[k] # <<>>
       /\ cursor' = [cursor EXCEPT ![d] = Head(wire[k])]
       /\ told' = [told EXCEPT ![d] = @ \cup {Head(wire[k])}]
       /\ wire' = [wire EXCEPT ![k] = Tail(@)]
       /\ UNCHANGED <<journalVars, lease, syncAck, revoked, conn, op, live, faults>>

\* A socket is lost: the client gives it up with what was on its way; the gateway does
\* not know yet, or it died and lost the socket and its operation.
ClientDrops(k) ==
    /\ faults < MaxFaults
    /\ faults' = faults + 1
    /\ k \in live
    /\ \/ /\ live' = live \ {k}
          /\ wire' = [wire EXCEPT ![k] = <<>>]
          /\ UNCHANGED <<conn, op>>
       \/ /\ Dropped(k)
          /\ op' = IF op.conn = k THEN NoOp ELSE op
    /\ UNCHANGED <<journalVars, lease, syncAck, revoked, cursor, told>>

\* The gateway reads the end of the stream.
SocketEnds(k) ==
    /\ conn[k].phase = "open" /\ op.conn # k /\ k \notin live
    /\ Dropped(k)
    /\ UNCHANGED <<journalVars, lease, syncAck, revoked, op, cursor, told, faults>>

RealtimeTick ==
    /\ JournalTick
    /\ UNCHANGED <<lease, syncAck, revoked, conn, op, wire, live, cursor, told, faults>>

CompactJournal ==
    /\ CompactExpired
    /\ UNCHANGED <<lease, syncAck, revoked, conn, op, wire, live, cursor, told, faults>>

-----------------------------------------------------------------------------
RealtimeNext ==
    \/ \E ttl \in DeliveryTtls : AppendDelivery(ttl)
    \/ AppendRead
    \/ \E d \in RtDevices : RevokeDevice(d)
    \/ CompactJournal
    \/ \E k \in Conns :
          \/ AcquireLease(k) \/ HelloAck(k) \/ ReplayStarts(k)
          \/ ReplayHead(k) \/ ReplayRows(k) \/ SendEvent(k) \/ FinishOperation(k)
          \/ SendCatchUp(k) \/ OperationEnds(k)
          \/ HeartbeatLease(k) \/ ReplyTimesOut(k)
          \/ \E c \in Cursors : Acknowledge(k, c)
          \/ ClientReceives(k) \/ ClientDrops(k) \/ SocketEnds(k)
    \/ RealtimeTick

RealtimeSpec == RealtimeInit /\ [][RealtimeNext]_realtimeVars

(* The steps that are scheduled: the loop that serves a socket, with its safety     *)
(* tick, and a client that reads what arrives and says hello again.  The hello      *)
(* waits in the queue of the advisory lock, so it gets its turn among operations    *)
(* that come and go.                                                                *)
ServeStep(k) ==
    \/ HelloAck(k) \/ ReplayStarts(k) \/ SocketEnds(k)
    \/ ReplayHead(k) \/ ReplayRows(k) \/ SendEvent(k) \/ FinishOperation(k)
    \/ SendCatchUp(k) \/ OperationEnds(k)
Hello(d) == \E k \in Conns : DeviceOf[k] = d /\ AcquireLease(k)

-----------------------------------------------------------------------------
(* Properties. *)

\* A device that holds cursor c was told of every event up to c, or resynchronised
\* over it: no replay page skips a row that expired, was compacted or was appended
\* between the two statements that read it (replay_in_transaction).
NoSilentGap ==
    /\ RealtimeTypeOK
    /\ \A d \in RtDevices : 1 .. cursor[d] \subseteq told[d]

\* A device is sent to a full resynchronisation only when an event it has not been
\* told of really expired, whatever was appended and compacted while the page was
\* read (replay_in_transaction, compact_expired).
CatchUpJustified ==
    op.stage = "catchup" => \E i \in conn[op.conn].next + 1 .. Highwater : Expired(i)

\* An event is written to a socket only while its lease is the device's current one,
\* unexpired, and the device is not revoked: the checks made when the operation began
\* still hold at every write (LeaseOperation).
FencedSend ==
    [][\A k \in Conns : conn[k].phase = "open" /\ conn'[k].next > conn[k].next =>
          /\ lease[DeviceOf[k]].fence = conn[k].fence
          /\ lease[DeviceOf[k]].until > rtNow
          /\ DeviceOf[k] \notin revoked]_realtimeVars

\* Again and again every device that has connected and is not revoked has caught up with
\* the journal or resynchronised past it, although broadcasts stay in one process,
\* receivers lag, pages are short and connections are lost (serve_socket, push_replay).
EventsReachDevice ==
    \A d \in RtDevices : []<>(lease[d].fence = 0 \/ d \in revoked \/ cursor[d] >= Highwater)
=============================================================================
