-------------------------- MODULE MailboxDelivery --------------------------
(***************************************************************************)
(* The opaque mailboxes of one identity (crates/dtx-mailbox over the       *)
(* messaging schema): senders enqueue envelopes, the owner device pulls    *)
(* and acknowledges its mailbox, every device of the identity follows one  *)
(* contiguous delivery journal with a cursor of its own, a push broker     *)
(* works off the wake intent that came with an envelope, and a compactor   *)
(* tombstones expired ciphertext and later collapses the journal prefix.   *)
(*                                                                         *)
(* Every action is one committed transaction.  Enqueue, the mailbox        *)
(* operations and the compactor take the mailbox-identity lock, device     *)
(* requests take the identity lock, and a journal pull holds the delivery  *)
(* head while it reads its page.  A refused request rolls back everything, *)
(* the expiry it performed included, and is not an action.  The clients    *)
(* are external; they keep their cursors durably and may lose any reply.   *)
(* Envelopes have one size, so bytes move with counts.                     *)
(***************************************************************************)
EXTENDS Integers, FiniteSets

CONSTANTS
    Mailboxes,
    BoxOwner,       \* the device that owns a mailbox
    Sent,           \* envelopes senders enqueue with a write capability
    Offers,         \* history recovery offers, enqueued by another device
    MailboxOf,      \* the mailbox an envelope is addressed to
    Expiry,         \* expires_at of an envelope, part of the exact request
    Candidate,      \* the device a history offer is for
    Devices,
    InitialDevice,  \* initial_device_id of the identity log
    BoxTtl,         \* requested lifetime of a mailbox
    MaxTtl,         \* MAX_ENVELOPE_TTL_MILLIS
    Quota,          \* MAX_ACTIVE_ENVELOPES
    Retention,      \* replay horizon of the compactor (15 minutes)
    Budget,         \* rows one compaction may take of each kind
    PushDevices,    \* devices with an active opaque push registration
    PushRetention,  \* how long a finished wake intent is kept (24 hours)
    Skew,           \* how far a node's clock is from the database clock
    PullLimit,      \* bound: entries of one page
    MaxEarliest,    \* bound: earliest sequence of a history grant
    MaxTime,        \* bound: last instant of the database clock
    MaxSequence,    \* bound: delivery sequences of the identity
    MaxVersion      \* bound: entries of the identity log

Envelopes == Sent \cup Offers

ASSUME MailboxConstants ==
    /\ IsFiniteSet(Envelopes)
    /\ Sent \cap Offers = {}
    /\ BoxOwner \in [Mailboxes -> Devices]
    /\ MailboxOf \in [Envelopes -> Mailboxes]
    /\ Expiry \in [Envelopes -> Nat]
    /\ Candidate \in [Offers -> Devices]
    /\ InitialDevice \in Devices
    /\ BoxTtl \in Nat \ {0} /\ MaxTtl \in Nat \ {0}
    /\ Quota \in Nat \ {0}
    /\ Retention \in Nat /\ Skew \in Nat /\ PushRetention \in Nat
    /\ PushDevices \subseteq Devices
    /\ Budget \in Nat \ {0} /\ PullLimit \in Nat \ {0}
    /\ MaxEarliest \in Nat /\ MaxTime \in Nat
    /\ MaxSequence \in Nat /\ MaxVersion \in Nat \ {0}

\* The replay horizon outlasts the disagreement of the clocks: a node further behind
\* the database would take an envelope again that the compactor has collected.
ASSUME ClocksWithinHorizon == Skew <= Retention

VARIABLES
    now,       \* the database clock
    box,       \* mailboxes
    env,       \* mailbox_envelopes, with the offer that came with one
    push,      \* opaque_push_deliveries, by envelope
    head,      \* identity_delivery_heads
    journal,   \* identity_delivery_journal
    delivery,  \* device_delivery_state
    grant,     \* device_history_grants
    identity,  \* the identity log: its head and the devices active in it
    client,    \* what a device pulled from the journal
    reader     \* what an owner device pulled from its mailbox

vars == <<now, box, env, push, head, journal, delivery, grant, identity, client, reader>>
rows == <<box, env, push, head, journal>>

NoEnvelope == [state |-> "none", seq |-> 0, earliest |-> 0, version |-> 0]
NoIntent   == [state |-> "none", at |-> 0]
NoGrant    == [earliest |-> 0, by |-> InitialDevice]

\* The identity exists with its devices and its delivery head; no mailbox is registered.
Init ==
    /\ now = 0
    /\ box = [m \in Mailboxes |-> [expires |-> 0, next |-> 0, active |-> 0]]
    /\ env = [e \in Envelopes |-> NoEnvelope]
    /\ push = [e \in Envelopes |-> NoIntent]
    /\ head = [next |-> 0, compacted |-> 0]
    /\ journal = [s \in {} |-> NoEnvelope]
    /\ delivery = [d \in Devices |-> [ack |-> 0, earliest |-> 0]]
    /\ grant = [d \in Devices |-> NoGrant]
    /\ identity = [version |-> 1, active |-> Devices]
    /\ client = [d \in Devices |-> [cursor |-> 0, floor |-> 0, got |-> {}]]
    /\ reader = [m \in Mailboxes |-> [cursor |-> 0, got |-> {}]]

Clock ==
    /\ now < MaxTime
    /\ now' = now + 1
    /\ UNCHANGED <<rows, delivery, grant, identity, client, reader>>

Larger(a, b) == IF a >= b THEN a ELSE b

\* What the clock of a node may read.
NodeTimes == {t \in 0..(MaxTime + Skew) : t - now <= Skew /\ now - t <= Skew}

\* The first n members of S in increasing order.
FirstOf(n, S) == {x \in S : Cardinality({y \in S : y < x}) < n}

LastOf(S, default) == IF S = {} THEN default ELSE CHOOSE x \in S : \A y \in S : y <= x

-----------------------------------------------------------------------------
(* Mailboxes *)

In(m) == {e \in Envelopes : MailboxOf[e] = m}

\* Mutant of Retains: an acknowledged envelope gave its ciphertext away.
RetainsUnread(e) == env[e].state = "available"

\* The row still has its ciphertext.
Retains(e) == env[e].state \in {"available", "acked"}

\* load_mailbox_for_update at node time t
Open(m, t) == t < box[m].expires

\* register
Register(m, t) ==
    /\ box[m].expires = 0
    /\ BoxOwner[m] \in identity.active
    /\ BoxTtl <= MaxTtl
    /\ box' = [box EXCEPT ![m].expires = t + BoxTtl]
    /\ UNCHANGED <<now, env, push, head, journal, delivery, grant, identity, client, reader>>

\* expire_available: the available envelopes of m that are past their expiry.
Expiring(m, t) == {e \in In(m) : env[e].state = "available" /\ Expiry[e] <= t}

Tombstoned(S) == [e \in Envelopes |-> IF e \in S THEN [env[e] EXCEPT !.state = "expired"] ELSE env[e]]

\* Both quotas, after the expiry: what is active and what is retained.
HasRoom(m, t) ==
    /\ box[m].active - Cardinality(Expiring(m, t)) < Quota
    /\ Cardinality({e \in In(m) : Retains(e)} \ Expiring(m, t)) < Quota

\* validate_envelope_expiry
Deliverable(e, t) ==
    /\ Expiry[e] > t
    /\ Expiry[e] <= t + MaxTtl
    /\ Expiry[e] <= box[MailboxOf[e]].expires

\* Mutant of Insert: the count read before the expiry is written back.
InsertStaleCount(e, t, row) ==
    LET m == MailboxOf[e] IN
    /\ Open(m, t)
    /\ env[e].state = "none"
    /\ Deliverable(e, t)
    /\ HasRoom(m, t)
    /\ head.next < MaxSequence
    /\ box' = [box EXCEPT ![m].next = @ + 1, ![m].active = @ + 1]
    /\ env' = [Tombstoned(Expiring(m, t)) EXCEPT ![e] = row]
    /\ push' = IF BoxOwner[m] \in PushDevices
               THEN [push EXCEPT ![e] = [state |-> "open", at |-> 0]] ELSE push
    /\ journal' = [s \in DOMAIN journal \cup {head.next + 1} |->
                      IF s = head.next + 1 THEN e ELSE journal[s]]
    /\ head' = [head EXCEPT !.next = @ + 1]

\* The write path enqueue and the history grant share: expire, check the
\* quotas, number the envelope in its mailbox and in the identity's journal,
\* and leave a wake intent when the owner device is registered for push.
Insert(e, t, row) ==
    LET m == MailboxOf[e] IN
    /\ Open(m, t)
    /\ env[e].state = "none"
    /\ Deliverable(e, t)
    /\ HasRoom(m, t)
    /\ head.next < MaxSequence
    /\ box' = [box EXCEPT ![m].next = @ + 1,
                          ![m].active = @ - Cardinality(Expiring(m, t)) + 1]
    /\ env' = [Tombstoned(Expiring(m, t)) EXCEPT ![e] = row]
    /\ push' = IF BoxOwner[m] \in PushDevices
               THEN [push EXCEPT ![e] = [state |-> "open", at |-> 0]] ELSE push
    /\ journal' = [s \in DOMAIN journal \cup {head.next + 1} |->
                      IF s = head.next + 1 THEN e ELSE journal[s]]
    /\ head' = [head EXCEPT !.next = @ + 1]

\* enqueue.  A retransmission finds its claim or its envelope row and is
\* answered with the receipt it got the first time.
EnqueueEnvelope(e, t) ==
    /\ Insert(e, t, [NoEnvelope EXCEPT !.state = "available", !.seq = box[MailboxOf[e]].next + 1])
    /\ UNCHANGED <<now, delivery, grant, identity, client, reader>>

\* grant_device_history_v2: an active provider other than the candidate offers it its
\* history; the offer authorizes the journal from the offer on, for this head of the log.
\* The second signature is that of an active device other than the provider, the candidate
\* included, or of the root or recovery key: somebody can always give it.
OfferHistory(o, t) ==
    /\ Candidate[o] \in identity.active
    /\ \E provider \in identity.active : provider # Candidate[o]
    /\ Insert(o, t, [state |-> "available", seq |-> box[MailboxOf[o]].next + 1,
                     earliest |-> head.next + 1, version |-> identity.version])
    /\ UNCHANGED <<now, delivery, grant, identity, client, reader>>

\* Envelopes of m after a cursor, at most n of them, by delivery sequence.
MailboxPage(m, after, n) ==
    {e \in In(m) : /\ env[e].state # "none"
                   /\ env[e].seq \in FirstOf(n, {env[x].seq : x \in {y \in In(m) :
                                        env[y].state # "none" /\ env[y].seq > after}})}

\* Mutant of ReadThrough: the cursor of the page is the mailbox's newest number.
ReadThroughAll(m, page) == box[m].next

\* The cursor after a page: its last row, live or terminal.
ReadThrough(m, page) == LastOf({env[e].seq : e \in page}, reader[m].cursor)

\* pull
PullMailbox(m, t, n, lost) ==
    LET page == MailboxPage(m, reader[m].cursor, n) IN
    /\ BoxOwner[m] \in identity.active
    /\ Open(m, t)
    /\ box' = [box EXCEPT ![m].active = @ - Cardinality(Expiring(m, t))]
    /\ env' = Tombstoned(Expiring(m, t))
    /\ reader' = IF lost THEN reader
                 ELSE [reader EXCEPT ![m] =
                         [cursor |-> ReadThrough(m, page),
                          got |-> @.got \cup {e \in page : env'[e].state = "available"}]]
    /\ UNCHANGED <<now, push, head, journal, delivery, grant, identity, client>>

\* Mutant of Settled: an acknowledged envelope loses its ciphertext.
SettledForGood(e) == [env[e] EXCEPT !.state = "expired"]

\* An acknowledged row keeps its ciphertext: other devices may still need it.
Settled(e) == [env[e] EXCEPT !.state = "acked"]

\* acknowledge
AckMailbox(m, t, A) ==
    LET live == {e \in A : env[e].state = "available"} \ Expiring(m, t) IN
    /\ BoxOwner[m] \in identity.active
    /\ Open(m, t)
    /\ A # {}
    /\ \A e \in A : env[e].state # "none"
    /\ box' = [box EXCEPT ![m].active = @ - Cardinality(Expiring(m, t)) - Cardinality(live)]
    /\ env' = [e \in Envelopes |-> IF e \in live THEN Settled(e)
                                   ELSE Tombstoned(Expiring(m, t))[e]]
    /\ UNCHANGED <<now, push, head, journal, delivery, grant, identity, client, reader>>

-----------------------------------------------------------------------------
(* The push broker *)

\* The outcome functions of a claimed intent, its expiry after a minute and the
\* removal of its registration all end it.
FinishPush(e) ==
    /\ push[e].state = "open"
    /\ push' = [push EXCEPT ![e] = [state |-> "closed", at |-> now]]
    /\ UNCHANGED <<now, box, env, head, journal, delivery, grant, identity, client, reader>>

\* prune_opaque_push_terminal
PrunePush(e) ==
    /\ push[e].state = "closed"
    /\ push[e].at <= now - PushRetention
    /\ push' = [push EXCEPT ![e] = NoIntent]
    /\ UNCHANGED <<now, box, env, head, journal, delivery, grant, identity, client, reader>>

-----------------------------------------------------------------------------
(* The delivery journal of the identity *)

\* grant_device_history: one grant for a device, never replaced.
GrantHistory(d, by, earliest) ==
    /\ {d, by} \subseteq identity.active
    /\ grant[d].earliest = 0
    /\ grant' = [grant EXCEPT ![d] = [earliest |-> earliest, by |-> by]]
    /\ UNCHANGED <<now, rows, delivery, identity, client, reader>>

\* The first sequences device d may read at node time t: everything, or what a
\* grant of a still active device or a current history offer starts with.
Authorizations(d, t) ==
    IF d = InitialDevice THEN {1}
    ELSE {grant[x].earliest : x \in {y \in {d} : grant[y].earliest > 0 /\ grant[y].by \in identity.active}}
         \cup {env[o].earliest : o \in {x \in Offers : /\ Candidate[x] = d
                                                       /\ env[x].state # "none"
                                                       /\ Expiry[x] > t
                                                       /\ env[x].version = identity.version}}

Earliest(d, t) == CHOOSE x \in Authorizations(d, t) : \A y \in Authorizations(d, t) : x <= y

\* authorize_identity_device: the cursor never goes back.
Resumed(d, earliest) ==
    [earliest |-> earliest, ack |-> Larger(delivery[d].ack, earliest - 1)]

\* A request of a device with a live session and a current authorization.
DeviceReads(d, t) == d \in identity.active /\ Authorizations(d, t) # {}

\* The journal rows that join an envelope.
Joined == {s \in DOMAIN journal : env[journal[s]].state # "none"}

\* Where a pull of device d starts, and where its rows start.
LowerBound(d, t)    == Larger(client[d].cursor, Earliest(d, t) - 1)
RowLowerBound(d, t) == Larger(LowerBound(d, t), head.compacted)

\* The compacted prefix takes one entry of the page.
JournalPage(d, t, n) ==
    FirstOf(n - (IF LowerBound(d, t) < head.compacted THEN 1 ELSE 0),
            {s \in Joined : s > RowLowerBound(d, t) /\ s <= head.next})

Contiguous(low, page) == page = {s \in 1..head.next : s > low /\ s <= low + Cardinality(page)}

\* Mutant of Readable: a page of terminal entries alone is refused.
ReadableWithRows(d, t, n) ==
    /\ LowerBound(d, t) <= head.next
    /\ Contiguous(RowLowerBound(d, t), JournalPage(d, t, n))
    /\ RowLowerBound(d, t) < head.next => JournalPage(d, t, n) # {}

\* The checks of pull_identity_v3; past the first one a failure means that the
\* durable state is corrupt.
Readable(d, t, n) ==
    /\ LowerBound(d, t) <= head.next
    /\ Contiguous(RowLowerBound(d, t), JournalPage(d, t, n))
    /\ JournalPage(d, t, n) = {} =>
          RowLowerBound(d, t) >= head.next \/ LowerBound(d, t) < head.compacted

\* pull_identity_v3: live ciphertext, and terminal ranges for the rest.
PullIdentity(d, t, n, lost) ==
    LET page  == JournalPage(d, t, n)
        first == Earliest(d, t)
        fresh == {s \in page : Expiry[journal[s]] > t /\ Retains(journal[s])} IN
    /\ DeviceReads(d, t)
    /\ Readable(d, t, n)
    /\ delivery' = [delivery EXCEPT ![d] = Resumed(d, first)]
    /\ client' = IF lost THEN client
                 ELSE [client EXCEPT ![d] =
                         [cursor |-> LastOf(page, RowLowerBound(d, t)),
                          floor |-> Larger(@.floor, first - 1),
                          got |-> @.got \cup {<<s, journal[s]>> : s \in fresh}]]
    /\ UNCHANGED <<now, rows, grant, identity, reader>>

\* acknowledge_identity_v2
AckIdentity(d, t, requested) ==
    /\ DeviceReads(d, t)
    /\ requested >= Resumed(d, Earliest(d, t)).ack
    /\ requested <= head.next
    /\ delivery' = [delivery EXCEPT ![d] = [earliest |-> Earliest(d, t), ack |-> requested]]
    /\ UNCHANGED <<now, rows, grant, identity, client, reader>>

\* append_existing_identity: a device is revoked, or something else is recorded.
\* A diverging event, which ends the log and with it every request, is left out.
AppendLog(revoked) ==
    /\ identity.version < MaxVersion
    /\ revoked \subseteq identity.active
    /\ Cardinality(revoked) <= 1
    /\ identity' = [version |-> identity.version + 1, active |-> identity.active \ revoked]
    /\ UNCHANGED <<now, rows, delivery, grant, client, reader>>

-----------------------------------------------------------------------------
(* The retention compactor, under the database clock *)

\* First phase: expired rows of the journal that still have ciphertext.
Lapsed == FirstOf(Budget, {s \in Joined : Expiry[journal[s]] <= now /\ Retains(journal[s])})

RetentionCutoff == now - Retention

\* Second phase: the prefix of the journal that is old and tombstoned.
Collapsible(s, tombstones) ==
    /\ Expiry[journal[s]] <= RetentionCutoff
    /\ s \in tombstones \/ env[journal[s]].state = "expired"

CompactTo(tombstones) ==
    LET blocked == {s \in Joined : s > head.compacted /\ ~Collapsible(s, tombstones)}
    IN  LastOf(FirstOf(Budget, {s \in Joined : /\ s > head.compacted
                                               /\ \A b \in blocked : s < b}),
               head.compacted)

\* Only what was never acknowledged still counted as active.
Released(m, E) == Cardinality({e \in E : MailboxOf[e] = m /\ env[e].state = "available"})

\* Mutant of Dropped: every old tombstone goes, not only the prefix.
DroppedExpired(to, tombstones) == {journal[s] : s \in {x \in Joined : Collapsible(x, tombstones)}}

Dropped(to, tombstones) == {journal[s] : s \in {x \in DOMAIN journal : x > head.compacted /\ x <= to}}

\* compact_expired_identity_deliveries, one transaction.  A wake intent refers
\* to its envelope ON DELETE RESTRICT: one that is still there when the envelope
\* goes fails the transaction, tombstones included.
Compact ==
    LET lapsed  == Lapsed
        to      == CompactTo(lapsed)
        stones  == {journal[s] : s \in lapsed}
        dropped == Dropped(to, lapsed) IN
    /\ lapsed # {} \/ to > head.compacted
    /\ \A e \in dropped : push[e].state = "none"
    /\ box' = [m \in Mailboxes |-> [box[m] EXCEPT !.active = @ - Released(m, stones)]]
    /\ env' = [e \in Envelopes |-> IF e \in dropped THEN NoEnvelope ELSE Tombstoned(stones)[e]]
    /\ journal' = [s \in {x \in DOMAIN journal : x > to \/ x <= head.compacted} |-> journal[s]]
    /\ head' = [head EXCEPT !.compacted = to]
    /\ UNCHANGED <<now, push, delivery, grant, identity, client, reader>>

-----------------------------------------------------------------------------
MailboxStep(t) ==
    \/ \E m \in Mailboxes :
         \/ Register(m, t)
         \/ \E n \in 1..PullLimit, lost \in BOOLEAN : PullMailbox(m, t, n, lost)
         \/ \E A \in SUBSET reader[m].got : AckMailbox(m, t, A)
    \/ \E e \in Sent : EnqueueEnvelope(e, t)
    \/ \E o \in Offers : OfferHistory(o, t)

DeviceStep(d, t) ==
    \/ \E n \in 1..PullLimit, lost \in BOOLEAN : PullIdentity(d, t, n, lost)
    \/ \E a \in 0..client[d].cursor : AckIdentity(d, t, a)

Next ==
    \/ Clock
    \/ Compact
    \/ \E t \in NodeTimes : MailboxStep(t) \/ \E d \in Devices : DeviceStep(d, t)
    \/ \E e \in Envelopes : FinishPush(e) \/ PrunePush(e)
    \/ \E d \in Devices \ {InitialDevice}, by \in Devices, earliest \in 1..MaxEarliest : GrantHistory(d, by, earliest)
    \/ \E revoked \in SUBSET Devices : AppendLog(revoked)

Spec == Init /\ [][Next]_vars

\* The clock runs, the gateway keeps compacting, the broker keeps finishing and
\* pruning, and the initial device keeps pulling.
FairSpec ==
    /\ Spec
    /\ WF_vars(Clock)
    /\ WF_vars(Compact)
    /\ \A e \in Envelopes : WF_vars(FinishPush(e)) /\ WF_vars(PrunePush(e))
    /\ WF_vars(\E t \in NodeTimes : PullIdentity(InitialDevice, t, 1, FALSE))
-----------------------------------------------------------------------------
(* Properties *)

\* The rows are what the tables hold; a mailbox never counts more active
\* envelopes than its quota, and never a negative number.
TypeOK ==
    /\ now \in 0..MaxTime
    /\ box \in [Mailboxes -> [expires: Nat, next: Nat, active: 0..Quota]]
    /\ env \in [Envelopes -> [state: {"none", "available", "acked", "expired"},
                              seq: Nat, earliest: Nat, version: 0..MaxVersion]]
    /\ push \in [Envelopes -> [state: {"none", "open", "closed"}, at: 0..MaxTime]]
    /\ head \in [next: 0..MaxSequence, compacted: 0..MaxSequence]
    /\ head.compacted <= head.next
    /\ DOMAIN journal \subseteq 1..MaxSequence
    /\ \A s \in DOMAIN journal : journal[s] \in Envelopes
    /\ delivery \in [Devices -> [ack: Nat, earliest: Nat]]
    /\ grant \in [Devices -> [earliest: 0..MaxEarliest, by: Devices]]
    /\ identity \in [version: 1..MaxVersion, active: SUBSET Devices]
    /\ client \in [Devices -> [cursor: Nat, floor: Nat, got: SUBSET ((1..MaxSequence) \X Envelopes)]]
    /\ reader \in [Mailboxes -> [cursor: Nat, got: SUBSET Envelopes]]

\* active_envelope_count is the number of available rows, although enqueue,
\* acknowledge, pull, the history offer and the compactor all keep it by adding
\* and subtracting, and the first two from a value they read before an expiry.
ActiveExact ==
    \A m \in Mailboxes : box[m].active = Cardinality({e \in In(m) : env[e].state = "available"})

\* Ciphertext a mailbox retains stays within the quota, acknowledged or not.
RetainedBounded ==
    \A m \in Mailboxes :
        Cardinality({e \in In(m) : env[e].state \in {"available", "acked"}}) <= Quota

\* The journal joins an envelope at every sequence after the compacted prefix and
\* at no other.
JournalContiguous == Joined = (head.compacted + 1)..head.next

\* A pull that does not start beyond the journal passes every other check: none ends
\* in "identity delivery sequence gap" or "identity delivery page unavailable".
PullsReadable ==
    \A d \in Devices, t \in NodeTimes, n \in 1..PullLimit :
        DeviceReads(d, t) /\ LowerBound(d, t) <= head.next => Readable(d, t, n)

\* A device whose cursor passed a sequence it may read has the ciphertext, or
\* the envelope was past its expiry: the acknowledgement of the owner device
\* takes nothing from the others.
NoSilentSkip ==
    \A d \in Devices : \A s \in (client[d].floor + 1)..client[d].cursor :
        \/ s <= head.compacted
        \/ <<s, journal[s]>> \in client[d].got
        \/ Expiry[journal[s]] <= now + Skew

\* An envelope that is garbage collected and retransmitted afterwards is not
\* delivered again under another sequence: its own expiry refuses it.
NoRedelivery ==
    \A d \in Devices : \A p, q \in client[d].got : p[2] = q[2] => p[1] = q[1]

\* The mailbox cursor of the owner never passes a live envelope it did not get.
ReaderNeverSkips ==
    \A m \in Mailboxes : \A e \in In(m) :
        env[e].state = "available" /\ env[e].seq <= reader[m].cursor => e \in reader[m].got

\* Ciphertext that is not past its expiry is kept by every step, and keeps its
\* place in the journal: neither an acknowledgement nor the compactor takes it.
KeepsLive ==
    \A s \in Joined :
        env[journal[s]].state \in {"available", "acked"} /\ Expiry[journal[s]] > now' + Skew
        => /\ env'[journal[s]].state \in {"available", "acked"}
           /\ s \in DOMAIN journal' /\ journal'[s] = journal[s]

\* The acknowledged sequence of a device never goes back, whatever happens to the
\* grant or offer that authorizes it.
KeepsAcks == \A d \in Devices : delivery'[d].ack >= delivery[d].ack

\* The rows of a mailbox are exact: the counter is what it says, and what is retained
\* stays within the quota (enqueue, acknowledge, compact_expired_identity_deliveries).
QuotaExact == TypeOK /\ ActiveExact /\ RetainedBounded

\* The owner of a mailbox misses no live envelope, and nobody gets one twice although
\* collected envelopes are retransmitted (pull, enqueue).
ReaderExact == ReaderNeverSkips /\ NoRedelivery

\* No pull of a device meets a gap, and its cursor passes nothing live it did not get
\* (pull_identity_v3).
DevicesMissNothing == JournalContiguous /\ PullsReadable /\ NoSilentSkip

\* No step takes live ciphertext or its place in the journal away, and no
\* acknowledgement goes back (acknowledge, compact_expired, authorize_identity_device).
NothingTaken == [][KeepsLive /\ KeepsAcks]_vars

\* Again and again the initial device has caught up with the journal while it is active,
\* through live rows, tombstones and a prefix that is compacted behind its back.
DeliveryReachesHead ==
    []<>(client[InitialDevice].cursor >= head.next \/ InitialDevice \notin identity.active)

\* Again and again no ciphertext past its expiry is retained, acknowledged or not, so
\* none counts against the quota for good.
QuotaReleased ==
    []<>(\A e \in Envelopes : env[e].state \in {"available", "acked"} => Expiry[e] > now)

\* Once the replay horizon of a tombstoned prefix has passed, the compactor may
\* collect it: nothing refers to the envelopes it would delete.
HorizonPermitsCollection ==
    \A e \in Dropped(CompactTo(Lapsed), Lapsed) : push[e].state = "none"
=============================================================================
