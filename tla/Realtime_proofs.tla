-------------------------- MODULE Realtime_proofs --------------------------
(***************************************************************************)
(* The realtime journal, for any number of gateways, devices, sockets,     *)
(* events and lost connections: compaction, the publication of its outbox, *)
(* and what a device is told over its sockets.                             *)
(***************************************************************************)
EXTENDS RealtimeSync, RealtimeOutbox, SequenceTheorems, FiniteSetTheorems,
        WellFoundedInduction, TLAPS

OutboxRow == [published : BOOLEAN, claim : Gateways \cup {Nobody, Lapsed}, until : Nat]

\* The claim of a worker covers rows of its batch only, so that a mark names rows the
\* worker has broadcast.  A row below the floor is deleted and out of this.
ClaimsCovered ==
    \A i \in DOMAIN outbox, g \in Gateways :
        outbox[i].claim = g /\ ~outbox[i].published /\ i >= floor =>
            i \in worker[g].batch /\ worker[g].stage # "idle"

SentIsAnnounced == \A g \in Gateways : worker[g].stage = "sent" => worker[g].batch \subseteq announced

\* An outbox row is marked published only after some gateway broadcast its event,
\* although workers die and claims pass from one to another (publish,
\* mark_outbox_published).
PublishedWasBroadcast == \A i \in DOMAIN outbox : outbox[i].published => i \in announced

OutboxRows ==
    /\ JournalTypeOK
    /\ outbox \in Seq(OutboxRow)
    /\ Len(outbox) = Len(journal)
    /\ worker \in [Gateways -> [stage : {"idle", "claimed", "sent"}, batch : SUBSET Cursors]]
    /\ announced \subseteq Cursors
    /\ crashes \in 0 .. MaxCrashes

OutboxInv == OutboxRows /\ ClaimsCovered /\ SentIsAnnounced /\ PublishedWasBroadcast

-----------------------------------------------------------------------------
\* A set of integers between two bounds that is not empty has a largest element.
LEMMA LargestExists ==
    ASSUME NEW low \in Int, NEW high \in Int, NEW S, S \subseteq low .. high, S # {}
    PROVE  \E m \in S : \A y \in S : y <= m
<1> DEFINE T == {high - x : x \in S}
           R == OpToRel(<, Nat)
<1>1. T \subseteq Nat /\ T # {}
  OBVIOUS
<1>2. IsWellFoundedOn(R, Nat)
  BY NatLessThanWellFounded
<1>3. \A x, y \in Nat : x < y => <<x, y>> \in R
  BY DEF OpToRel
<1>4. \A y \in S : high - y \in T
  OBVIOUS
<1>5. \A z \in T : \E m \in S : z = high - m
  OBVIOUS
<1> HIDE DEF R, T
<1>6. PICK t \in T : \A y \in T : ~ (<<y, t>> \in R)
  BY <1>1, <1>2, WFMin
<1>7. \A y \in T : t <= y
  <2> SUFFICES ASSUME NEW y \in T PROVE t <= y
    OBVIOUS
  <2>1. t \in Nat /\ y \in Nat
    BY <1>1
  <2>2. ~ (y < t)
    BY <2>1, <1>3, <1>6, Zenon
  <2> QED  BY <2>1, <2>2
<1>8. PICK m \in S : t = high - m
  BY <1>5
<1> QED  BY <1>4, <1>7, <1>8

\* The floor moves past expired rows only.
LEMMA CompactionMoves ==
    ASSUME JournalTypeOK, CompactExpired
    PROVE  /\ floor' \in 1 .. Len(journal) + 1
           /\ floor' > floor
           /\ \A i \in floor .. floor' - 1 : Expired(i)
<1> DEFINE rows == FirstOf(ExpiredPrefix, BatchLimit)
<1>1. floor \in Int /\ Highwater \in Nat /\ floor >= 1 /\ Highwater = Len(journal)
  BY DEF JournalTypeOK, Highwater
<1>2. rows \subseteq ExpiredPrefix /\ rows \subseteq floor .. Highwater
  BY DEF FirstOf, ExpiredPrefix
<1>3. rows # {} /\ floor' = 1 + CHOOSE i \in rows : \A j \in rows : j <= i
  BY DEF CompactExpired
<1>4. \E m \in rows : \A j \in rows : j <= m
  <2> HIDE DEF rows
  <2>1. floor \in Int /\ Highwater \in Int
    BY <1>1
  <2>2. rows \subseteq floor .. Highwater /\ rows # {}
    BY <1>2, <1>3
  <2> QED  BY ONLY <2>1, <2>2, LargestExists
<1> DEFINE last == CHOOSE i \in rows : \A j \in rows : j <= i
<1>5. last \in rows
  BY <1>4
<1>6. last \in floor .. Highwater /\ \A j \in floor .. last : Expired(j)
  BY <1>2, <1>5 DEF ExpiredPrefix
<1>7. floor' = 1 + last
  BY <1>3
<1> HIDE DEF last
<1> QED  BY <1>1, <1>6, <1>7

\* A function on the positions of the outbox is a sequence of the same length.
LEMMA RewrittenOutbox ==
    ASSUME NEW s \in Seq(OutboxRow), NEW f, f \in [DOMAIN s -> OutboxRow]
    PROVE  f \in Seq(OutboxRow) /\ Len(f) = Len(s) /\ DOMAIN f = DOMAIN s
<1>1. Len(s) \in Nat /\ DOMAIN s = 1 .. Len(s)
  OBVIOUS
<1>2. f \in [1 .. Len(s) -> OutboxRow]
  BY <1>1
<1>3. f \in Seq(OutboxRow)
  BY <1>1, <1>2, SeqDef
<1> QED  BY <1>1, <1>2, <1>3

\* An outbox row with another claim is an outbox row.
LEMMA ClaimReplaced ==
    ASSUME NEW r \in OutboxRow, NEW v \in Gateways \cup {Nobody, Lapsed}
    PROVE  [r EXCEPT !.claim = v] = [published |-> r.published, claim |-> v, until |-> r.until]
BY DEF OutboxRow

\* An outbox row marked published is an outbox row.
LEMMA PublishedReplaced ==
    ASSUME NEW r \in OutboxRow, NEW v \in BOOLEAN
    PROVE  /\ [r EXCEPT !.published = v] = [published |-> v, claim |-> r.claim, until |-> r.until]
           /\ [published |-> v, claim |-> r.claim, until |-> r.until] \in OutboxRow
BY DEF OutboxRow

\* The rows of a gateway that died are outbox rows.
LEMMA AbandonedRows ==
    ASSUME OutboxInv, NEW g \in Gateways
    PROVE  /\ Abandoned(g) \in [DOMAIN outbox -> OutboxRow]
           /\ \A i \in DOMAIN outbox :
                 /\ Abandoned(g)[i].published = outbox[i].published
                 /\ Abandoned(g)[i].claim # g
                 /\ \A k \in Gateways : k # g /\ Abandoned(g)[i].claim = k => outbox[i].claim = k
<1>1. \A i \in DOMAIN outbox : outbox[i] \in OutboxRow
  BY DEF OutboxInv, OutboxRows
<1>2. Nobody \notin Gateways /\ Lapsed \notin Gateways
  BY OutboxConstants DEF Nobody, Lapsed
<1>3. ASSUME NEW i \in DOMAIN outbox
      PROVE  /\ Abandoned(g)[i] \in OutboxRow
             /\ Abandoned(g)[i].published = outbox[i].published
             /\ Abandoned(g)[i].claim # g
             /\ \A k \in Gateways : k # g /\ Abandoned(g)[i].claim = k => outbox[i].claim = k
  BY <1>1, <1>2, <1>3 DEF Abandoned, OutboxRow
<1> QED  BY <1>3 DEF Abandoned

\* A step that leaves the outbox, the workers and the broadcasts alone.
LEMMA OutboxIdle ==
    ASSUME OutboxInv, UNCHANGED <<journal, outbox, worker, announced, crashes>>,
           JournalTypeOK', floor' >= floor
    PROVE  OutboxInv'
<1>1. OutboxRows'
  BY DEF OutboxInv, OutboxRows
<1>2. SentIsAnnounced' /\ PublishedWasBroadcast'
  BY DEF OutboxInv, SentIsAnnounced, PublishedWasBroadcast
<1>3. ASSUME NEW i \in DOMAIN outbox', NEW g \in Gateways,
             outbox'[i].claim = g, ~outbox'[i].published, i >= floor'
      PROVE  i \in worker'[g].batch /\ worker'[g].stage # "idle"
  <2>1. i \in Nat /\ floor \in Nat /\ floor' \in Nat
    BY <1>3 DEF OutboxInv, OutboxRows, JournalTypeOK
  <2>2. i >= floor
    BY <1>3, <2>1
  <2> QED  BY <1>3, <2>2 DEF OutboxInv, ClaimsCovered
<1> QED  BY <1>1, <1>2, <1>3 DEF OutboxInv, ClaimsCovered

\* A new event has no claim and is not published (append).
LEMMA AppendKeeps ==
    ASSUME OutboxInv, NEW ttl \in Nat, AppendWithOutbox(rtNow + ttl)
    PROVE  OutboxInv'
<1> DEFINE row == [published |-> FALSE, claim |-> Nobody, until |-> 0]
<1>1. /\ journal' = Append(journal, rtNow + ttl) /\ outbox' = Append(outbox, row)
      /\ Highwater < MaxCursor
      /\ UNCHANGED <<rtNow, floor, worker, announced, crashes>>
  BY DEF AppendWithOutbox, AppendEvent
<1>2. /\ rtNow \in 0 .. RtMaxTime /\ rtNow + ttl \in Nat
      /\ journal \in Seq(Nat) /\ outbox \in Seq(OutboxRow) /\ row \in OutboxRow
      /\ Len(outbox) = Len(journal)
      /\ floor \in 1 .. Len(journal) + 1
  BY JournalConstants DEF OutboxInv, OutboxRows, JournalTypeOK, OutboxRow
<1> HIDE DEF row
<1>3. /\ journal' \in Seq(Nat) /\ Len(journal') = Len(journal) + 1
      /\ outbox' \in Seq(OutboxRow) /\ Len(outbox') = Len(outbox) + 1
      /\ \A i \in DOMAIN outbox : i \in DOMAIN outbox' /\ outbox'[i] = outbox[i]
      /\ \A i \in DOMAIN outbox' : i \in DOMAIN outbox \/ outbox'[i] = row
  BY <1>1, <1>2
<1>4. Len(journal') <= MaxCursor
  BY <1>1, <1>2, <1>3, JournalConstants DEF Highwater
<1>5. JournalTypeOK'
  BY <1>1, <1>2, <1>3, <1>4 DEF JournalTypeOK
<1>6. OutboxRows'
  BY <1>1, <1>2, <1>3, <1>5 DEF OutboxInv, OutboxRows
<1>7. Nobody \notin Gateways /\ row.claim = Nobody /\ row.published = FALSE
  BY OutboxConstants DEF Nobody, row
<1>8. ClaimsCovered'
  BY <1>1, <1>3, <1>7 DEF OutboxInv, ClaimsCovered
<1>9. SentIsAnnounced' /\ PublishedWasBroadcast'
  BY <1>1, <1>3, <1>7 DEF OutboxInv, SentIsAnnounced, PublishedWasBroadcast
<1> QED  BY <1>6, <1>8, <1>9 DEF OutboxInv

\* A claim covers exactly the batch the worker then holds (claim_outbox).
LEMMA ClaimKeeps ==
    ASSUME OutboxInv, NEW g \in Gateways, ClaimOutbox(g)
    PROVE  OutboxInv'
<1> DEFINE rows == FirstOf({i \in DOMAIN outbox : Claimable(i)}, BatchLimit)
           mine == [published |-> FALSE, claim |-> g, until |-> rtNow + ClaimTtl]
<1>1. /\ outbox' = [i \in DOMAIN outbox |-> IF i \in rows THEN mine ELSE Abandoned(g)[i]]
      /\ worker' = [worker EXCEPT ![g] = [stage |-> "claimed", batch |-> rows]]
      /\ UNCHANGED <<journalVars, announced, crashes>>
  BY DEF ClaimOutbox
<1>2. rows \subseteq DOMAIN outbox
  BY DEF FirstOf
<1>3. mine \in OutboxRow /\ mine.claim = g /\ mine.published = FALSE
  BY JournalConstants, OutboxConstants DEF OutboxInv, OutboxRows, JournalTypeOK, OutboxRow
<1> HIDE DEF rows, mine
<1>4. /\ outbox' \in Seq(OutboxRow) /\ Len(outbox') = Len(outbox)
      /\ DOMAIN outbox' = DOMAIN outbox
      /\ \A i \in DOMAIN outbox :
            outbox'[i] = IF i \in rows THEN mine ELSE Abandoned(g)[i]
  <2>1. outbox \in Seq(OutboxRow)
    BY DEF OutboxInv, OutboxRows
  <2>2. outbox' \in [DOMAIN outbox -> OutboxRow]
    BY <1>1, <1>3, AbandonedRows
  <2> QED  BY <1>1, <2>1, <2>2, RewrittenOutbox
<1>5. rows \subseteq Cursors
  <2>1. DOMAIN outbox = 1 .. Len(outbox) /\ Len(outbox) \in Nat /\ Len(outbox) <= MaxCursor
    BY DEF OutboxInv, OutboxRows, JournalTypeOK
  <2> QED  BY <1>2, <2>1, JournalConstants DEF Cursors
<1>6. /\ worker' \in [Gateways -> [stage : {"idle", "claimed", "sent"}, batch : SUBSET Cursors]]
      /\ worker'[g] = [stage |-> "claimed", batch |-> rows]
      /\ \A k \in Gateways : k # g => worker'[k] = worker[k]
  BY <1>1, <1>5 DEF OutboxInv, OutboxRows
<1>7. OutboxRows'
  BY <1>1, <1>4, <1>6 DEF OutboxInv, OutboxRows, JournalTypeOK, journalVars
<1>8. ASSUME NEW i \in DOMAIN outbox', NEW k \in Gateways,
             outbox'[i].claim = k, ~outbox'[i].published, i >= floor'
      PROVE  i \in worker'[k].batch /\ worker'[k].stage # "idle"
  <2>1. CASE i \in rows
    BY <1>3, <1>4, <1>6, <1>8, <2>1
  <2>2. CASE i \notin rows
    <3>1. k # g /\ outbox[i].claim = k /\ ~outbox[i].published
      BY <1>4, <1>8, <2>2, AbandonedRows
    <3> QED  BY <1>1, <1>4, <1>6, <1>8, <3>1 DEF OutboxInv, ClaimsCovered, journalVars
  <2> QED  BY <2>1, <2>2
<1>9. SentIsAnnounced'
  BY <1>1, <1>6 DEF OutboxInv, SentIsAnnounced
<1>10. PublishedWasBroadcast'
  BY <1>1, <1>3, <1>4, AbandonedRows DEF OutboxInv, PublishedWasBroadcast
<1> QED  BY <1>7, <1>8, <1>9, <1>10 DEF OutboxInv, ClaimsCovered

\* A broadcast announces the batch of the worker (publish).
LEMMA BroadcastKeeps ==
    ASSUME OutboxInv, NEW g \in Gateways, Broadcast(g)
    PROVE  OutboxInv'
<1>1. /\ worker' = [worker EXCEPT ![g].stage = "sent"]
      /\ announced' = announced \cup worker[g].batch
      /\ worker[g].stage = "claimed"
      /\ UNCHANGED <<journalVars, outbox, crashes>>
  BY DEF Broadcast
<1>2. /\ worker' \in [Gateways -> [stage : {"idle", "claimed", "sent"}, batch : SUBSET Cursors]]
      /\ worker'[g].stage = "sent" /\ worker'[g].batch = worker[g].batch
      /\ \A k \in Gateways : k # g => worker'[k] = worker[k]
      /\ worker[g].batch \subseteq Cursors
  BY <1>1 DEF OutboxInv, OutboxRows
<1>3. OutboxRows'
  BY <1>1, <1>2 DEF OutboxInv, OutboxRows, JournalTypeOK, journalVars
<1>4. ClaimsCovered'
  BY <1>1, <1>2 DEF OutboxInv, ClaimsCovered, journalVars
<1>5. SentIsAnnounced' /\ PublishedWasBroadcast'
  BY <1>1, <1>2 DEF OutboxInv, SentIsAnnounced, PublishedWasBroadcast
<1> QED  BY <1>3, <1>4, <1>5 DEF OutboxInv

\* A mark names rows the worker claimed, which it has broadcast (mark_outbox_published).
LEMMA MarkKeeps ==
    ASSUME OutboxInv, NEW g \in Gateways, MarkPublished(g)
    PROVE  OutboxInv'
<1> DEFINE marked(i) == outbox[i].claim = g /\ i >= floor
<1>1. /\ worker[g].stage = "sent"
      /\ outbox' = [i \in DOMAIN outbox |->
                       IF marked(i) THEN [outbox[i] EXCEPT !.published = TRUE] ELSE outbox[i]]
      /\ worker' = [worker EXCEPT ![g] = Idle]
      /\ UNCHANGED <<journalVars, announced, crashes>>
  BY DEF MarkPublished, MayMark
<1>2. \A i \in DOMAIN outbox : outbox[i] \in OutboxRow
  BY DEF OutboxInv, OutboxRows
<1>3. ASSUME NEW r \in OutboxRow
      PROVE  /\ [r EXCEPT !.published = TRUE] =
                   [published |-> TRUE, claim |-> r.claim, until |-> r.until]
             /\ [published |-> TRUE, claim |-> r.claim, until |-> r.until] \in OutboxRow
  BY PublishedReplaced, Zenon
<1>4. /\ outbox' \in [DOMAIN outbox -> OutboxRow]
      /\ \A i \in DOMAIN outbox :
            /\ outbox'[i].claim = outbox[i].claim
            /\ marked(i) => outbox'[i].published = TRUE
            /\ ~marked(i) => outbox'[i].published = outbox[i].published
  <2>1. ASSUME NEW i \in DOMAIN outbox
        PROVE  outbox'[i] = IF marked(i)
                  THEN [published |-> TRUE, claim |-> outbox[i].claim, until |-> outbox[i].until]
                  ELSE outbox[i]
    <3> HIDE DEF marked
    <3>1. outbox'[i] = IF marked(i) THEN [outbox[i] EXCEPT !.published = TRUE] ELSE outbox[i]
      BY <1>1
    <3> QED  BY <1>2, <1>3, <3>1
  <2>2. DOMAIN outbox' = DOMAIN outbox /\ outbox' = [i \in DOMAIN outbox' |-> outbox'[i]]
    BY <1>1
  <2>3. \A i \in DOMAIN outbox : outbox'[i] \in OutboxRow
    BY <1>2, <1>3, <2>1, Zenon
  <2> QED  BY <2>1, <2>2, <2>3
<1>5. /\ outbox' \in Seq(OutboxRow) /\ Len(outbox') = Len(outbox)
      /\ DOMAIN outbox' = DOMAIN outbox
  BY <1>4, RewrittenOutbox DEF OutboxInv, OutboxRows
<1>6. /\ worker' \in [Gateways -> [stage : {"idle", "claimed", "sent"}, batch : SUBSET Cursors]]
      /\ worker'[g] = Idle
      /\ \A k \in Gateways : k # g => worker'[k] = worker[k]
  BY <1>1 DEF OutboxInv, OutboxRows, Idle
<1>7. OutboxRows'
  BY <1>1, <1>5, <1>6 DEF OutboxInv, OutboxRows, JournalTypeOK, journalVars
<1>8. ASSUME NEW i \in DOMAIN outbox', NEW k \in Gateways,
             outbox'[i].claim = k, ~outbox'[i].published, i >= floor'
      PROVE  i \in worker'[k].batch /\ worker'[k].stage # "idle"
  <2>1. i \in DOMAIN outbox /\ floor' = floor
    BY <1>1, <1>5 DEF journalVars
  <2>2. ~marked(i)
    BY <1>4, <1>8, <2>1
  <2>3. k # g /\ outbox[i].claim = k /\ ~outbox[i].published
    BY <1>4, <1>8, <2>1, <2>2
  <2> QED  BY <1>6, <1>8, <2>1, <2>3 DEF OutboxInv, ClaimsCovered
<1>9. SentIsAnnounced'
  BY <1>1, <1>6 DEF OutboxInv, SentIsAnnounced, Idle
<1>10. ASSUME NEW i \in DOMAIN outbox', outbox'[i].published
       PROVE  i \in announced'
  <2>1. i \in DOMAIN outbox /\ announced' = announced
    BY <1>1, <1>5
  <2>2. CASE outbox[i].published
    BY <2>1, <2>2 DEF OutboxInv, PublishedWasBroadcast
  <2>3. CASE ~outbox[i].published
    <3>1. marked(i)
      BY <1>4, <1>10, <2>1, <2>3
    <3>2. i \in worker[g].batch
      BY <2>1, <2>3, <3>1 DEF OutboxInv, ClaimsCovered
    <3> QED  BY <1>1, <2>1, <3>2 DEF OutboxInv, SentIsAnnounced
  <2> QED  BY <2>2, <2>3
<1> QED  BY <1>7, <1>8, <1>9, <1>10 DEF OutboxInv, ClaimsCovered, PublishedWasBroadcast

\* A worker that dies or gives up leaves no claim without a batch.
LEMMA FailureKeeps ==
    ASSUME OutboxInv, NEW g \in Gateways, CycleFails(g)
    PROVE  OutboxInv'
<1>1. /\ worker' = [worker EXCEPT ![g] = Idle] /\ outbox' = Abandoned(g)
      /\ crashes' = crashes + 1 /\ crashes < MaxCrashes
      /\ UNCHANGED <<journalVars, announced>>
  BY DEF CycleFails
<1>2. /\ outbox' \in Seq(OutboxRow) /\ Len(outbox') = Len(outbox)
      /\ DOMAIN outbox' = DOMAIN outbox
  BY <1>1, AbandonedRows, RewrittenOutbox DEF OutboxInv, OutboxRows
<1>3. /\ worker' \in [Gateways -> [stage : {"idle", "claimed", "sent"}, batch : SUBSET Cursors]]
      /\ worker'[g] = Idle
      /\ \A k \in Gateways : k # g => worker'[k] = worker[k]
  BY <1>1 DEF OutboxInv, OutboxRows, Idle
<1>4. crashes' \in 0 .. MaxCrashes
  BY <1>1, OutboxConstants DEF OutboxInv, OutboxRows
<1>5. OutboxRows'
  BY <1>1, <1>2, <1>3, <1>4 DEF OutboxInv, OutboxRows, JournalTypeOK, journalVars
<1>6. ASSUME NEW i \in DOMAIN outbox', NEW k \in Gateways,
             outbox'[i].claim = k, ~outbox'[i].published, i >= floor'
      PROVE  i \in worker'[k].batch /\ worker'[k].stage # "idle"
  <2>1. k # g /\ outbox[i].claim = k /\ ~outbox[i].published
    BY <1>1, <1>2, <1>6, AbandonedRows
  <2> QED  BY <1>1, <1>2, <1>3, <1>6, <2>1 DEF OutboxInv, ClaimsCovered, journalVars
<1>7. SentIsAnnounced'
  BY <1>1, <1>3 DEF OutboxInv, SentIsAnnounced, Idle
<1>8. PublishedWasBroadcast'
  BY <1>1, <1>2, AbandonedRows DEF OutboxInv, PublishedWasBroadcast
<1> QED  BY <1>5, <1>6, <1>7, <1>8 DEF OutboxInv, ClaimsCovered

-----------------------------------------------------------------------------
\* An empty outbox satisfies the invariant.
LEMMA OutboxInvInit == OutboxInit => OutboxInv
<1> SUFFICES ASSUME OutboxInit PROVE OutboxInv
  OBVIOUS
<1>1. JournalTypeOK
  BY JournalConstants DEF OutboxInit, JournalInit, JournalTypeOK
<1>2. OutboxRows
  BY <1>1, OutboxConstants DEF OutboxInit, JournalInit, OutboxRows, Idle
<1>3. ClaimsCovered /\ SentIsAnnounced /\ PublishedWasBroadcast
  BY DEF OutboxInit, ClaimsCovered, SentIsAnnounced, PublishedWasBroadcast, Idle
<1> QED  BY <1>2, <1>3 DEF OutboxInv

\* Every step of the journal and of the publishers keeps it.
LEMMA OutboxInvStep == OutboxInv /\ [OutboxNext]_outboxVars => OutboxInv'
<1> SUFFICES ASSUME OutboxInv, [OutboxNext]_outboxVars PROVE OutboxInv'
  OBVIOUS
<1>0. JournalTypeOK
  BY DEF OutboxInv, OutboxRows
<1>1. ASSUME NEW ttl \in DeliveryTtls \cup {RtRetention}, AppendWithOutbox(rtNow + ttl)
      PROVE  OutboxInv'
  BY <1>1, AppendKeeps, JournalConstants
<1>2. ASSUME NEW g \in Gateways,
             ClaimOutbox(g) \/ Broadcast(g) \/ MarkPublished(g) \/ CycleFails(g)
      PROVE  OutboxInv'
  BY <1>2, ClaimKeeps, BroadcastKeeps, MarkKeeps, FailureKeeps
<1>3. CASE CompactExpired /\ UNCHANGED <<outbox, worker, announced, crashes>>
  <2>1. JournalTypeOK' /\ floor' >= floor /\ UNCHANGED journal
    BY <1>0, <1>3, CompactionMoves DEF JournalTypeOK, CompactExpired
  <2> QED  BY <1>3, <2>1, OutboxIdle
<1>4. CASE OutboxTick
  <2>1. JournalTypeOK' /\ floor' >= floor /\ UNCHANGED journal
    BY <1>0, <1>4, JournalConstants DEF JournalTypeOK, OutboxTick, JournalTick
  <2> QED  BY <1>4, <2>1, OutboxIdle DEF OutboxTick
<1>5. CASE UNCHANGED outboxVars
  <2>1. JournalTypeOK' /\ floor' >= floor /\ UNCHANGED journal
    BY <1>0, <1>5 DEF JournalTypeOK, outboxVars, journalVars
  <2> QED  BY <1>5, <2>1, OutboxIdle DEF outboxVars
<1> QED  BY <1>1, <1>2, <1>3, <1>4, <1>5 DEF OutboxNext

\* For any number of gateways, events and crashes: the rows are well typed, and a row is
\* marked published only after its event was broadcast, whichever worker broadcast it and
\* whichever died (claim_outbox, publish, mark_outbox_published).
THEOREM PublishedAfterBroadcast == OutboxSpec => [](OutboxTypeOK /\ PublishedWasBroadcast)
<1>1. OutboxInv => OutboxTypeOK /\ PublishedWasBroadcast
  <2> SUFFICES ASSUME OutboxInv PROVE OutboxTypeOK /\ PublishedWasBroadcast
    OBVIOUS
  <2>1. \A i \in DOMAIN outbox : outbox[i] \in OutboxRow
    BY DEF OutboxInv, OutboxRows
  <2>2. Len(outbox) <= Len(journal)
    BY DEF OutboxInv, OutboxRows, JournalTypeOK
  <2> QED  BY <2>1, <2>2 DEF OutboxInv, OutboxRows, OutboxTypeOK, OutboxRow
<1> QED  BY <1>1, OutboxInvInit, OutboxInvStep, PTL DEF OutboxSpec

\* For any lifetimes and batch limits: no compaction step deletes an event before it
\* expired (realtime.compact_expired).
THEOREM CompactionSafe == OutboxSpec => CompactionSparesLive
<1>1. OutboxInv /\ [OutboxNext]_outboxVars =>
         [\A i \in floor .. floor' - 1 : Expired(i)]_journalVars
  <2> SUFFICES ASSUME OutboxInv, [OutboxNext]_outboxVars
               PROVE  \A i \in floor .. floor' - 1 : Expired(i)
    OBVIOUS
  <2>1. JournalTypeOK /\ floor \in Nat
    BY DEF OutboxInv, OutboxRows, JournalTypeOK
  <2>2. CASE CompactExpired
    BY <2>1, <2>2, CompactionMoves
  <2>3. CASE UNCHANGED floor
    BY <2>1, <2>3
  <2>4. CompactExpired \/ UNCHANGED floor
    BY DEF OutboxNext, outboxVars, journalVars, AppendWithOutbox, AppendEvent, ClaimOutbox,
           Broadcast, MarkPublished, CycleFails, OutboxTick, JournalTick
  <2> QED  BY <2>2, <2>3, <2>4
<1> QED  BY <1>1, OutboxInvInit, OutboxInvStep, PTL DEF OutboxSpec, CompactionSparesLive

-----------------------------------------------------------------------------
(* The stream of a device, for any number of devices, sockets and lost connections. *)

ConnRow == [phase : {"closed", "hello", "open"}, fence : 0 .. MaxFence, until : Nat, next : Nat]
OpRow == [conn : Conns \cup {NoConn}, stage : {"none", "begun", "head", "send", "catchup"},
          high : Nat, at : Nat, page : Seq(Cursors)]

SyncRows ==
    /\ JournalTypeOK
    /\ lease \in [RtDevices -> [fence : 0 .. MaxFence, until : Nat]]
    /\ syncAck \in [RtDevices -> Nat]
    /\ revoked \subseteq RtDevices
    /\ conn \in [Conns -> ConnRow]
    /\ op \in OpRow
    /\ wire \in [Conns -> Seq(Cursors)]
    /\ live \subseteq Conns
    /\ cursor \in [RtDevices -> Nat]
    /\ told \in [RtDevices -> SUBSET Cursors]
    /\ faults \in 0 .. MaxFaults

\* No cursor anywhere is beyond the end of the journal.
SyncBounds ==
    /\ \A d \in RtDevices : syncAck[d] <= Len(journal) /\ cursor[d] <= Len(journal)
    /\ \A k \in Conns : conn[k].next <= Len(journal)
    /\ op.high <= Len(journal)

\* The gateway's copy of a lease never outlasts the row, even one that was taken over.
LeaseCovers ==
    /\ \A k \in Conns : conn[k].until <= lease[DeviceOf[k]].until
    /\ \A d \in RtDevices : lease[d].until <= rtNow + LeaseTtl

\* The client has one socket for a device at most, and a gateway serves it.
Served ==
    /\ \A k \in live : conn[k].phase # "closed"
    /\ \A k, j \in live : DeviceOf[k] = DeviceOf[j] => k = j
    /\ \A k \in Conns : k \notin live => wire[k] = <<>>

\* What is on its way to a client follows its cursor without a gap and ends where the
\* gateway goes on.
Connected ==
    \A k \in live :
        /\ \A n \in 1 .. Len(wire[k]) : wire[k][n] = cursor[DeviceOf[k]] + n
        /\ conn[k].next = cursor[DeviceOf[k]] + Len(wire[k])

\* The operation holds the lock, so what it checked when it began is still so.
Held ==
    /\ op.conn = NoConn => op = NoOp
    /\ op.conn # NoConn =>
          /\ op.stage # "none"
          /\ conn[op.conn].phase = "open"
          /\ conn[op.conn].fence = lease[DeviceOf[op.conn]].fence
          /\ DeviceOf[op.conn] \notin revoked
    /\ op.at <= rtNow
    /\ op.stage = "send" =>
          \A n \in 1 .. Len(op.page) :
              op.page[n] = conn[op.conn].next + n /\ op.page[n] <= Len(journal)

\* Rows below the floor have expired.
Compacted == \A i \in 1 .. floor - 1 : Expired(i)

Told == \A d \in RtDevices : 1 .. cursor[d] \subseteq told[d]

SyncInv ==
    /\ SyncRows /\ SyncBounds /\ LeaseCovers /\ Served /\ Connected /\ Held /\ Compacted
    /\ Told /\ CatchUpJustified

-----------------------------------------------------------------------------
\* A step that changes the operation and nothing else.
LEMMA OperationKeeps ==
    ASSUME SyncInv, op' \in OpRow, op'.high <= Len(journal), Held', CatchUpJustified',
           UNCHANGED <<journalVars, lease, syncAck, revoked, conn, wire, live, cursor, told,
                       faults>>
    PROVE  SyncInv'
<1>1. SyncRows'
  BY DEF SyncInv, SyncRows, JournalTypeOK, journalVars
<1>2. SyncBounds' /\ LeaseCovers'
  BY DEF SyncInv, SyncBounds, LeaseCovers, journalVars
<1>3. Served' /\ Connected' /\ Told'
  BY DEF SyncInv, Served, Connected, Told
<1>4. Compacted'
  BY DEF SyncInv, Compacted, Expired, journalVars
<1> QED  BY <1>1, <1>2, <1>3, <1>4 DEF SyncInv

\* Events are appended and expire, the floor moves, a device is revoked: the sockets and
\* the operation of another device do not notice.
LEMMA JournalKeeps ==
    ASSUME SyncInv, JournalTypeOK', Len(journal') >= Len(journal), rtNow' >= rtNow,
           \A i \in 1 .. Len(journal) : journal'[i] = journal[i],
           Compacted', revoked' \subseteq RtDevices, op.conn # NoConn => revoked' = revoked,
           UNCHANGED <<lease, syncAck, conn, op, wire, live, cursor, told, faults>>
    PROVE  SyncInv'
<1>1. /\ Len(journal) \in Nat /\ Len(journal') \in Nat /\ rtNow \in Nat /\ rtNow' \in Nat
      /\ journal \in Seq(Nat) /\ journal' \in Seq(Nat)
  BY JournalConstants DEF SyncInv, SyncRows, JournalTypeOK
<1>2. SyncRows'
  BY DEF SyncInv, SyncRows
<1>3. SyncBounds'
  BY <1>1 DEF SyncInv, SyncRows, SyncBounds, ConnRow, OpRow
<1>4. LeaseCovers'
  BY <1>1, RealtimeConstants DEF SyncInv, SyncRows, LeaseCovers
<1>5. Served' /\ Connected' /\ Told'
  BY DEF SyncInv, Served, Connected, Told
<1>6. Held'
  <2>1. op \in OpRow /\ op.page \in Seq(Cursors) /\ op.at \in Nat
    BY DEF SyncInv, SyncRows, OpRow
  <2>2. \A n \in 1 .. Len(op.page) : op.page[n] \in Nat
    BY <2>1, JournalConstants DEF Cursors
  <2> QED  BY <1>1, <2>1, <2>2 DEF SyncInv, Held
<1>7. CatchUpJustified'
  <2> SUFFICES ASSUME op.stage = "catchup"
               PROVE  \E i \in conn[op.conn].next + 1 .. Len(journal') : journal'[i] <= rtNow'
    BY DEF CatchUpJustified, Highwater, Expired
  <2>1. op.conn \in Conns
    BY DEF SyncInv, SyncRows, OpRow, Held, NoOp
  <2>2. PICK i \in conn[op.conn].next + 1 .. Len(journal) : journal[i] <= rtNow
    BY DEF SyncInv, CatchUpJustified, Highwater, Expired
  <2>3. conn[op.conn].next \in Nat
    BY <2>1 DEF SyncInv, SyncRows, ConnRow
  <2>4. i \in 1 .. Len(journal) /\ i \in conn[op.conn].next + 1 .. Len(journal')
    BY <1>1, <2>3
  <2>5. journal[i] \in Nat
    BY <1>1, <2>4
  <2> QED  BY <1>1, <2>2, <2>4, <2>5, SMTT(40)
<1> QED  BY <1>2, <1>3, <1>4, <1>5, <1>6, <1>7 DEF SyncInv

\* A socket is closed, and with it the operation if it was its own.
LEMMA DropKeeps ==
    ASSUME SyncInv, NEW k \in Conns, Dropped(k), faults' \in 0 .. MaxFaults,
           op' = NoOp \/ (op' = op /\ op.conn # k),
           UNCHANGED <<journalVars, lease, syncAck, revoked, cursor, told>>
    PROVE  SyncInv'
<1>1. /\ conn' = [conn EXCEPT ![k] = Closed] /\ wire' = [wire EXCEPT ![k] = <<>>]
      /\ live' = live \ {k}
  BY DEF Dropped
<1>2. /\ conn' \in [Conns -> ConnRow] /\ conn'[k] = Closed
      /\ \A j \in Conns : j # k => conn'[j] = conn[j]
  BY <1>1, RealtimeConstants DEF SyncInv, SyncRows, ConnRow, Closed
<1>3. /\ wire' \in [Conns -> Seq(Cursors)] /\ wire'[k] = <<>>
      /\ \A j \in Conns : j # k => wire'[j] = wire[j]
  BY <1>1 DEF SyncInv, SyncRows
<1>4. NoOp \in OpRow /\ NoOp.conn = NoConn /\ NoOp.stage = "none" /\ NoOp.high = 0 /\ NoOp.at = 0
  BY DEF NoOp, OpRow
<1>5. Len(journal) \in Nat /\ rtNow \in Nat
  BY JournalConstants DEF SyncInv, SyncRows, JournalTypeOK
<1>6. SyncRows'
  BY <1>1, <1>2, <1>3, <1>4 DEF SyncInv, SyncRows, JournalTypeOK, journalVars
<1>7. SyncBounds'
  BY <1>2, <1>4, <1>5 DEF SyncInv, SyncBounds, journalVars, Closed
<1>8. LeaseCovers'
  <2>1. \A d \in RtDevices : lease[d].until \in Nat
    BY DEF SyncInv, SyncRows
  <2>2. DeviceOf[k] \in RtDevices /\ Closed.until = 0
    BY RealtimeConstants DEF Closed
  <2>3. \A d \in RtDevices : 0 <= lease[d].until
    BY <2>1
  <2> QED  BY <1>2, <2>2, <2>3 DEF SyncInv, LeaseCovers, journalVars
<1>9. Served' /\ Connected' /\ Told'
  BY <1>1, <1>2, <1>3 DEF SyncInv, SyncRows, Served, Connected, Told
<1>10. Held'
  <2>1. CASE op' = NoOp
    BY <1>4, <1>5, <2>1 DEF Held, journalVars
  <2>2. CASE op' = op /\ op.conn # k
    <3>1. op.conn # NoConn => op.conn \in Conns
      BY DEF SyncInv, SyncRows, OpRow
    <3>2. op.stage = "send" => op.conn # NoConn
      BY DEF SyncInv, Held, NoOp
    <3> QED  BY <1>2, <2>2, <3>1, <3>2 DEF SyncInv, Held, journalVars
  <2> QED  BY <2>1, <2>2
<1>11. Compacted'
  BY DEF SyncInv, Compacted, Expired, journalVars
<1>12. CatchUpJustified'
  BY <1>2, <1>4 DEF SyncInv, SyncRows, OpRow, Held, CatchUpJustified, Expired, Highwater, journalVars
<1> QED  BY <1>6, <1>7, <1>8, <1>9, <1>10, <1>11, <1>12 DEF SyncInv

-----------------------------------------------------------------------------
(* The writers. *)

\* An appended event is live, new to every device, and leaves the earlier ones alone.
LEMMA EventAppended ==
    ASSUME SyncInv, NEW ttl \in Nat, AppendEvent(rtNow + ttl)
    PROVE  /\ JournalTypeOK' /\ Len(journal') >= Len(journal) /\ rtNow' >= rtNow
           /\ \A i \in 1 .. Len(journal) : journal'[i] = journal[i]
           /\ Compacted'
<1>1. /\ journal' = Append(journal, rtNow + ttl) /\ Len(journal) < MaxCursor
      /\ rtNow' = rtNow /\ floor' = floor
  BY DEF AppendEvent, Highwater
<1>2. /\ rtNow \in 0 .. RtMaxTime /\ journal \in Seq(Nat) /\ floor \in 1 .. Len(journal) + 1
  BY DEF SyncInv, SyncRows, JournalTypeOK
<1>3. rtNow + ttl \in Nat /\ rtNow \in Nat
  BY <1>2, JournalConstants
<1>4. /\ journal' \in Seq(Nat) /\ Len(journal') = Len(journal) + 1
      /\ \A i \in 1 .. Len(journal) : journal'[i] = journal[i]
  BY <1>1, <1>2, <1>3
<1>5. JournalTypeOK'
  BY <1>1, <1>2, <1>4, JournalConstants DEF JournalTypeOK
<1>6. Compacted'
  BY <1>1, <1>2, <1>4 DEF SyncInv, Compacted, Expired
<1> QED  BY <1>1, <1>2, <1>3, <1>4, <1>5, <1>6

\* Appends and revocations keep the invariant: what a device was told stays told.
LEMMA WritersKeep ==
    ASSUME SyncInv,
           \/ \E ttl \in DeliveryTtls : AppendDelivery(ttl)
           \/ AppendRead
           \/ \E d \in RtDevices : RevokeDevice(d)
    PROVE  SyncInv'
<1>0. revoked \subseteq RtDevices /\ NoOp.conn = NoConn
  BY DEF SyncInv, SyncRows, NoOp
<1>1. ASSUME NEW ttl \in DeliveryTtls, AppendDelivery(ttl) PROVE SyncInv'
  BY <1>0, <1>1, EventAppended, JournalKeeps, JournalConstants DEF AppendDelivery
<1>2. CASE AppendRead
  BY <1>0, <1>2, EventAppended, JournalKeeps, JournalConstants DEF AppendRead
<1>3. ASSUME NEW d \in RtDevices, RevokeDevice(d) PROVE SyncInv'
  BY <1>0, <1>3, EventAppended, JournalKeeps, JournalConstants DEF RevokeDevice, LockFree
<1> QED  BY <1>1, <1>2, <1>3

\* Compaction moves the floor over expired events only (compact_expired).
LEMMA CompactKeeps == ASSUME SyncInv, CompactJournal PROVE SyncInv'
<1>1. /\ JournalTypeOK /\ UNCHANGED <<rtNow, journal>> /\ CompactExpired
      /\ rtNow \in Nat /\ journal \in Seq(Nat)
  BY JournalConstants DEF SyncInv, SyncRows, CompactJournal, CompactExpired, JournalTypeOK
<1>2. /\ floor' \in 1 .. Len(journal) + 1 /\ floor' > floor /\ floor \in Nat
      /\ \A i \in floor .. floor' - 1 : Expired(i)
  BY <1>1, CompactionMoves DEF JournalTypeOK
<1>3. JournalTypeOK'
  BY <1>1, <1>2 DEF JournalTypeOK
<1>4. Compacted'
  <2>0. PICK f \in Nat : f = floor'
    BY <1>1, <1>2
  <2> SUFFICES ASSUME NEW i \in 1 .. f - 1 PROVE Expired(i)'
    BY <2>0 DEF Compacted
  <2>1. CASE i < floor
    BY <1>1, <1>2, <2>1 DEF SyncInv, Compacted, Expired
  <2>2. CASE i >= floor
    <3>1. i \in floor .. f - 1
      BY <1>2, <2>2
    <3>2. Expired(i)
      BY <1>2, <2>0, <3>1
    <3> QED  BY <1>1, <3>2 DEF Expired
  <2> QED  BY <1>2, <2>1, <2>2
<1>5. revoked' = revoked /\ revoked \subseteq RtDevices
  BY DEF SyncInv, SyncRows, CompactJournal
<1> QED  BY <1>1, <1>3, <1>4, <1>5, JournalKeeps DEF CompactJournal

\* Time lets events and leases expire but tells nobody anything.
LEMMA TickKeeps == ASSUME SyncInv, RealtimeTick PROVE SyncInv'
<1>1. /\ JournalTypeOK /\ UNCHANGED <<floor, journal>> /\ rtNow' = rtNow + 1
      /\ rtNow \in 0 .. RtMaxTime /\ rtNow < RtMaxTime /\ journal \in Seq(Nat)
      /\ floor \in 1 .. Len(journal) + 1
  BY DEF SyncInv, SyncRows, RealtimeTick, JournalTick, JournalTypeOK
<1>2. JournalTypeOK' /\ rtNow' >= rtNow
  BY <1>1, JournalConstants DEF JournalTypeOK
<1>3. \A i \in 1 .. floor - 1 : journal[i] \in Nat
  BY <1>1
<1>4. Compacted'
  BY <1>1, <1>3, JournalConstants DEF SyncInv, Compacted, Expired
<1>5. revoked' = revoked /\ revoked \subseteq RtDevices
  BY DEF SyncInv, SyncRows, RealtimeTick
<1> QED  BY <1>1, <1>2, <1>4, <1>5, JournalKeeps DEF RealtimeTick

-----------------------------------------------------------------------------
(* A page of the replay. *)

\* However many rows a page has, they would fit after the cursor.
LEMMA PageFits ==
    ASSUME SyncInv, NEW after \in Nat, after <= Len(journal)
    PROVE  \E c \in Nat : /\ after + c <= Len(journal)
                          /\ DOMAIN PageRows(after) = 1 .. c
                          /\ PageRows(after) = [n \in 1 .. c |-> PageRows(after)[n]]
<1> DEFINE S == {i \in floor .. Highwater : i > after /\ journal[i] > op.at}
           rows == FirstOf(S, PageLimit)
           c == Cardinality(rows)
<1>1. Highwater \in Nat /\ Highwater = Len(journal) /\ floor \in Nat
  BY DEF SyncInv, SyncRows, JournalTypeOK, Highwater
<1>2. rows \subseteq after + 1 .. Highwater
  BY <1>1 DEF FirstOf
<1>3. /\ IsFiniteSet(after + 1 .. Highwater)
      /\ Cardinality(after + 1 .. Highwater) = IF after + 1 > Highwater THEN 0 ELSE Highwater - (after + 1) + 1
  <2>1. after + 1 \in Int /\ Highwater \in Int
    BY <1>1
  <2> QED  BY <2>1, FS_Interval
<1>4. c \in Nat /\ c <= Cardinality(after + 1 .. Highwater)
  BY <1>2, <1>3, FS_Subset, FS_CardinalityType
<1>5. PageRows(after) = [n \in 1 .. c |-> CHOOSE i \in rows : Cardinality({j \in rows : j < i}) = n - 1]
  BY DEF PageRows
<1> HIDE DEF c, rows
<1>6. after + c <= Len(journal)
  BY <1>1, <1>3, <1>4
<1>7. DOMAIN PageRows(after) = 1 .. c /\ PageRows(after) = [n \in 1 .. c |-> PageRows(after)[n]]
  BY <1>5
<1> QED  BY <1>4, <1>6, <1>7

\* Rows that have not expired come out without a hole.
LEMMA UnexpiredPage ==
    ASSUME SyncInv, NEW after \in Nat, after <= Len(journal),
           \A i \in after + 1 .. Len(journal) : journal[i] > op.at,
           after < Len(journal) => floor <= after + 1
    PROVE  ~PageBroken(after, PageRows(after))
<1> DEFINE S == {i \in floor .. Highwater : i > after /\ journal[i] > op.at}
           rows == FirstOf(S, PageLimit)
           H == Highwater
           m == IF H < after + PageLimit THEN H ELSE after + PageLimit
<1>1. H \in Nat /\ H = Len(journal) /\ floor \in Nat /\ PageLimit \in Nat \ {0} /\ op.high <= H
      /\ op.high \in Nat /\ after <= H
  BY RealtimeConstants DEF SyncInv, SyncRows, SyncBounds, JournalTypeOK, Highwater, OpRow
<1>2. S = after + 1 .. H
  BY <1>1
<1>3. m \in Nat /\ after <= m /\ m <= H /\ (m = after => H = after)
  BY <1>1
<1>c. ASSUME NEW i \in Int, i > after
      PROVE  Cardinality(after + 1 .. i - 1) = i - 1 - after
  <2>1. after + 1 \in Int /\ i - 1 \in Int
    BY <1>c
  <2>2. Cardinality(after + 1 .. i - 1) = IF after + 1 > i - 1 THEN 0 ELSE (i - 1) - (after + 1) + 1
    BY <2>1, FS_Interval
  <2> QED  BY <1>c, <2>2
<1>4. rows = after + 1 .. m
  <2>1. ASSUME NEW i \in S PROVE Cardinality({j \in S : j < i}) = i - 1 - after
    <3>1. {j \in S : j < i} = after + 1 .. i - 1
      BY <1>1, <1>2
    <3>2. i \in Int /\ i > after
      BY <1>1, <1>2
    <3> QED  BY <1>c, <3>1, <3>2
  <2>2. rows = {i \in S : i - 1 - after < PageLimit}
    BY <2>1 DEF FirstOf
  <2> HIDE DEF rows
  <2> QED  BY <1>1, <1>2, <2>2
<1>5. Cardinality(rows) = m - after
  <2> HIDE DEF m, rows
  <2>1. after + 1 \in Int /\ m \in Int
    BY <1>3
  <2>2. Cardinality(after + 1 .. m) = IF after + 1 > m THEN 0 ELSE m - (after + 1) + 1
    BY <2>1, FS_Interval
  <2> QED  BY <1>3, <1>4, <2>2
<1>6. ASSUME NEW n \in 1 .. m - after
      PROVE  (CHOOSE i \in rows : Cardinality({j \in rows : j < i}) = n - 1) = after + n
  <2> HIDE DEF m, rows
  <2>1. ASSUME NEW i \in rows PROVE Cardinality({j \in rows : j < i}) = i - 1 - after
    <3>1. {j \in rows : j < i} = after + 1 .. i - 1
      BY <1>3, <1>4
    <3>2. i \in Int /\ i > after
      BY <1>3, <1>4
    <3> QED  BY <1>c, <3>1, <3>2
  <2>2. after + n \in rows /\ n \in Nat
    BY <1>3, <1>4
  <2>3. \A i \in rows : i \in Int
    BY <1>3, <1>4
  <2>4. \A i \in rows : Cardinality({j \in rows : j < i}) = n - 1 <=> i = after + n
    BY <2>1, <2>2, <2>3
  <2> QED  BY <2>2, <2>4
<1>7. /\ DOMAIN PageRows(after) = 1 .. m - after
      /\ \A n \in 1 .. m - after : PageRows(after)[n] = after + n
  <2> HIDE DEF m
  <2>1. PageRows(after) = [n \in 1 .. Cardinality(rows) |->
                              CHOOSE i \in rows : Cardinality({j \in rows : j < i}) = n - 1]
    BY DEF PageRows
  <2> HIDE DEF rows
  <2>2. PageRows(after) = [n \in 1 .. m - after |->
                              CHOOSE i \in rows : Cardinality({j \in rows : j < i}) = n - 1]
    BY <1>5, <2>1
  <2> QED  BY <1>6, <2>2
<1>8. PageContiguous(after, PageRows(after))
  BY <1>7 DEF PageContiguous
<1>9. ASSUME PageRows(after) = <<>> PROVE ~(after < op.high)
  <2> HIDE DEF m
  <2>1. DOMAIN PageRows(after) = {}
    BY <1>9
  <2>2. m = after
    BY <1>3, <1>7, <2>1
  <2> QED  BY <1>1, <1>3, <2>2
<1> QED  BY <1>8, <1>9 DEF PageBroken

-----------------------------------------------------------------------------
(* The operation. *)

\* What the operation of a socket may rely on.
LEMMA OperationFacts ==
    ASSUME SyncInv, NEW k \in Conns, op.conn = k
    PROVE  /\ conn[k].phase = "open" /\ conn[k].fence = lease[DeviceOf[k]].fence
           /\ DeviceOf[k] \notin revoked /\ op.stage # "none" /\ k # NoConn
<1>1. k # NoConn
  BY RealtimeConstants DEF NoConn
<1> QED  BY <1>1 DEF SyncInv, Held

\* An operation starts from the lease it checked under the lock (begin_gateway_operation).
LEMMA BeginKeeps ==
    ASSUME SyncInv, NEW k \in Conns, ReplayStarts(k)
    PROVE  SyncInv'
<1>0. k # NoConn /\ faults \in 0 .. MaxFaults
  BY RealtimeConstants DEF NoConn, SyncInv, SyncRows
<1>1. CASE /\ OperationGranted(k)
           /\ op' = [NoOp EXCEPT !.conn = k, !.stage = "begun"]
           /\ UNCHANGED <<conn, wire, live>>
  <2>1. op' = [conn |-> k, stage |-> "begun", high |-> 0, at |-> 0, page |-> <<>>]
    BY <1>1, Zenon DEF NoOp
  <2>2. op' \in OpRow
    BY <2>1 DEF OpRow
  <2>3. UNCHANGED journalVars /\ Len(journal) \in Nat /\ rtNow \in Nat
    BY JournalConstants DEF ReplayStarts, SyncInv, SyncRows, JournalTypeOK
  <2>4. Held'
    <3>0. op'.conn = k /\ op'.stage = "begun" /\ op'.at = 0
      BY <2>1
    <3>1. UNCHANGED <<rtNow, conn, lease, revoked>>
      BY <1>1, Zenon DEF ReplayStarts, journalVars
    <3>2. /\ conn[k].phase = "open" /\ conn[k].fence = lease[DeviceOf[k]].fence
          /\ DeviceOf[k] \notin revoked
      BY <1>1 DEF ReplayStarts, OperationGranted, Authenticated, LeaseCurrent
    <3> QED  BY <1>0, <2>3, <3>0, <3>1, <3>2 DEF Held
  <2>5. CatchUpJustified'
    BY <2>1 DEF CatchUpJustified
  <2>6. op'.high <= Len(journal)
    BY <2>1, <2>3
  <2> QED  BY <1>1, <2>2, <2>4, <2>5, <2>6, OperationKeeps DEF ReplayStarts
<1>2. CASE ~OperationGranted(k) /\ Dropped(k) /\ UNCHANGED op
  BY <1>0, <1>2, DropKeeps DEF ReplayStarts
<1> QED  BY <1>1, <1>2 DEF ReplayStarts, BeginOrClose

\* Reading the head of the journal fixes how far the page may go (replay_in_transaction).
LEMMA HeadKeeps ==
    ASSUME SyncInv, NEW k \in Conns, ReplayHead(k)
    PROVE  SyncInv'
<1>0. /\ op \in OpRow /\ op.page \in Seq(Cursors) /\ rtNow \in Nat /\ Len(journal) \in Nat
      /\ conn[k].next \in Nat /\ conn[k].next <= Len(journal) /\ floor \in 1 .. Len(journal) + 1
  BY JournalConstants DEF SyncInv, SyncRows, SyncBounds, OpRow, ConnRow, JournalTypeOK
<1>1. PICK st \in {"catchup", "head"} :
         /\ op' = [op EXCEPT !.stage = st, !.high = Highwater, !.at = rtNow]
         /\ st = "catchup" => BeyondReplay(conn[k].next, floor) \/ conn[k].next > Highwater
  BY Zenon DEF ReplayHead
<1>2. op' = [conn |-> op.conn, stage |-> st, high |-> Highwater, at |-> rtNow, page |-> op.page]
  BY <1>0, <1>1, Zenon DEF OpRow
<1>3. op.conn = k /\ UNCHANGED <<journalVars, lease, syncAck, revoked, conn, wire, live, cursor,
                                 told, faults>>
  BY DEF ReplayHead
<1>4. op' \in OpRow /\ op'.high <= Len(journal)
  BY <1>0, <1>2, <1>3 DEF OpRow, Highwater
<1>5. Held'
  BY <1>0, <1>2, <1>3, OperationFacts DEF Held, journalVars
<1>6. CatchUpJustified'
  <2> SUFFICES ASSUME st = "catchup"
               PROVE  \E i \in conn[k].next + 1 .. Len(journal) : journal[i] <= rtNow
    BY <1>2, <1>3 DEF CatchUpJustified, Highwater, Expired, journalVars
  <2>1. conn[k].next + 1 < floor
    BY <1>0, <1>1 DEF BeyondReplay, Highwater
  <2>2. Expired(conn[k].next + 1)
    BY <1>0, <2>1 DEF SyncInv, Compacted
  <2> QED  BY <1>0, <2>1, <2>2 DEF Expired
<1> QED  BY <1>3, <1>4, <1>5, <1>6, OperationKeeps

\* A broken page is the work of an event that expired.
LEMMA BrokenMeansExpired ==
    ASSUME SyncInv, NEW after \in Nat, after <= Len(journal),
           PageBroken(after, PageRows(after))
    PROVE  \E i \in after + 1 .. Len(journal) : journal[i] <= rtNow
<1> SUFFICES ASSUME \A i \in after + 1 .. Len(journal) : ~(journal[i] <= rtNow)
             PROVE  FALSE
  OBVIOUS
<1>1. /\ rtNow \in Nat /\ op.at \in Nat /\ op.at <= rtNow /\ journal \in Seq(Nat)
      /\ floor \in 1 .. Len(journal) + 1 /\ Len(journal) \in Nat
  BY JournalConstants DEF SyncInv, SyncRows, OpRow, Held, JournalTypeOK
<1>2. \A i \in after + 1 .. Len(journal) : i \in 1 .. Len(journal) /\ journal[i] \in Nat
  BY <1>1
<1>3. \A i \in after + 1 .. Len(journal) : journal[i] > op.at
  BY <1>1, <1>2
<1>4. after < Len(journal) => floor <= after + 1
  <2> SUFFICES ASSUME after < Len(journal), after + 1 < floor PROVE FALSE
    BY <1>1
  <2>1. Expired(after + 1)
    BY <1>1 DEF SyncInv, Compacted
  <2> QED  BY <1>1, <2>1 DEF Expired
<1> QED  BY <1>3, <1>4, UnexpiredPage

\* The rows of a page follow the cursor without a gap or ask for a catch-up
\* (replay_in_transaction).
LEMMA RowsKeep ==
    ASSUME SyncInv, NEW k \in Conns, ReplayRows(k)
    PROVE  SyncInv'
<1> DEFINE after == conn[k].next
           page == PageRows(after)
           gap == PageBroken(after, page)
<1>0. /\ op \in OpRow /\ rtNow \in Nat /\ journal \in Seq(Nat) /\ Len(journal) \in Nat
      /\ after \in Nat /\ after <= Len(journal) /\ Len(journal) <= MaxCursor
      /\ op.at \in Nat /\ op.at <= rtNow /\ op.high \in Nat /\ op.high <= Len(journal)
  BY JournalConstants DEF SyncInv, SyncRows, SyncBounds, OpRow, ConnRow, Held, JournalTypeOK
<1>1. /\ op.conn = k /\ op.stage = "head"
      /\ op' = [op EXCEPT !.stage = IF gap THEN "catchup" ELSE "send",
                          !.page = IF gap THEN <<>> ELSE page]
      /\ UNCHANGED <<journalVars, lease, syncAck, revoked, conn, wire, live, cursor, told, faults>>
  BY DEF ReplayRows
<1> HIDE DEF page, gap
<1>2. CASE gap
  <2>1. op' = [op EXCEPT !.stage = "catchup", !.page = <<>>]
    BY <1>1, <1>2
  <2>2. op' = [conn |-> op.conn, stage |-> "catchup", high |-> op.high, at |-> op.at, page |-> <<>>]
    BY <1>0, <2>1, Zenon DEF OpRow
  <2>3. op' \in OpRow /\ op'.high <= Len(journal)
    BY <1>0, <2>2 DEF OpRow
  <2>4. Held'
    <3>0. op'.conn = op.conn /\ op'.stage = "catchup" /\ op'.at = op.at
      BY <2>2
    <3>1. op.conn = k /\ UNCHANGED <<rtNow, conn, lease, revoked>>
      BY <1>1, Zenon DEF journalVars
    <3> QED  BY <1>0, <3>0, <3>1, OperationFacts DEF Held
  <2>5. CatchUpJustified'
    <3>1. \E i \in after + 1 .. Len(journal) : journal[i] <= rtNow
      BY <1>0, <1>2, BrokenMeansExpired DEF gap, page
    <3> QED  BY <1>1, <2>2, <3>1 DEF CatchUpJustified, Highwater, Expired, journalVars
  <2> QED  BY <1>1, <2>3, <2>4, <2>5, OperationKeeps
<1>3. CASE ~gap
  <2>1. op' = [op EXCEPT !.stage = "send", !.page = page]
    BY <1>1, <1>3
  <2>2. op' = [conn |-> op.conn, stage |-> "send", high |-> op.high, at |-> op.at, page |-> page]
    BY <1>0, <2>1, Zenon DEF OpRow
  <2>3. PICK c \in Nat : /\ after + c <= Len(journal) /\ DOMAIN page = 1 .. c
                         /\ page = [n \in 1 .. c |-> page[n]]
    BY <1>0, PageFits DEF page
  <2>4. \A n \in 1 .. c : page[n] = after + n
    BY <1>3, <2>3 DEF gap, PageBroken, PageContiguous
  <2>5. \A n \in 1 .. c : page[n] \in Cursors /\ page[n] <= Len(journal)
    <3>1. PICK a \in Nat : a = after
      BY <1>0
    <3>2. a + c <= Len(journal) /\ Len(journal) <= MaxCursor /\ Len(journal) \in Nat
      BY <1>0, <2>3, <3>1
    <3>3. \A n \in 1 .. c : a + n \in Cursors /\ a + n <= Len(journal)
      BY <3>2, JournalConstants DEF Cursors
    <3> QED  BY <2>4, <3>1, <3>3
  <2>6. page \in Seq(Cursors) /\ Len(page) = c
    <3>1. page \in [1 .. c -> Cursors]
      BY <2>3, <2>5
    <3>2. page \in Seq(Cursors)
      BY <3>1, SeqDef
    <3> QED  BY <2>3, <3>2
  <2>7. op' \in OpRow /\ op'.high <= Len(journal)
    BY <1>0, <2>2, <2>6 DEF OpRow
  <2>8. Held'
    BY <1>0, <1>1, <2>2, <2>4, <2>5, <2>6, OperationFacts DEF Held, journalVars
  <2>9. CatchUpJustified'
    BY <2>2 DEF CatchUpJustified
  <2> QED  BY <1>1, <2>7, <2>8, <2>9, OperationKeeps
<1> QED  BY <1>2, <1>3

\* The operation ends once its page is out (replay_in_transaction).
LEMMA FinishKeeps ==
    ASSUME SyncInv, NEW k \in Conns, FinishOperation(k)
    PROVE  SyncInv'
<1>1. op' = NoOp /\ UNCHANGED <<journalVars, lease, syncAck, revoked, conn, wire, live, cursor,
                                told, faults>>
  BY DEF FinishOperation
<1>2. /\ NoOp \in OpRow /\ NoOp.conn = NoConn /\ NoOp.stage = "none" /\ NoOp.high = 0
      /\ NoOp.at = 0
  BY DEF NoOp, OpRow
<1>3. rtNow \in Nat /\ Len(journal) \in Nat
  BY JournalConstants DEF SyncInv, SyncRows, JournalTypeOK
<1>4. Held' /\ CatchUpJustified'
  BY <1>1, <1>2, <1>3 DEF Held, CatchUpJustified, journalVars
<1>5. op' \in OpRow /\ op'.high <= Len(journal)
  BY <1>1, <1>2, <1>3
<1> QED  BY <1>1, <1>4, <1>5, OperationKeeps

\* A row of a socket with one field replaced.
LEMMA ConnReplaced ==
    ASSUME NEW r \in ConnRow
    PROVE  /\ \A v : [r EXCEPT !.next = v] =
                  [phase |-> r.phase, fence |-> r.fence, until |-> r.until, next |-> v]
           /\ \A v : [r EXCEPT !.phase = v] =
                  [phase |-> v, fence |-> r.fence, until |-> r.until, next |-> r.next]
           /\ \A v : [r EXCEPT !.until = v] =
                  [phase |-> r.phase, fence |-> r.fence, until |-> v, next |-> r.next]
BY DEF ConnRow

\* A frame that is sent connects to what the socket sent before (LeaseOperation).
LEMMA SendKeeps ==
    ASSUME SyncInv, NEW k \in Conns, SendEvent(k)
    PROVE  SyncInv'
<1> DEFINE d == DeviceOf[k]
<1>0. /\ op \in OpRow /\ op.page \in Seq(Cursors) /\ rtNow \in Nat /\ Len(journal) \in Nat
      /\ conn[k] \in ConnRow /\ conn[k].next \in Nat /\ wire[k] \in Seq(Cursors)
      /\ cursor[d] \in Nat
  <2>1. SyncRows
    BY DEF SyncInv
  <2>2. op \in OpRow /\ conn[k] \in ConnRow /\ wire[k] \in Seq(Cursors)
    BY <2>1 DEF SyncRows
  <2>3. op.page \in Seq(Cursors) /\ conn[k].next \in Nat
    BY <2>2 DEF OpRow, ConnRow
  <2>4. rtNow \in Nat /\ Len(journal) \in Nat
    BY <2>1, JournalConstants DEF SyncRows, JournalTypeOK
  <2>5. cursor[d] \in Nat
    BY <2>1, RealtimeConstants DEF SyncRows
  <2> QED  BY <2>2, <2>3, <2>4, <2>5
<1>1. /\ op.conn = k /\ op.stage = "send" /\ op.page # <<>>
      /\ wire' = [wire EXCEPT ![k] = IF k \in live THEN Append(@, Head(op.page)) ELSE @]
      /\ conn' = [conn EXCEPT ![k].next = Head(op.page)]
      /\ op' = [op EXCEPT !.page = Tail(op.page)]
      /\ UNCHANGED <<journalVars, lease, syncAck, revoked, live, cursor, told, faults>>
  BY DEF SendEvent
<1>2. PICK e \in Cursors : e = Head(op.page)
  BY <1>0, <1>1
<1>3. e = conn[k].next + 1 /\ e <= Len(journal) /\ e \in Nat
  <2>1. 1 \in 1 .. Len(op.page) /\ e = op.page[1]
    BY <1>0, <1>1, <1>2
  <2>2. e \in Nat
    BY JournalConstants DEF Cursors
  <2> QED  BY <1>1, <2>1, <2>2 DEF SyncInv, Held
<1>4. /\ conn' \in [Conns -> ConnRow]
      /\ conn'[k].next = e /\ conn'[k].phase = conn[k].phase /\ conn'[k].fence = conn[k].fence
      /\ conn'[k].until = conn[k].until
      /\ \A j \in Conns : j # k => conn'[j] = conn[j]
  <2>1. conn' = [conn EXCEPT ![k] = [phase |-> conn[k].phase, fence |-> conn[k].fence,
                                     until |-> conn[k].until, next |-> e]]
    <3>2. [conn[k] EXCEPT !.next = e] = [phase |-> conn[k].phase, fence |-> conn[k].fence,
                                         until |-> conn[k].until, next |-> e]
      BY <1>0, ConnReplaced
    <3>3. conn' = [conn EXCEPT ![k] = [conn[k] EXCEPT !.next = e]]
      BY <1>1, <1>2, Zenon
    <3> QED  BY <3>2, <3>3
  <2> QED  BY <1>0, <1>3, <2>1 DEF SyncInv, SyncRows, ConnRow
<1>5. PICK w \in Seq(Cursors) :
         /\ w = IF k \in live THEN Append(wire[k], e) ELSE wire[k]
         /\ wire' = [wire EXCEPT ![k] = w]
  <2>1. (IF k \in live THEN Append(wire[k], e) ELSE wire[k]) \in Seq(Cursors)
    BY <1>0
  <2> QED  BY <1>1, <1>2, <2>1
<1>6. /\ wire' \in [Conns -> Seq(Cursors)] /\ wire'[k] = w
      /\ \A j \in Conns : j # k => wire'[j] = wire[j]
  BY <1>5 DEF SyncInv, SyncRows
<1>7. op' = [conn |-> k, stage |-> "send", high |-> op.high, at |-> op.at, page |-> Tail(op.page)]
  BY <1>0, <1>1, Zenon DEF OpRow
<1>8. /\ Tail(op.page) \in Seq(Cursors) /\ Len(Tail(op.page)) = Len(op.page) - 1
      /\ Len(op.page) \in Nat
      /\ \A n \in 1 .. Len(op.page) - 1 : Tail(op.page)[n] = op.page[n + 1]
  BY <1>0, <1>1
<1>9. op' \in OpRow
  BY <1>0, <1>1, <1>7, <1>8 DEF OpRow
<1>10. SyncRows'
  BY <1>1, <1>4, <1>6, <1>9 DEF SyncInv, SyncRows, JournalTypeOK, journalVars
<1>11. SyncBounds'
  BY <1>1, <1>3, <1>4, <1>7 DEF SyncInv, SyncBounds, journalVars
<1>12. LeaseCovers'
  BY <1>1, <1>4 DEF SyncInv, LeaseCovers, journalVars
<1>13. Served'
  BY <1>1, <1>4, <1>5, <1>6 DEF SyncInv, SyncRows, Served
<1>14. Connected'
  <2> SUFFICES ASSUME NEW j \in live
               PROVE  /\ \A n \in 1 .. Len(wire'[j]) : wire'[j][n] = cursor[DeviceOf[j]] + n
                      /\ conn'[j].next = cursor[DeviceOf[j]] + Len(wire'[j])
    BY <1>1 DEF Connected
  <2>0. j \in Conns
    BY DEF SyncInv, SyncRows
  <2>1. CASE j # k
    BY <1>4, <1>6, <2>0, <2>1 DEF SyncInv, Connected
  <2>2. CASE j = k
    <3>1. /\ conn[k].next = cursor[d] + Len(wire[k])
          /\ \A n \in 1 .. Len(wire[k]) : wire[k][n] = cursor[d] + n
      BY <2>2 DEF SyncInv, Connected
    <3>2. wire'[k] = Append(wire[k], e)
      BY <1>5, <1>6, <2>2
    <3>3. Len(wire'[k]) = Len(wire[k]) + 1 /\ Len(wire[k]) \in Nat
      BY <1>0, <3>2
    <3>4. \A n \in 1 .. Len(wire'[k]) : wire'[k][n] = IF n <= Len(wire[k]) THEN wire[k][n] ELSE e
      BY <1>0, <3>2, <3>3
    <3>5. ASSUME NEW n \in 1 .. Len(wire'[k]) PROVE wire'[k][n] = cursor[d] + n
      <4>1. CASE n <= Len(wire[k])
        BY <3>1, <3>3, <3>4, <4>1
      <4>2. CASE n = Len(wire[k]) + 1
        <5>1. wire'[k][n] = e
          BY <3>3, <3>4, <4>2
        <5>2. PICK a \in Nat, b \in Nat : a = cursor[d] /\ b = Len(wire[k])
          BY <1>0, <3>3
        <5>3. e = (a + b) + 1 /\ n = b + 1
          BY <1>3, <3>1, <4>2, <5>2
        <5>4. e = a + n
          BY <5>3
        <5> QED  BY <5>1, <5>2, <5>4
      <4> QED  BY <3>3, <4>1, <4>2
    <3> QED  BY <1>0, <1>3, <1>4, <2>2, <3>1, <3>3, <3>5
  <2> QED  BY <2>1, <2>2
<1>15. Held'
  <2>1. \A n \in 1 .. Len(op.page) - 1 :
            Tail(op.page)[n] = e + n /\ Tail(op.page)[n] <= Len(journal)
    <3> SUFFICES ASSUME NEW n \in 1 .. Len(op.page) - 1
                 PROVE  Tail(op.page)[n] = e + n /\ Tail(op.page)[n] <= Len(journal)
      OBVIOUS
    <3>1. n + 1 \in 1 .. Len(op.page)
      BY <1>8
    <3>2. op.page[n + 1] = conn[k].next + (n + 1) /\ op.page[n + 1] <= Len(journal)
      BY <1>1, <3>1 DEF SyncInv, Held
    <3>3. PICK a \in Nat : a = conn[k].next
      BY <1>0
    <3>4. e = a + 1 /\ op.page[n + 1] = a + (n + 1) /\ Tail(op.page)[n] = op.page[n + 1]
      BY <1>3, <1>8, <3>2, <3>3
    <3>5. n \in Nat
      BY <1>8
    <3> QED  BY <3>2, <3>4, <3>5
  <2>2. op'.conn = k /\ op'.stage = "send" /\ op'.at = op.at /\ op'.page = Tail(op.page)
    BY <1>7
  <2>3. op.at <= rtNow /\ UNCHANGED <<rtNow, journal, lease, revoked>>
    BY <1>1 DEF SyncInv, Held, journalVars
  <2> QED  BY <1>1, <1>4, <1>8, <2>1, <2>2, <2>3, OperationFacts DEF Held
<1>16. Compacted' /\ Told'
  BY <1>1 DEF SyncInv, Compacted, Expired, journalVars, Told
<1>17. CatchUpJustified'
  BY <1>7 DEF CatchUpJustified
<1> QED  BY <1>10, <1>11, <1>12, <1>13, <1>14, <1>15, <1>16, <1>17 DEF SyncInv

\* Resynchronised up to the highwater of the operation, with no other socket open.
LEMMA CatchUpKeeps ==
    ASSUME SyncInv, NEW k \in Conns, SendCatchUp(k)
    PROVE  SyncInv'
<1> DEFINE d == DeviceOf[k]
<1>1. /\ op' = NoOp /\ Dropped(k) /\ op.conn = k
      /\ cursor' = [cursor EXCEPT ![d] = IF k \in live THEN op.high ELSE @]
      /\ told' = [told EXCEPT ![d] = IF k \in live THEN @ \cup 1 .. op.high ELSE @]
      /\ UNCHANGED <<journalVars, lease, syncAck, revoked, faults>>
  BY DEF SendCatchUp
<1>2. CASE k \notin live
  <2>1. UNCHANGED <<cursor, told>>
    BY <1>1, <1>2 DEF SyncInv, SyncRows
  <2>2. faults' \in 0 .. MaxFaults
    BY <1>1 DEF SyncInv, SyncRows
  <2> QED  BY <1>1, <2>1, <2>2, DropKeeps
<1>3. CASE k \in live
  <2>0. /\ d \in RtDevices /\ op.high \in Nat /\ op.high <= Len(journal)
        /\ Len(journal) \in Nat /\ Len(journal) <= MaxCursor /\ rtNow \in Nat
        /\ told[d] \subseteq Cursors
    BY JournalConstants, RealtimeConstants, SMTT(40)
       DEF SyncInv, SyncRows, SyncBounds, OpRow, JournalTypeOK
  <2>1. /\ conn' = [conn EXCEPT ![k] = Closed] /\ wire' = [wire EXCEPT ![k] = <<>>]
        /\ live' = live \ {k}
    BY <1>1 DEF Dropped
  <2>2. /\ conn' \in [Conns -> ConnRow] /\ conn'[k] = Closed
        /\ \A j \in Conns : j # k => conn'[j] = conn[j]
    BY <2>1, RealtimeConstants DEF SyncInv, SyncRows, ConnRow, Closed
  <2>3. /\ wire' \in [Conns -> Seq(Cursors)] /\ wire'[k] = <<>>
        /\ \A j \in Conns : j # k => wire'[j] = wire[j]
    BY <2>1 DEF SyncInv, SyncRows
  <2>4. /\ NoOp \in OpRow /\ NoOp.conn = NoConn /\ NoOp.stage = "none" /\ NoOp.high = 0
        /\ NoOp.at = 0
    BY DEF NoOp, OpRow
  <2>5. 1 .. op.high \subseteq Cursors
    BY <2>0, JournalConstants DEF Cursors
  <2>6. /\ cursor' \in [RtDevices -> Nat] /\ cursor'[d] = op.high
        /\ \A b \in RtDevices : b # d => cursor'[b] = cursor[b]
    BY <1>1, <1>3, <2>0 DEF SyncInv, SyncRows
  <2>7. /\ told' \in [RtDevices -> SUBSET Cursors] /\ told'[d] = told[d] \cup 1 .. op.high
        /\ \A b \in RtDevices : b # d => told'[b] = told[b]
    BY <1>1, <1>3, <2>0, <2>5 DEF SyncInv, SyncRows
  <2>8. SyncRows'
    BY <1>1, <2>1, <2>2, <2>3, <2>4, <2>6, <2>7 DEF SyncInv, SyncRows, JournalTypeOK, journalVars
  <2>9. SyncBounds'
    BY <1>1, <2>0, <2>2, <2>4, <2>6 DEF SyncInv, SyncBounds, journalVars, Closed
  <2>10. LeaseCovers'
    <3>1. \A b \in RtDevices : lease[b].until \in Nat
      BY DEF SyncInv, SyncRows
    <3>2. 0 <= lease[d].until /\ Closed.until = 0
      BY <2>0, <3>1 DEF Closed
    <3> QED  BY <1>1, <2>2, <3>2 DEF SyncInv, LeaseCovers, journalVars
  <2>11. Served'
    BY <2>1, <2>2, <2>3 DEF SyncInv, SyncRows, Served
  <2>12. Connected'
    <3> SUFFICES ASSUME NEW j \in live'
                 PROVE  /\ \A n \in 1 .. Len(wire'[j]) : wire'[j][n] = cursor'[DeviceOf[j]] + n
                        /\ conn'[j].next = cursor'[DeviceOf[j]] + Len(wire'[j])
      BY DEF Connected
    <3>1. j \in live /\ j # k /\ j \in Conns
      BY <2>1 DEF SyncInv, SyncRows
    <3>2. DeviceOf[j] # d /\ DeviceOf[j] \in RtDevices
      BY <1>3, <3>1, RealtimeConstants DEF SyncInv, Served
    <3> QED  BY <2>2, <2>3, <2>6, <3>1, <3>2, SMTT(40) DEF SyncInv, Connected
  <2>13. Held' /\ CatchUpJustified'
    BY <1>1, <2>0, <2>4 DEF Held, CatchUpJustified, journalVars
  <2>14. Compacted'
    BY <1>1 DEF SyncInv, Compacted, Expired, journalVars
  <2>15. Told'
    BY <2>6, <2>7 DEF SyncInv, Told
  <2> QED  BY <2>8, <2>9, <2>10, <2>11, <2>12, <2>13, <2>14, <2>15 DEF SyncInv
<1> QED  BY <1>2, <1>3

\* An operation that fails closes its socket and gives the lock back (LeaseOperation).
LEMMA EndKeeps ==
    ASSUME SyncInv, NEW k \in Conns, OperationEnds(k)
    PROVE  SyncInv'
<1>1. faults' \in 0 .. MaxFaults
  BY DEF SyncInv, SyncRows, OperationEnds
<1> QED  BY <1>1, DropKeeps DEF OperationEnds

-----------------------------------------------------------------------------
(* The lease, the client and the network. *)

\* Only rows of sockets and leases change, and neither what is on its way nor the lock.
LEMMA AcquireKeeps ==
    ASSUME SyncInv, NEW k \in Conns, AcquireLease(k)
    PROVE  SyncInv'
<1> DEFINE d == DeviceOf[k]
<1>0. SyncRows /\ d \in RtDevices
  BY RealtimeConstants DEF SyncInv
<1>1. /\ conn[k].phase = "closed" /\ op = NoOp /\ lease[d].fence < MaxFence
      /\ \A other \in live : DeviceOf[other] # d
      /\ live' = live \cup {k} /\ cursor[d] <= Highwater
      /\ UNCHANGED <<journalVars, syncAck, revoked, op, wire, cursor, told, faults>>
  BY DEF AcquireLease, LockFree
<1>2. PICK f \in 0 .. MaxFence, u \in Nat :
         /\ f = lease[d].fence + 1 /\ u = rtNow + LeaseTtl
         /\ lease' = [lease EXCEPT ![d] = [fence |-> f, until |-> u]]
         /\ conn' = [conn EXCEPT ![k] = [phase |-> "hello", fence |-> f, until |-> u,
                                         next |-> cursor[d]]]
  <2>1. lease[d].fence \in 0 .. MaxFence /\ rtNow \in Nat
    BY <1>0, JournalConstants DEF SyncRows, JournalTypeOK
  <2>2. lease[d].fence + 1 \in 0 .. MaxFence /\ rtNow + LeaseTtl \in Nat
    BY <1>1, <2>1, RealtimeConstants
  <2> QED  BY <2>2 DEF AcquireLease
<1>3. cursor[d] \in Nat /\ cursor[d] <= Len(journal) /\ Len(journal) \in Nat /\ rtNow \in Nat
  BY <1>0, <1>1, JournalConstants DEF SyncRows, JournalTypeOK, Highwater
<1>4. /\ conn' \in [Conns -> ConnRow]
      /\ conn'[k] = [phase |-> "hello", fence |-> f, until |-> u, next |-> cursor[d]]
      /\ \A j \in Conns : j # k => conn'[j] = conn[j]
  BY <1>0, <1>2, <1>3 DEF SyncRows, ConnRow
<1>5. /\ lease' \in [RtDevices -> [fence : 0 .. MaxFence, until : Nat]]
      /\ lease'[d] = [fence |-> f, until |-> u]
      /\ \A b \in RtDevices : b # d => lease'[b] = lease[b]
  BY <1>0, <1>2 DEF SyncRows
<1>6. SyncRows'
  BY <1>0, <1>1, <1>4, <1>5 DEF SyncRows, JournalTypeOK, journalVars
<1>7. SyncBounds'
  BY <1>1, <1>3, <1>4 DEF SyncInv, SyncBounds, journalVars
<1>8. LeaseCovers'
  <2>1. ASSUME NEW b \in RtDevices
        PROVE  /\ lease[b].until <= u /\ lease'[b].until <= rtNow' + LeaseTtl
               /\ lease[b].until <= lease'[b].until
    <3>1. lease[b].until \in Nat /\ lease[b].until <= rtNow + LeaseTtl
      BY <1>0 DEF SyncInv, SyncRows, LeaseCovers
    <3>2. rtNow' = rtNow
      BY <1>1 DEF journalVars
    <3> QED  BY <1>2, <1>5, <3>1, <3>2
  <2>2. ASSUME NEW j \in Conns PROVE conn'[j].until <= lease'[DeviceOf[j]].until
    <3>1. DeviceOf[j] \in RtDevices
      BY RealtimeConstants
    <3>2. CASE j = k
      BY <1>4, <1>5, <3>2
    <3>3. CASE j # k
      <4>1. conn'[j].until = conn[j].until /\ conn[j].until <= lease[DeviceOf[j]].until
        BY <1>4, <3>3 DEF SyncInv, LeaseCovers
      <4>2. conn[j].until \in Nat /\ lease[DeviceOf[j]].until \in Nat
            /\ lease'[DeviceOf[j]].until \in Nat
        BY <1>0, <1>5, <3>1 DEF SyncRows, ConnRow
      <4> QED  BY <2>1, <3>1, <4>1, <4>2
    <3> QED  BY <3>2, <3>3
  <2> QED  BY <2>1, <2>2 DEF LeaseCovers
<1>9. k \notin live
  BY <1>1 DEF SyncInv, Served
<1>10. Served'
  <2>1. \A j \in Conns : j \notin live => wire[j] = <<>>
    BY DEF SyncInv, Served
  <2>2. \A j \in live' : conn'[j].phase # "closed"
    BY <1>0, <1>1, <1>4 DEF SyncInv, Served, SyncRows
  <2>3. \A i, j \in live' : DeviceOf[i] = DeviceOf[j] => i = j
    BY <1>1 DEF SyncInv, Served
  <2> QED  BY <1>1, <2>1, <2>2, <2>3 DEF Served
<1>11. Connected'
  <2> SUFFICES ASSUME NEW j \in live'
               PROVE  /\ \A n \in 1 .. Len(wire[j]) : wire[j][n] = cursor[DeviceOf[j]] + n
                      /\ conn'[j].next = cursor[DeviceOf[j]] + Len(wire[j])
    BY <1>1 DEF Connected
  <2>1. CASE j = k
    <3>1. wire[k] = <<>>
      BY <1>9 DEF SyncInv, Served
    <3>2. Len(wire[k]) = 0
      BY <3>1
    <3> QED  BY <1>3, <1>4, <2>1, <3>2
  <2>2. CASE j # k
    <3>1. j \in live /\ j \in Conns
      BY <1>0, <1>1, <2>2 DEF SyncRows
    <3> QED  BY <1>4, <2>2, <3>1 DEF SyncInv, Connected
  <2> QED  BY <2>1, <2>2
<1>12. Held' /\ CatchUpJustified'
  <2>1. op' = NoOp /\ NoOp.conn = NoConn /\ NoOp.stage = "none" /\ NoOp.at = 0
    BY <1>1 DEF NoOp
  <2> QED  BY <1>1, <1>3, <2>1 DEF Held, CatchUpJustified, journalVars
<1>13. Compacted' /\ Told'
  BY <1>1 DEF SyncInv, Compacted, Expired, journalVars, Told
<1> QED  BY <1>6, <1>7, <1>8, <1>10, <1>11, <1>12, <1>13 DEF SyncInv

\* The hello acknowledgement opens the socket under the lease it took.
LEMMA HelloKeeps ==
    ASSUME SyncInv, NEW k \in Conns, HelloAck(k)
    PROVE  SyncInv'
<1>0. SyncRows /\ conn[k] \in ConnRow /\ faults' \in 0 .. MaxFaults
  BY DEF SyncInv, SyncRows, HelloAck
<1>1. CASE OperationGranted(k) /\ conn' = [conn EXCEPT ![k].phase = "open"] /\ UNCHANGED <<wire, live>>
  <2>1. conn' = [conn EXCEPT ![k] = [phase |-> "open", fence |-> conn[k].fence,
                                     until |-> conn[k].until, next |-> conn[k].next]]
    <3>1. conn' = [conn EXCEPT ![k] = [conn[k] EXCEPT !.phase = "open"]]
      BY <1>1, Zenon
    <3> QED  BY <1>0, <3>1, ConnReplaced
  <2>2. /\ conn' \in [Conns -> ConnRow]
        /\ \A j \in Conns : /\ conn'[j].fence = conn[j].fence /\ conn'[j].until = conn[j].until
                            /\ conn'[j].next = conn[j].next
        /\ \A j \in Conns : conn[j].phase # "closed" => conn'[j].phase # "closed"
    BY <1>0, <2>1 DEF SyncRows, ConnRow
  <2>3. op = NoOp /\ UNCHANGED <<journalVars, lease, syncAck, revoked, op, cursor, told, faults>>
    BY <1>1 DEF HelloAck, OperationGranted, LockFree
  <2>4. SyncRows'
    BY <1>0, <1>1, <2>2, <2>3 DEF SyncRows, JournalTypeOK, journalVars
  <2>5. SyncBounds' /\ LeaseCovers'
    BY <2>2, <2>3 DEF SyncInv, SyncBounds, LeaseCovers, journalVars
  <2>6. Served' /\ Connected'
    BY <1>0, <1>1, <2>2, <2>3 DEF SyncInv, SyncRows, Served, Connected
  <2>7. Held' /\ CatchUpJustified'
    <3>1. op' = NoOp /\ NoOp.conn = NoConn /\ NoOp.stage = "none" /\ NoOp.at = 0
      BY <2>3 DEF NoOp
    <3>2. rtNow' \in Nat
      BY <2>4, JournalConstants DEF SyncRows, JournalTypeOK
    <3> QED  BY <3>1, <3>2 DEF Held, CatchUpJustified
  <2>8. Compacted' /\ Told'
    BY <2>3 DEF SyncInv, Compacted, Expired, journalVars, Told
  <2> QED  BY <2>4, <2>5, <2>6, <2>7, <2>8 DEF SyncInv
<1>2. CASE Dropped(k)
  <2>1. conn[k].phase = "hello" /\ UNCHANGED <<journalVars, lease, syncAck, revoked, op, cursor, told>>
    BY DEF HelloAck
  <2>2. op.conn # k
    BY <2>1, OperationFacts
  <2> QED  BY <1>0, <1>2, <2>1, <2>2, DropKeeps
<1> QED  BY <1>1, <1>2 DEF HelloAck

\* A lease row with a new expiry.
LEMMA LeaseReplaced ==
    ASSUME NEW r \in [fence : 0 .. MaxFence, until : Nat]
    PROVE  \A v : [r EXCEPT !.until = v] = [fence |-> r.fence, until |-> v]
OBVIOUS

\* A heartbeat extends the lease its fence still holds.
LEMMA HeartbeatKeeps ==
    ASSUME SyncInv, NEW k \in Conns, HeartbeatLease(k)
    PROVE  SyncInv'
<1> DEFINE d == DeviceOf[k]
<1>0. SyncRows /\ d \in RtDevices /\ conn[k] \in ConnRow /\ NoOp.conn = NoConn /\ k # NoConn
  BY RealtimeConstants DEF SyncInv, SyncRows, NoOp, NoConn
<1>1. op = NoOp /\ UNCHANGED <<journalVars, syncAck, revoked, op, cursor, told, faults>>
  BY DEF HeartbeatLease, LockFree
<1>2. CASE /\ lease' = [lease EXCEPT ![d].until = rtNow + LeaseTtl]
           /\ conn' = [conn EXCEPT ![k].until = rtNow + LeaseTtl]
           /\ UNCHANGED <<wire, live>>
  <2>1. PICK u \in Nat : u = rtNow + LeaseTtl
    BY <1>0, JournalConstants, RealtimeConstants DEF SyncRows, JournalTypeOK
  <2>2. conn' = [conn EXCEPT ![k] = [phase |-> conn[k].phase, fence |-> conn[k].fence,
                                     until |-> u, next |-> conn[k].next]]
    <3>1. conn' = [conn EXCEPT ![k] = [conn[k] EXCEPT !.until = u]]
      BY <1>2, <2>1, Zenon
    <3> QED  BY <1>0, <3>1, ConnReplaced
  <2>3. /\ conn' \in [Conns -> ConnRow]
        /\ \A j \in Conns : /\ conn'[j].fence = conn[j].fence /\ conn'[j].phase = conn[j].phase
                            /\ conn'[j].next = conn[j].next
        /\ conn'[k].until = u
        /\ \A j \in Conns : j # k => conn'[j].until = conn[j].until
    BY <1>0, <2>2 DEF SyncRows, ConnRow
  <2>4. lease' = [lease EXCEPT ![d] = [fence |-> lease[d].fence, until |-> u]]
    <3>1. lease' = [lease EXCEPT ![d] = [lease[d] EXCEPT !.until = u]]
      BY <1>2, <2>1, Zenon
    <3>2. lease[d] \in [fence : 0 .. MaxFence, until : Nat]
      BY <1>0 DEF SyncRows
    <3>3. [lease[d] EXCEPT !.until = u] = [fence |-> lease[d].fence, until |-> u]
      BY <3>2, LeaseReplaced
    <3> QED  BY <3>1, <3>3
  <2>5. /\ lease' \in [RtDevices -> [fence : 0 .. MaxFence, until : Nat]]
        /\ lease'[d].until = u
        /\ \A b \in RtDevices : b # d => lease'[b] = lease[b]
    BY <1>0, <2>4 DEF SyncRows
  <2>6. SyncRows'
    BY <1>0, <1>1, <1>2, <2>3, <2>5 DEF SyncRows, JournalTypeOK, journalVars
  <2>7. SyncBounds'
    BY <1>1, <2>3 DEF SyncInv, SyncBounds, journalVars
  <2>8. LeaseCovers'
    <3>0. rtNow \in Nat /\ rtNow' = rtNow
      BY <1>0, <1>1, JournalConstants DEF SyncRows, JournalTypeOK, journalVars
    <3>1. ASSUME NEW b \in RtDevices
          PROVE  /\ lease'[b].until <= rtNow' + LeaseTtl /\ lease[b].until <= lease'[b].until
                 /\ lease[b].until \in Nat /\ lease'[b].until \in Nat
      <4>1. lease[b].until \in Nat /\ lease[b].until <= rtNow + LeaseTtl
        BY <1>0 DEF SyncInv, SyncRows, LeaseCovers
      <4> QED  BY <2>1, <2>5, <3>0, <4>1
    <3>2. ASSUME NEW j \in Conns PROVE conn'[j].until <= lease'[DeviceOf[j]].until
      <4>1. DeviceOf[j] \in RtDevices /\ conn[j].until \in Nat
        BY <1>0, RealtimeConstants DEF SyncRows, ConnRow
      <4>2. CASE j = k
        BY <2>3, <2>5, <4>2
      <4>3. CASE j # k
        <5>1. conn'[j].until = conn[j].until /\ conn[j].until <= lease[DeviceOf[j]].until
          BY <2>3, <4>3 DEF SyncInv, LeaseCovers
        <5> QED  BY <3>1, <4>1, <5>1
      <4> QED  BY <4>2, <4>3
    <3> QED  BY <3>1, <3>2 DEF LeaseCovers
  <2>9. Served' /\ Connected'
    BY <1>0, <1>1, <1>2, <2>3 DEF SyncInv, SyncRows, Served, Connected
  <2>10. Held' /\ CatchUpJustified'
    <3>1. op' = NoOp /\ NoOp.conn = NoConn /\ NoOp.stage = "none" /\ NoOp.at = 0
      BY <1>1 DEF NoOp
    <3>2. rtNow' \in Nat
      BY <2>6, JournalConstants DEF SyncRows, JournalTypeOK
    <3> QED  BY <3>1, <3>2 DEF Held, CatchUpJustified
  <2>11. Compacted' /\ Told'
    BY <1>1 DEF SyncInv, Compacted, Expired, journalVars, Told
  <2> QED  BY <2>6, <2>7, <2>8, <2>9, <2>10, <2>11 DEF SyncInv
<1>3. CASE Refused(k) /\ UNCHANGED lease
  <2>1. faults' \in 0 .. MaxFaults
    BY <1>0, <1>1 DEF SyncRows
  <2> QED  BY <1>0, <1>1, <1>3, <2>1, DropKeeps DEF Refused
<1> QED  BY <1>2, <1>3 DEF HeartbeatLease

\* An acknowledgement is of something the device was told.
LEMMA AcknowledgeKeeps ==
    ASSUME SyncInv, NEW k \in Conns, NEW c \in Cursors, Acknowledge(k, c)
    PROVE  SyncInv'
<1> DEFINE d == DeviceOf[k]
<1>0. SyncRows /\ d \in RtDevices /\ NoOp.conn = NoConn /\ k # NoConn /\ c \in Nat
  BY RealtimeConstants, JournalConstants DEF SyncInv, NoOp, NoConn, Cursors
<1>1. op = NoOp /\ UNCHANGED <<journalVars, lease, revoked, op, cursor, told, faults>>
  BY DEF Acknowledge, LockFree
<1>2. CASE /\ c <= Highwater
           /\ syncAck' = [syncAck EXCEPT ![d] = Greatest(@, c)]
           /\ UNCHANGED <<conn, wire, live>>
  <2>1. PICK a \in Nat : a = Greatest(syncAck[d], c) /\ a <= Len(journal)
    <3>1. Greatest(syncAck[d], c) \in Nat /\ Greatest(syncAck[d], c) <= Len(journal)
      BY <1>0, <1>2 DEF SyncInv, SyncRows, SyncBounds, Greatest, Highwater
    <3> QED  BY <3>1
  <2>2. /\ syncAck' \in [RtDevices -> Nat]
        /\ \A b \in RtDevices : syncAck'[b] = syncAck[b] \/ syncAck'[b] = a
    BY <1>0, <1>2, <2>1 DEF SyncRows
  <2>3. SyncRows'
    BY <1>0, <1>1, <1>2, <2>2 DEF SyncRows, JournalTypeOK, journalVars
  <2>4. SyncBounds'
    BY <1>1, <1>2, <2>1, <2>2 DEF SyncInv, SyncBounds, journalVars
  <2>5. LeaseCovers' /\ Served' /\ Connected'
    BY <1>1, <1>2 DEF SyncInv, LeaseCovers, Served, Connected, journalVars
  <2>6. Held' /\ CatchUpJustified'
    <3>1. op' = NoOp /\ NoOp.conn = NoConn /\ NoOp.stage = "none" /\ NoOp.at = 0
      BY <1>1 DEF NoOp
    <3>2. rtNow' \in Nat
      BY <2>3, JournalConstants DEF SyncRows, JournalTypeOK
    <3> QED  BY <3>1, <3>2 DEF Held, CatchUpJustified
  <2>7. Compacted' /\ Told'
    BY <1>1 DEF SyncInv, Compacted, Expired, journalVars, Told
  <2> QED  BY <2>3, <2>4, <2>5, <2>6, <2>7 DEF SyncInv
<1>3. CASE Refused(k) /\ UNCHANGED syncAck
  <2>1. faults' \in 0 .. MaxFaults
    BY <1>0, <1>1 DEF SyncRows
  <2> QED  BY <1>0, <1>1, <1>3, <2>1, DropKeeps DEF Refused
<1> QED  BY <1>2, <1>3 DEF Acknowledge

\* A device moves its cursor over the frame it received.
LEMMA ReceiveKeeps ==
    ASSUME SyncInv, NEW k \in Conns, ClientReceives(k)
    PROVE  SyncInv'
<1> DEFINE d == DeviceOf[k]
<1>0. SyncRows /\ d \in RtDevices /\ wire[k] \in Seq(Cursors)
  BY RealtimeConstants DEF SyncInv, SyncRows
<1>1. /\ k \in live /\ wire[k] # <<>>
      /\ cursor' = [cursor EXCEPT ![d] = Head(wire[k])]
      /\ told' = [told EXCEPT ![d] = @ \cup {Head(wire[k])}]
      /\ wire' = [wire EXCEPT ![k] = Tail(@)]
      /\ UNCHANGED <<journalVars, lease, syncAck, revoked, conn, op, live, faults>>
  BY DEF ClientReceives
<1>2. /\ Head(wire[k]) = wire[k][1] /\ Head(wire[k]) \in Cursors
      /\ Len(wire[k]) \in Nat \ {0}
      /\ Tail(wire[k]) \in Seq(Cursors) /\ Len(Tail(wire[k])) = Len(wire[k]) - 1
      /\ \A n \in 1 .. Len(wire[k]) - 1 : Tail(wire[k])[n] = wire[k][n + 1]
  BY <1>0, <1>1
<1>3. PICK a \in Nat, l \in Nat \ {0} : a = cursor[d] /\ l = Len(wire[k])
  BY <1>0, <1>2 DEF SyncRows
<1>4. PICK h \in Nat : h = a + 1 /\ h = Head(wire[k]) /\ h \in Cursors
  <2>1. wire[k][1] = a + 1
    BY <1>1, <1>3 DEF SyncInv, Connected
  <2> QED  BY <1>2, <1>3, <2>1
<1>5. conn[k].next = a + l /\ conn[k].next <= Len(journal) /\ Len(journal) \in Nat
  BY <1>0, <1>1, <1>3 DEF SyncInv, Connected, SyncBounds, SyncRows, JournalTypeOK
<1>6. h <= Len(journal)
  BY <1>3, <1>4, <1>5
<1>7. /\ cursor' \in [RtDevices -> Nat] /\ cursor'[d] = h
      /\ \A b \in RtDevices : b # d => cursor'[b] = cursor[b]
  BY <1>0, <1>1, <1>4 DEF SyncRows
<1>8. /\ told' \in [RtDevices -> SUBSET Cursors] /\ told'[d] = told[d] \cup {h}
      /\ \A b \in RtDevices : b # d => told'[b] = told[b]
  BY <1>0, <1>1, <1>4 DEF SyncRows
<1>9. /\ wire' \in [Conns -> Seq(Cursors)] /\ wire'[k] = Tail(wire[k])
      /\ \A j \in Conns : j # k => wire'[j] = wire[j]
  BY <1>0, <1>1, <1>2 DEF SyncRows
<1>10. SyncRows'
  BY <1>0, <1>1, <1>7, <1>8, <1>9 DEF SyncRows, JournalTypeOK, journalVars
<1>11. SyncBounds'
  BY <1>1, <1>6, <1>7 DEF SyncInv, SyncBounds, journalVars
<1>12. LeaseCovers' /\ Held' /\ Compacted' /\ CatchUpJustified'
  BY <1>1 DEF SyncInv, LeaseCovers, Held, Compacted, CatchUpJustified, Expired, Highwater, journalVars
<1>13. Served'
  BY <1>1, <1>9 DEF SyncInv, Served
<1>14. Connected'
  <2> SUFFICES ASSUME NEW j \in live
               PROVE  /\ \A n \in 1 .. Len(wire'[j]) : wire'[j][n] = cursor'[DeviceOf[j]] + n
                      /\ conn[j].next = cursor'[DeviceOf[j]] + Len(wire'[j])
    BY <1>1 DEF Connected
  <2>1. CASE j = k
    <3>1. Len(wire'[k]) = l - 1
      BY <1>2, <1>3, <1>9
    <3>2. ASSUME NEW n \in 1 .. l - 1 PROVE wire'[k][n] = h + n
      <4>1. n + 1 \in 1 .. l
        BY <1>3
      <4>2. wire[k][n + 1] = a + (n + 1)
        BY <1>1, <1>3, <4>1 DEF SyncInv, Connected
      <4>3. wire'[k][n] = wire[k][n + 1]
        BY <1>2, <1>3, <1>9
      <4>4. a + (n + 1) = h + n
        BY <1>3, <1>4
      <4> QED  BY <4>2, <4>3, <4>4
    <3>3. a + l = h + (l - 1)
      BY <1>3, <1>4, SMTT(40)
    <3> QED  BY <1>5, <1>7, <2>1, <3>1, <3>2, <3>3
  <2>2. CASE j # k
    <3>1. j \in Conns /\ DeviceOf[j] # d /\ DeviceOf[j] \in RtDevices
      BY <1>0, <1>1, <2>2, RealtimeConstants DEF SyncInv, SyncRows, Served
    <3> QED  BY <1>7, <1>9, <2>2, <3>1 DEF SyncInv, Connected
  <2> QED  BY <2>1, <2>2
<1>15. Told'
  <2>1. 1 .. a \subseteq told[d]
    BY <1>0, <1>3 DEF SyncInv, Told
  <2>2. 1 .. h \subseteq told[d] \cup {h}
    BY <1>3, <1>4, <2>1
  <2> QED  BY <1>7, <1>8, <2>2 DEF SyncInv, Told
<1> QED  BY <1>10, <1>11, <1>12, <1>13, <1>14, <1>15 DEF SyncInv

\* A device that drops its connection keeps the cursor it has.
LEMMA ClientDropsKeeps ==
    ASSUME SyncInv, NEW k \in Conns, ClientDrops(k)
    PROVE  SyncInv'
<1>0. SyncRows /\ k # NoConn
  BY RealtimeConstants DEF SyncInv, NoConn
<1>1. faults' \in 0 .. MaxFaults
  BY <1>0, RealtimeConstants DEF SyncRows, ClientDrops
<1>2. UNCHANGED <<journalVars, lease, syncAck, revoked, cursor, told>>
  BY DEF ClientDrops
<1>3. CASE live' = live \ {k} /\ wire' = [wire EXCEPT ![k] = <<>>] /\ UNCHANGED <<conn, op>>
  <2>1. /\ wire' \in [Conns -> Seq(Cursors)] /\ wire'[k] = <<>>
        /\ \A j \in Conns : j # k => wire'[j] = wire[j]
    BY <1>0, <1>3 DEF SyncRows
  <2>2. SyncRows'
    BY <1>0, <1>1, <1>2, <1>3, <2>1 DEF SyncRows, JournalTypeOK, journalVars
  <2>3. SyncBounds' /\ LeaseCovers'
    BY <1>2, <1>3 DEF SyncInv, SyncBounds, LeaseCovers, journalVars
  <2>4. Served' /\ Connected'
    BY <1>0, <1>2, <1>3, <2>1 DEF SyncInv, SyncRows, Served, Connected
  <2>5. Held' /\ CatchUpJustified'
    BY <1>2, <1>3 DEF SyncInv, Held, CatchUpJustified, Expired, Highwater, journalVars
  <2>6. Compacted' /\ Told'
    BY <1>2 DEF SyncInv, Compacted, Expired, journalVars, Told
  <2> QED  BY <2>2, <2>3, <2>4, <2>5, <2>6 DEF SyncInv
<1>4. CASE Dropped(k) /\ op' = IF op.conn = k THEN NoOp ELSE op
  BY <1>1, <1>2, <1>4, DropKeeps
<1> QED  BY <1>3, <1>4 DEF ClientDrops

\* A socket that ends loses frames but no cursor.
LEMMA SocketEndsKeeps ==
    ASSUME SyncInv, NEW k \in Conns, SocketEnds(k) \/ ReplyTimesOut(k)
    PROVE  SyncInv'
<1>1. /\ Dropped(k) /\ op' = op /\ op.conn # k
      /\ UNCHANGED <<journalVars, lease, syncAck, revoked, cursor, told, faults>>
  BY DEF SocketEnds, ReplyTimesOut
<1>2. faults' \in 0 .. MaxFaults
  BY <1>1 DEF SyncInv, SyncRows
<1> QED  BY <1>1, <1>2, DropKeeps

-----------------------------------------------------------------------------
\* With no events and no sockets the invariant holds.
LEMMA SyncInvInit == RealtimeInit => SyncInv
<1> SUFFICES ASSUME RealtimeInit PROVE SyncInv
  OBVIOUS
<1>1. /\ NoOp \in OpRow /\ NoOp.conn = NoConn /\ NoOp.stage = "none" /\ NoOp.high = 0
      /\ NoOp.at = 0 /\ Closed \in ConnRow /\ Closed.next = 0 /\ Closed.until = 0
  BY RealtimeConstants DEF NoOp, OpRow, Closed, ConnRow
<1>2. rtNow = 0 /\ journal = <<>> /\ floor = 1 /\ Len(journal) = 0
  BY DEF RealtimeInit, JournalInit
<1>3. JournalTypeOK
  BY <1>2, JournalConstants DEF JournalTypeOK
<1>4. SyncRows
  BY <1>1, <1>3, RealtimeConstants DEF RealtimeInit, SyncRows
<1>5. SyncBounds
  BY <1>1, <1>2 DEF RealtimeInit, SyncBounds
<1>6. LeaseCovers
  BY <1>1, <1>2, RealtimeConstants DEF RealtimeInit, LeaseCovers
<1>7. Served /\ Connected /\ Told /\ Compacted
  BY <1>2 DEF RealtimeInit, Served, Connected, Told, Compacted
<1>8. Held /\ CatchUpJustified
  BY <1>1, <1>2 DEF RealtimeInit, Held, CatchUpJustified
<1> QED  BY <1>4, <1>5, <1>6, <1>7, <1>8 DEF SyncInv

\* Every step of a writer, a gateway, a device or the compactor keeps it.
LEMMA SyncInvStep == SyncInv /\ [RealtimeNext]_realtimeVars => SyncInv'
<1> SUFFICES ASSUME SyncInv, [RealtimeNext]_realtimeVars PROVE SyncInv'
  OBVIOUS
<1>1. CASE \/ \E ttl \in DeliveryTtls : AppendDelivery(ttl)
           \/ AppendRead
           \/ \E d \in RtDevices : RevokeDevice(d)
  BY <1>1, WritersKeep
<1>2. CASE CompactJournal \/ RealtimeTick
  BY <1>2, CompactKeeps, TickKeeps
<1>3. ASSUME NEW k \in Conns,
             \/ AcquireLease(k) \/ HelloAck(k) \/ HeartbeatLease(k)
             \/ \E c \in Cursors : Acknowledge(k, c)
      PROVE  SyncInv'
  BY <1>3, AcquireKeeps, HelloKeeps, HeartbeatKeeps, AcknowledgeKeeps
<1>4. ASSUME NEW k \in Conns,
             \/ ReplayStarts(k) \/ ReplayHead(k) \/ ReplayRows(k) \/ SendEvent(k)
             \/ FinishOperation(k) \/ SendCatchUp(k) \/ OperationEnds(k)
      PROVE  SyncInv'
  BY <1>4, BeginKeeps, HeadKeeps, RowsKeep, SendKeeps, FinishKeeps, CatchUpKeeps, EndKeeps
<1>5. ASSUME NEW k \in Conns,
             ReplyTimesOut(k) \/ ClientReceives(k) \/ ClientDrops(k) \/ SocketEnds(k)
      PROVE  SyncInv'
  BY <1>5, ReceiveKeeps, ClientDropsKeeps, SocketEndsKeeps
<1>6. CASE UNCHANGED realtimeVars
  <2>1. op' \in OpRow /\ op'.high <= Len(journal)
    BY <1>6 DEF SyncInv, SyncRows, SyncBounds, realtimeVars
  <2>2. Held' /\ CatchUpJustified'
    BY <1>6 DEF SyncInv, Held, CatchUpJustified, Expired, Highwater, realtimeVars, journalVars
  <2> QED  BY <1>6, <2>1, <2>2, OperationKeeps DEF realtimeVars
<1> QED  BY <1>1, <1>2, <1>3, <1>4, <1>5, <1>6 DEF RealtimeNext

\* The inductive invariant of the stream: what is on its way to a device connects its
\* cursor to the gateway's, the operation that holds the lock still has what it checked,
\* and everything below the floor has expired (replay_in_transaction, LeaseOperation).
THEOREM SyncSafety == RealtimeSpec => []SyncInv
BY SyncInvInit, SyncInvStep, PTL DEF RealtimeSpec

\* For any number of devices, sockets, lost connections and any page size: a device that
\* holds a cursor was told of every event up to it or resynchronised over it, whatever
\* expires or is compacted between the statements that read a page
\* (replay_in_transaction).
THEOREM StreamHasNoGap == RealtimeSpec => []NoSilentGap
<1>1. SyncInv => NoSilentGap
  <2> SUFFICES ASSUME SyncInv PROVE NoSilentGap
    OBVIOUS
  <2>0. /\ SyncRows /\ SyncBounds
        /\ Len(journal) \in Nat
    BY DEF SyncInv, SyncRows, JournalTypeOK
  <2>1. syncAck \in [RtDevices -> 0 .. Len(journal)] /\ cursor \in [RtDevices -> 0 .. Len(journal)]
    BY <2>0 DEF SyncRows, SyncBounds
  <2>2. conn \in [Conns -> [phase : {"closed", "hello", "open"}, fence : 0 .. MaxFence,
                            until : Nat, next : 0 .. Len(journal)]]
    <3>1. ASSUME NEW k \in Conns
          PROVE  conn[k] \in [phase : {"closed", "hello", "open"}, fence : 0 .. MaxFence,
                              until : Nat, next : 0 .. Len(journal)]
      <4>1. conn[k] \in ConnRow /\ conn[k].next <= Len(journal)
        BY <2>0 DEF SyncRows, SyncBounds
      <4> QED  BY <2>0, <4>1 DEF ConnRow
    <3> QED  BY <2>0, <3>1 DEF SyncRows
  <2>3. op \in [conn : Conns \cup {NoConn},
                stage : {"none", "begun", "head", "send", "catchup"},
                high : 0 .. Len(journal), at : Nat, page : Seq(Cursors)]
    <3>1. op \in OpRow /\ op.high <= Len(journal)
      BY <2>0 DEF SyncRows, SyncBounds
    <3> QED  BY <2>0, <3>1 DEF OpRow
  <2>4. RealtimeTypeOK
    BY <2>0, <2>1, <2>2, <2>3 DEF SyncRows, RealtimeTypeOK
  <2> QED  BY <2>4 DEF SyncInv, Told, NoSilentGap
<1> QED  BY <1>1, SyncSafety, PTL

\* A device is sent to a full resynchronisation only if an event it was not told of has
\* expired, for any page size and whatever is appended and compacted while the page is
\* read (replay_in_transaction, compact_expired).
THEOREM CatchUpNeeded == RealtimeSpec => []CatchUpJustified
<1>1. SyncInv => CatchUpJustified
  BY DEF SyncInv
<1> QED  BY <1>1, SyncSafety, PTL

\* No event is written to a socket after its lease was taken over or ran out, or its
\* device was revoked: hellos, heartbeats and revocations wait for the lock of the
\* operation (LeaseOperation, begin_gateway_operation).
THEOREM SendsAreFenced == RealtimeSpec => FencedSend
<1>1. ASSUME SyncInv, [RealtimeNext]_realtimeVars, NEW k \in Conns,
             conn[k].phase = "open", conn'[k].next > conn[k].next
      PROVE  /\ lease[DeviceOf[k]].fence = conn[k].fence
             /\ lease[DeviceOf[k]].until > rtNow
             /\ DeviceOf[k] \notin revoked
  <2>0. conn \in [Conns -> ConnRow] /\ conn[k].next \in Nat /\ ~(conn[k].next > conn[k].next)
        /\ ~(Closed.next > conn[k].next)
    BY <1>1 DEF SyncInv, SyncRows, ConnRow, Closed
  <2>1. conn' # conn /\ conn'[k] # Closed
    BY <1>1, <2>0
  <2>2. ~Dropped(k)
    BY <2>0, <2>1 DEF Dropped
  <2>3. ASSUME NEW j \in Conns, Dropped(j) PROVE FALSE
    BY <1>1, <2>0, <2>2, <2>3 DEF Dropped
  <2>4. ASSUME NEW j \in Conns, AcquireLease(j) PROVE FALSE
    BY <1>1, <2>0, <2>4 DEF AcquireLease
  <2>5. ASSUME NEW j \in Conns, HelloAck(j) PROVE FALSE
    <3>1. conn' = [conn EXCEPT ![j].phase = "open"]
      BY <2>3, <2>5 DEF HelloAck
    <3>2. conn'[k].next = conn[k].next
      BY <2>0, <3>1 DEF ConnRow
    <3> QED  BY <1>1, <2>0, <3>2
  <2>6. ASSUME NEW j \in Conns, HeartbeatLease(j) PROVE FALSE
    <3>1. conn' = [conn EXCEPT ![j].until = rtNow + LeaseTtl]
      BY <2>3, <2>6 DEF HeartbeatLease, Refused
    <3>2. conn'[k].next = conn[k].next
      BY <2>0, <3>1 DEF ConnRow
    <3> QED  BY <1>1, <2>0, <3>2
  <2>7. PICK j \in Conns : SendEvent(j)
    BY <1>1, <2>1, <2>3, <2>4, <2>5, <2>6
       DEF RealtimeNext, realtimeVars, AppendDelivery, AppendRead, RevokeDevice, CompactJournal,
           RealtimeTick, ReplayStarts, BeginOrClose, ReplayHead, ReplayRows, FinishOperation,
           SendCatchUp, OperationEnds, Acknowledge, Refused, ReplyTimesOut, ClientReceives,
           ClientDrops, SocketEnds
  <2>8. j = k
    BY <1>1, <2>0, <2>7 DEF SendEvent
  <2>9. op.conn = k /\ rtNow < conn[k].until
    BY <2>7, <2>8 DEF SendEvent, SideEffectAllowed
  <2>10. /\ conn[k].until <= lease[DeviceOf[k]].until
         /\ conn[k].until \in Nat /\ lease[DeviceOf[k]].until \in Nat /\ rtNow \in Nat
    BY <1>1, RealtimeConstants, JournalConstants
       DEF SyncInv, SyncRows, LeaseCovers, ConnRow, JournalTypeOK
  <2> QED  BY <1>1, <2>9, <2>10, OperationFacts
<1>2. SyncInv /\ [RealtimeNext]_realtimeVars =>
         [\A k \in Conns : conn[k].phase = "open" /\ conn'[k].next > conn[k].next =>
             /\ lease[DeviceOf[k]].fence = conn[k].fence
             /\ lease[DeviceOf[k]].until > rtNow
             /\ DeviceOf[k] \notin revoked]_realtimeVars
  BY <1>1
<1> QED  BY <1>2, SyncSafety, PTL DEF RealtimeSpec, FencedSend
=============================================================================
