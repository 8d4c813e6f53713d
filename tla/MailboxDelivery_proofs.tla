---------------------- MODULE MailboxDelivery_proofs ----------------------
(***************************************************************************)
(* Proofs about the mailboxes of an identity for any number of mailboxes,  *)
(* devices and envelopes, any quota, page and compaction budget, and any   *)
(* disagreement of the clocks that the replay horizon outlasts.            *)
(***************************************************************************)
EXTENDS MailboxDelivery, FiniteSetTheorems, NaturalsInduction, WellFoundedInduction, TLAPS

EnvelopeRow == [state: {"none", "available", "acked", "expired"},
                seq: Nat, earliest: Nat, version: 0..MaxVersion]

\* The envelopes of m that a state v of the envelope table counts, and retains.
Available(v, m) == {e \in In(m) : v[e].state = "available"}
Retained(v, m)  == {e \in In(m) : v[e].state \in {"available", "acked"}}

\* Numbers of envelopes were handed out by their mailbox, its reader is not ahead of
\* it and got only what is addressed to it, and a tombstone is past its expiry.
RowsWithin ==
    /\ \A e \in Envelopes :
         /\ env[e].state # "none" => env[e].seq <= box[MailboxOf[e]].next
         /\ env[e].state = "expired" => Expiry[e] <= now + Skew
    /\ \A m \in Mailboxes : reader[m].cursor <= box[m].next /\ reader[m].got \subseteq In(m)

\* The journal is the interval after the compacted prefix; its rows join envelopes
\* and no envelope has two of them.
JournalRows ==
    /\ DOMAIN journal = (head.compacted + 1)..head.next
    /\ \A s \in DOMAIN journal : env[journal[s]].state # "none"
    /\ \A r, s \in DOMAIN journal : journal[r] = journal[s] => r = s

\* No device is ahead of the journal, and what it got is still there under the same
\* sequence or was collected after the replay horizon.
ClientsWithin ==
    \A d \in Devices :
        /\ client[d].cursor <= head.next
        /\ \A p \in client[d].got : \/ p[1] \in DOMAIN journal /\ journal[p[1]] = p[2]
                                    \/ Expiry[p[2]] <= now - Retention

\* What every step keeps.
MailboxInv ==
    /\ TypeOK /\ ActiveExact /\ RetainedBounded
    /\ RowsWithin /\ ReaderNeverSkips
    /\ JournalRows /\ ClientsWithin /\ NoSilentSkip /\ NoRedelivery

-----------------------------------------------------------------------------
(* Constants, clocks and pages *)

\* What the assumptions say of single constants.
LEMMA ConstantTypes ==
    /\ IsFiniteSet(Envelopes)
    /\ \A m \in Mailboxes : BoxOwner[m] \in Devices
    /\ \A e \in Envelopes : MailboxOf[e] \in Mailboxes /\ Expiry[e] \in Nat
    /\ InitialDevice \in Devices
    /\ BoxTtl \in Nat /\ Quota \in Nat /\ Quota > 0 /\ MaxTtl \in Nat
    /\ Retention \in Nat /\ Skew \in Nat /\ PushRetention \in Nat
    /\ Budget \in Nat /\ PullLimit \in Nat /\ MaxEarliest \in Nat
    /\ MaxTime \in Nat /\ MaxSequence \in Nat /\ MaxVersion \in Nat /\ MaxVersion > 0
BY MailboxConstants

\* A node's clock is within the skew of the database clock.
LEMMA NodeTime ==
    ASSUME TypeOK, NEW t \in NodeTimes
    PROVE  t \in Nat /\ now \in Nat /\ t <= now + Skew /\ now - Skew <= t
BY ConstantTypes DEF TypeOK, NodeTimes

\* A nonempty set of natural numbers has a smallest member.
LEMMA SmallestExists ==
    ASSUME NEW S, S \subseteq Nat, S # {}
    PROVE  \E x \in S : \A y \in S : x <= y
<1> DEFINE R == OpToRel(<, Nat)
<1>1. IsWellFoundedOn(R, Nat)
  BY NatLessThanWellFounded
<1>2. \A x, y \in Nat : x < y => <<x, y>> \in R
  BY DEF OpToRel
<1> HIDE DEF R
<1>3. PICK x \in S : \A y \in S : ~ (<<y, x>> \in R)
  BY <1>1, WFMin
<1>4. ASSUME NEW y \in S PROVE x <= y
  <2>1. x \in Nat /\ y \in Nat
    OBVIOUS
  <2>2. ~ (y < x)
    BY <2>1, <1>2, <1>3, Zenon
  <2> QED  BY <2>1, <2>2
<1> QED  BY <1>4

\* A nonempty bounded set of natural numbers has a largest member.
LEMMA LargestExists ==
    ASSUME NEW b \in Nat, NEW S, S \subseteq 0..b, S # {}
    PROVE  \E x \in S : \A y \in S : y <= x
<1> DEFINE T == {b - x : x \in S}
<1>1. T \subseteq Nat /\ T # {}
  <2>1. \A x \in S : x \in Nat /\ x <= b
    OBVIOUS
  <2>2. \A x \in S : b - x \in Nat
    BY <2>1
  <2> QED  BY <2>2
<1>2. \A y \in S : b - y \in T
  OBVIOUS
<1>3. \A z \in T : \E x \in S : z = b - x
  OBVIOUS
<1> HIDE DEF T
<1>4. PICK z \in T : \A y \in T : z <= y
  BY <1>1, SmallestExists
<1>5. PICK x \in S : z = b - x
  BY <1>3
<1>6. ASSUME NEW y \in S PROVE y <= x
  <2>1. z <= b - y
    BY <1>2, <1>4
  <2>2. x \in Nat /\ y \in Nat
    OBVIOUS
  <2> QED  BY <2>1, <2>2, <1>5
<1> QED  BY <1>6

\* The last member of a page bounds the page, and is the default where there is none.
LEMMA LastOfPage ==
    ASSUME NEW b \in Nat, NEW S, S \subseteq 0..b, NEW default
    PROVE  IF S = {} THEN LastOf(S, default) = default
           ELSE LastOf(S, default) \in S /\ \A y \in S : y <= LastOf(S, default)
<1>1. CASE S = {}
  BY <1>1 DEF LastOf
<1>2. CASE S # {}
  <2>1. \E x \in S : \A y \in S : y <= x
    BY <1>2, LargestExists
  <2> QED  BY <1>2, <2>1, Zenon DEF LastOf
<1> QED  BY <1>1, <1>2

\* A page takes the smallest members: below one of its members it leaves nothing out.
LEMMA FirstOfClosed ==
    ASSUME NEW b \in Nat, NEW S, S \subseteq 0..b, NEW n \in Int
    PROVE  /\ FirstOf(n, S) \subseteq S
           /\ \A x \in FirstOf(n, S) : \A y \in S : y <= x => y \in FirstOf(n, S)
<1>1. FirstOf(n, S) \subseteq S
  BY DEF FirstOf
<1>2. ASSUME NEW x \in FirstOf(n, S), NEW y \in S, y <= x PROVE y \in FirstOf(n, S)
  <2>0. \A z \in S : z \in Nat /\ z <= b
    OBVIOUS
  <2> DEFINE Below(z) == {w \in S : w < z}
  <2>1. \A z \in S : z \in FirstOf(n, S) <=> Cardinality(Below(z)) < n
    BY DEF FirstOf
  <2>2. x \in S /\ x \in Nat /\ y \in Nat
    BY <1>1, <2>0
  <2>3. Below(x) \in SUBSET Nat /\ \A z \in Below(x) : z <= b
    BY <2>0
  <2>4. IsFiniteSet(Below(x))
    <3> HIDE DEF Below
    <3> QED  BY <2>3, FS_BoundedSetOfNaturals
  <2>5. Below(y) \in SUBSET Below(x)
    <3> SUFFICES ASSUME NEW z \in S, z < y PROVE z < x
      OBVIOUS
    <3> QED  BY <1>2, <2>0, <2>2
  <2> HIDE DEF Below
  <2>6. /\ Cardinality(Below(y)) <= Cardinality(Below(x))
        /\ Cardinality(Below(y)) \in Nat /\ Cardinality(Below(x)) \in Nat
    BY <2>4, <2>5, FS_Subset, FS_CardinalityType
  <2>7. Cardinality(Below(x)) < n
    BY <2>1, <2>2
  <2>8. Cardinality(Below(y)) < n
    BY <2>6, <2>7
  <2> QED  BY <2>1, <2>8
<1> QED  BY <1>1, <1>2

-----------------------------------------------------------------------------
(* Rows and counters *)

\* Taking members out of a finite set takes their number off its cardinality.
LEMMA CountRemoved ==
    ASSUME NEW S, IsFiniteSet(S), NEW E, E \subseteq S
    PROVE  /\ IsFiniteSet(S \ E) /\ IsFiniteSet(E)
           /\ Cardinality(S) \in Nat /\ Cardinality(E) \in Nat /\ Cardinality(S \ E) \in Nat
           /\ Cardinality(S \ E) = Cardinality(S) - Cardinality(E)
<1>1. IsFiniteSet(E) /\ IsFiniteSet(S \ E)
  BY FS_Subset
<1>2. (S \ E) \cup E = S /\ (S \ E) \cap E = {}
  OBVIOUS
<1>3. Cardinality(S) = Cardinality(S \ E) + Cardinality(E) - Cardinality({})
  BY <1>1, <1>2, FS_Union
<1>4. Cardinality({}) = 0
  BY FS_EmptySet
<1>5. Cardinality(S) \in Nat /\ Cardinality(E) \in Nat /\ Cardinality(S \ E) \in Nat
  BY <1>1, FS_CardinalityType
<1> QED  BY <1>1, <1>3, <1>4, <1>5

\* The envelopes of a mailbox are finitely many, whatever is asked of them.
LEMMA BoxesFinite ==
    ASSUME NEW v, NEW m
    PROVE  /\ IsFiniteSet(In(m)) /\ IsFiniteSet(Available(v, m)) /\ IsFiniteSet(Retained(v, m))
           /\ Cardinality(Available(v, m)) \in Nat /\ Cardinality(Retained(v, m)) \in Nat
           /\ Available(v, m) \subseteq Retained(v, m)
           /\ Cardinality(Available(v, m)) <= Cardinality(Retained(v, m))
<1>1. In(m) \in SUBSET Envelopes
  BY DEF In
<1>2. IsFiniteSet(In(m))
  BY <1>1, ConstantTypes, FS_Subset
<1>3. Retained(v, m) \in SUBSET In(m) /\ Available(v, m) \in SUBSET Retained(v, m)
  BY DEF Retained, Available
<1>4. IsFiniteSet(Retained(v, m))
  BY <1>2, <1>3, FS_Subset
<1>5. IsFiniteSet(Available(v, m)) /\ Cardinality(Available(v, m)) <= Cardinality(Retained(v, m))
  BY <1>3, <1>4, FS_Subset
<1> QED  BY <1>2, <1>3, <1>4, <1>5, FS_CardinalityType

\* A mailbox whose counter is exact and whose ciphertext is within the quota counts
\* a number between nothing and the quota.
LEMMA CountsWithin ==
    ASSUME NEW v, NEW b \in [Mailboxes -> [expires: Nat, next: Nat, active: Int]],
           \A m \in Mailboxes : /\ b[m].active = Cardinality(Available(v, m))
                                /\ Cardinality(Retained(v, m)) <= Quota
    PROVE  b \in [Mailboxes -> [expires: Nat, next: Nat, active: 0..Quota]]
<1>1. \A m \in Mailboxes : b[m].active \in 0..Quota
  <2> TAKE m \in Mailboxes
  <2>1. b[m].active \in Nat /\ b[m].active <= Cardinality(Retained(v, m))
           /\ Cardinality(Retained(v, m)) \in Nat
    BY BoxesFinite
  <2> QED  BY <2>1, ConstantTypes
<1> QED  BY <1>1

\* Tombstones change the state of a row and nothing else.
LEMMA TombstonedRows ==
    ASSUME TypeOK, NEW S
    PROVE  /\ Tombstoned(S) \in [Envelopes -> EnvelopeRow]
           /\ \A e \in Envelopes :
                /\ Tombstoned(S)[e].state = IF e \in S THEN "expired" ELSE env[e].state
                /\ Tombstoned(S)[e].seq = env[e].seq
<1>1. env \in [Envelopes -> EnvelopeRow]
  BY DEF TypeOK, EnvelopeRow
<1>2. \A r \in EnvelopeRow : /\ [r EXCEPT !.state = "expired"] \in EnvelopeRow
                             /\ [r EXCEPT !.state = "expired"].state = "expired"
                             /\ [r EXCEPT !.state = "expired"].seq = r.seq
  BY DEF EnvelopeRow
<1>3. \A e \in Envelopes : Tombstoned(S)[e] = IF e \in S THEN [env[e] EXCEPT !.state = "expired"] ELSE env[e]
  BY DEF Tombstoned
<1>4. \A e \in Envelopes : Tombstoned(S)[e] \in EnvelopeRow
  BY <1>1, <1>2, <1>3
<1>5. Tombstoned(S) \in [Envelopes -> EnvelopeRow]
  BY <1>3, <1>4 DEF Tombstoned
<1>6. \A e \in Envelopes : env[e] \in EnvelopeRow
  BY <1>1
<1> QED  BY <1>2, <1>3, <1>5, <1>6
\* What TypeOK says of single rows.
LEMMA RowTypes ==
    ASSUME TypeOK
    PROVE  /\ now \in Nat
           /\ env \in [Envelopes -> EnvelopeRow]
           /\ \A m \in Mailboxes : /\ box[m].expires \in Nat /\ box[m].next \in Nat
                                   /\ box[m].active \in Int
                                   /\ reader[m].cursor \in Nat /\ reader[m].got \subseteq Envelopes
           /\ \A e \in Envelopes : env[e].seq \in Nat /\ env[e].earliest \in Nat
           /\ head.next \in Nat /\ head.compacted \in Nat /\ head.compacted <= head.next
           /\ head.next <= MaxSequence
           /\ \A d \in Devices : /\ delivery[d].ack \in Nat /\ delivery[d].earliest \in Nat
                                 /\ client[d].cursor \in Nat /\ client[d].floor \in Nat
                                 /\ client[d].got \subseteq (1..MaxSequence) \X Envelopes
                                 /\ grant[d].earliest \in Nat
BY ConstantTypes DEF TypeOK, EnvelopeRow

\* Writes to the counters of one mailbox.
WithCounters(m, n, a) == [box EXCEPT ![m] = [box[m] EXCEPT !.next = n, !.active = a]]
WithActive(m, a)      == [box EXCEPT ![m].active = a]

\* A write to the counters of one mailbox.
LEMMA BoxWritten ==
    ASSUME TypeOK, NEW m \in Mailboxes, NEW n \in Nat, NEW a \in Int,
           NEW b, b = WithCounters(m, n, a)
    PROVE  /\ b \in [Mailboxes -> [expires: Nat, next: Nat, active: Int]]
           /\ b[m].next = n /\ b[m].active = a /\ b[m].expires = box[m].expires
           /\ \A k \in Mailboxes : k # m => b[k] = box[k]
<1> DEFINE Row == [expires: Nat, next: Nat, active: Int]
<1>1. box \in [Mailboxes -> Row]
  BY ConstantTypes DEF TypeOK
<1>2. \A r \in Row : LET w == [r EXCEPT !.next = n, !.active = a]
                     IN  w \in Row /\ w.next = n /\ w.active = a /\ w.expires = r.expires
  OBVIOUS
<1>3. PICK r \in Row : r = box[m]
  BY <1>1
<1>4. PICK w \in Row : /\ w = [r EXCEPT !.next = n, !.active = a]
                       /\ w.next = n /\ w.active = a /\ w.expires = r.expires
  BY <1>2
<1>5. b = [box EXCEPT ![m] = w]
  BY <1>3, <1>4, Zenon DEF WithCounters
<1> HIDE DEF Row
<1>6. b \in [Mailboxes -> Row] /\ b[m] = w /\ \A k \in Mailboxes : k # m => b[k] = box[k]
  BY <1>1, <1>5
<1> QED  BY <1>3, <1>4, <1>6 DEF Row

\* The envelopes an expiry takes were counted, and are those of one mailbox.
LEMMA ExpiringRows ==
    ASSUME TypeOK, NEW m \in Mailboxes, NEW t
    PROVE  /\ Expiring(m, t) \subseteq Available(env, m) /\ Expiring(m, t) \subseteq In(m)
           /\ Expiring(m, t) \subseteq Retained(env, m)
           /\ Expiring(m, t) \subseteq Envelopes
           /\ IsFiniteSet(Expiring(m, t)) /\ Cardinality(Expiring(m, t)) \in Nat
           /\ \A k \in Mailboxes : k # m => In(k) \cap Expiring(m, t) = {}
<1>1. /\ Expiring(m, t) \subseteq Available(env, m) /\ Expiring(m, t) \subseteq In(m)
      /\ Expiring(m, t) \subseteq Retained(env, m)
      /\ Expiring(m, t) \subseteq Envelopes
      /\ \A k \in Mailboxes : k # m => In(k) \cap Expiring(m, t) = {}
  BY DEF Expiring, Available, Retained, In
<1>2. IsFiniteSet(Available(env, m))
  BY BoxesFinite
<1> QED  BY <1>1, <1>2, CountRemoved

\* The counters of the mailboxes and the ciphertext they retain.
Counted(b, v) ==
    /\ b \in [Mailboxes -> [expires: Nat, next: Nat, active: Int]]
    /\ \A m \in Mailboxes : /\ b[m].active = Cardinality(Available(v, m))
                            /\ Cardinality(Retained(v, m)) <= Quota

\* Exact counters are typed, and the invariants about them follow.
LEMMA CountedStep ==
    ASSUME Counted(box', env')
    PROVE  /\ box' \in [Mailboxes -> [expires: Nat, next: Nat, active: 0..Quota]]
           /\ ActiveExact' /\ RetainedBounded'
<1>1. box' \in [Mailboxes -> [expires: Nat, next: Nat, active: 0..Quota]]
  <2> PICK b, v : b = box' /\ v = env'
    OBVIOUS
  <2>1. b \in [Mailboxes -> [expires: Nat, next: Nat, active: 0..Quota]]
    BY CountsWithin DEF Counted
  <2> QED  BY <2>1
<1>2. ActiveExact' /\ RetainedBounded'
  BY DEF Counted, ActiveExact, RetainedBounded, Available, Retained
<1> QED  BY <1>1, <1>2

\* The invariants say the same of the current state.
LEMMA CountedNow ==
    ASSUME TypeOK, ActiveExact, RetainedBounded
    PROVE  Counted(box, env)
<1>1. box \in [Mailboxes -> [expires: Nat, next: Nat, active: Int]]
  BY ConstantTypes DEF TypeOK
<1> QED
  BY <1>1 DEF Counted, ActiveExact, RetainedBounded, Available, Retained

\* A write to the active counter of one mailbox alone.
LEMMA CounterWritten ==
    ASSUME TypeOK, NEW m \in Mailboxes, NEW a \in Int,
           NEW b, b = WithActive(m, a)
    PROVE  /\ b \in [Mailboxes -> [expires: Nat, next: Nat, active: Int]]
           /\ b[m].next = box[m].next /\ b[m].active = a /\ b[m].expires = box[m].expires
           /\ \A k \in Mailboxes : k # m => b[k] = box[k]
<1> DEFINE Row == [expires: Nat, next: Nat, active: Int]
<1>1. box \in [Mailboxes -> Row]
  BY ConstantTypes DEF TypeOK
<1>2. PICK r \in Row : r = box[m]
  BY <1>1
<1>3. PICK w \in Row : /\ w = [r EXCEPT !.active = a]
                       /\ w.next = r.next /\ w.active = a /\ w.expires = r.expires
  <2>1. \A q \in Row : LET w == [q EXCEPT !.active = a]
                       IN  w \in Row /\ w.next = q.next /\ w.active = a /\ w.expires = q.expires
    OBVIOUS
  <2> QED  BY <2>1
<1>4. b = [box EXCEPT ![m] = w]
  BY <1>2, <1>3, Zenon DEF WithActive
<1> HIDE DEF Row
<1>5. b \in [Mailboxes -> Row] /\ b[m] = w /\ \A k \in Mailboxes : k # m => b[k] = box[k]
  BY <1>1, <1>4
<1> QED  BY <1>2, <1>3, <1>5 DEF Row

\* What is left when envelopes of a mailbox stop being available.
LEMMA FewerAvailable ==
    ASSUME TypeOK, NEW m \in Mailboxes, NEW v, NEW E, E \subseteq Available(env, m),
           Available(v, m) = Available(env, m) \ E, Retained(v, m) \subseteq Retained(env, m)
    PROVE  /\ Cardinality(Available(v, m)) = Cardinality(Available(env, m)) - Cardinality(E)
           /\ Cardinality(Retained(v, m)) <= Cardinality(Retained(env, m))
BY BoxesFinite, CountRemoved, FS_Subset

\* A pull keeps the counters exact.
LEMMA PullCounted ==
    ASSUME TypeOK, ActiveExact, RetainedBounded, NEW m \in Mailboxes, NEW t,
           box' = [box EXCEPT ![m].active = @ - Cardinality(Expiring(m, t))],
           env' = Tombstoned(Expiring(m, t))
    PROVE  Counted(box', env')
<1> DEFINE X == Expiring(m, t)
<1>1. PICK c \in Nat : c = Cardinality(X)
  BY ExpiringRows
<1>2. PICK b : b = box'
  OBVIOUS
<1>3. PICK a \in Int : a = box[m].active - c
  BY RowTypes
<1>4. b = WithActive(m, a)
  BY <1>1, <1>2, <1>3, Zenon DEF WithActive
<1>5. /\ b \in [Mailboxes -> [expires: Nat, next: Nat, active: Int]] /\ b[m].active = a
      /\ \A k \in Mailboxes : k # m => b[k] = box[k]
  BY <1>4, CounterWritten
<1>6. X \subseteq Available(env, m) /\ \A k \in Mailboxes : k # m => In(k) \cap X = {}
  BY ExpiringRows
<1>7. \A e \in Envelopes : env'[e].state = IF e \in X THEN "expired" ELSE env[e].state
  BY TombstonedRows
<1> HIDE DEF X
<1>8. \A k \in Mailboxes : In(k) \subseteq Envelopes
  BY DEF In
<1>9. /\ Available(env', m) = Available(env, m) \ X /\ Retained(env', m) \subseteq Retained(env, m)
      /\ \A k \in Mailboxes : k # m => /\ Available(env', k) = Available(env, k)
                                       /\ Retained(env', k) = Retained(env, k)
  BY <1>6, <1>7, <1>8 DEF Available, Retained
<1>10. /\ Cardinality(Available(env', m)) = Cardinality(Available(env, m)) - Cardinality(X)
       /\ Cardinality(Retained(env', m)) <= Cardinality(Retained(env, m))
  BY <1>6, <1>9, FewerAvailable
<1>11. Counted(box, env)
  BY CountedNow
<1>12. \A k \in Mailboxes : /\ b[k].active = Cardinality(Available(env', k))
                            /\ Cardinality(Retained(env', k)) <= Quota
  <2> TAKE k \in Mailboxes
  <2>1. CASE k = m
    <3>1. /\ Cardinality(Retained(env', m)) \in Nat /\ Cardinality(Retained(env, m)) \in Nat
          /\ Cardinality(Retained(env, m)) <= Quota /\ Quota \in Nat
      BY BoxesFinite, ConstantTypes, <1>11 DEF Counted
    <3>2. box[m].active = Cardinality(Available(env, m))
      BY <1>11 DEF Counted
    <3> QED  BY <2>1, <3>1, <3>2, <1>1, <1>3, <1>5, <1>10
  <2>2. CASE k # m
    BY <2>2, <1>5, <1>9, <1>11 DEF Counted
  <2> QED  BY <2>1, <2>2
<1> QED  BY <1>2, <1>5, <1>12 DEF Counted

\* What an acknowledgement of A settles: the live envelopes it names.
Settling(m, t, A) == {e \in A : env[e].state = "available"} \ Expiring(m, t)

\* The rows after an acknowledgement.
LEMMA AckRows ==
    ASSUME TypeOK, NEW m \in Mailboxes, NEW t, NEW A, AckMailbox(m, t, A)
    PROVE  /\ env' \in [Envelopes -> EnvelopeRow]
           /\ \A e \in Envelopes :
                /\ env'[e].state = IF e \in Settling(m, t, A) THEN "acked"
                                   ELSE IF e \in Expiring(m, t) THEN "expired" ELSE env[e].state
                /\ env'[e].seq = env[e].seq
<1> DEFINE X == Expiring(m, t)
           L == Settling(m, t, A)
           T == Tombstoned(X)
<1>1. env' = [e \in Envelopes |-> IF e \in L THEN Settled(e) ELSE T[e]]
  BY DEF AckMailbox, Settling
<1>2. T \in [Envelopes -> EnvelopeRow] /\ env \in [Envelopes -> EnvelopeRow]
  BY TombstonedRows, RowTypes
<1>3. \A e \in Envelopes : /\ T[e].state = IF e \in X THEN "expired" ELSE env[e].state
                           /\ T[e].seq = env[e].seq
  BY TombstonedRows
<1>4. \A r \in EnvelopeRow : /\ [r EXCEPT !.state = "acked"] \in EnvelopeRow
                             /\ [r EXCEPT !.state = "acked"].state = "acked"
                             /\ [r EXCEPT !.state = "acked"].seq = r.seq
  BY DEF EnvelopeRow
<1>6. \A e \in Envelopes : Settled(e) \in EnvelopeRow /\ Settled(e).state = "acked"
                            /\ Settled(e).seq = env[e].seq
  <2> TAKE e \in Envelopes
  <2>1. PICK r \in EnvelopeRow : r = env[e]
    BY <1>2
  <2>2. Settled(e) = [r EXCEPT !.state = "acked"]
    BY <2>1, Zenon DEF Settled
  <2> QED  BY <2>1, <2>2, <1>4
<1> HIDE DEF X, L, T
<1>7. \A e \in Envelopes : env'[e] = IF e \in L THEN Settled(e) ELSE T[e]
  BY <1>1
<1>8. env' \in [Envelopes -> EnvelopeRow]
  BY <1>1, <1>2, <1>6
<1>9. \A e \in Envelopes :
        /\ env'[e].state = IF e \in L THEN "acked" ELSE IF e \in X THEN "expired" ELSE env[e].state
        /\ env'[e].seq = env[e].seq
  BY <1>3, <1>6, <1>7
<1> QED  BY <1>8, <1>9 DEF L, X

\* An acknowledgement keeps the counters exact, expiry included.
LEMMA AckCounted ==
    ASSUME TypeOK, ActiveExact, RetainedBounded, NEW m \in Mailboxes, NEW t,
           NEW A, A \subseteq In(m), AckMailbox(m, t, A)
    PROVE  Counted(box', env')
<1> DEFINE X == Expiring(m, t)
           L == Settling(m, t, A)
           E == X \cup L
<1>1. /\ X \subseteq Available(env, m) /\ IsFiniteSet(Available(env, m))
      /\ \A k \in Mailboxes : k # m => In(k) \cap X = {}
  BY ExpiringRows, BoxesFinite
<1>2. L \subseteq Available(env, m) \ X /\ \A k \in Mailboxes : k # m => In(k) \cap L = {}
  BY DEF Settling, Available, In
<1>3. \A e \in Envelopes : env'[e].state = IF e \in L THEN "acked"
                                           ELSE IF e \in X THEN "expired" ELSE env[e].state
  BY AckRows
<1>4. box' = [box EXCEPT ![m].active = @ - Cardinality(X) - Cardinality(L)]
  BY DEF AckMailbox, Settling
<1> HIDE DEF X, L
<1>5. /\ IsFiniteSet(Available(env, m) \ X)
      /\ Cardinality(X) \in Nat
      /\ Cardinality(Available(env, m) \ X) = Cardinality(Available(env, m)) - Cardinality(X)
  BY <1>1, CountRemoved
<1>6. /\ Cardinality(L) \in Nat
      /\ Cardinality((Available(env, m) \ X) \ L) = Cardinality(Available(env, m) \ X) - Cardinality(L)
  BY <1>2, <1>5, CountRemoved
<1>7. PICK c \in Nat, l \in Nat : c = Cardinality(X) /\ l = Cardinality(L)
  BY <1>5, <1>6
<1>8. PICK b : b = box'
  OBVIOUS
<1>9. PICK a \in Int : a = box[m].active - c - l
  BY RowTypes
<1>10. b = WithActive(m, a)
  BY <1>4, <1>7, <1>8, <1>9, Zenon DEF WithActive
<1>11. /\ b \in [Mailboxes -> [expires: Nat, next: Nat, active: Int]] /\ b[m].active = a
       /\ \A k \in Mailboxes : k # m => b[k] = box[k]
  BY <1>10, CounterWritten
<1>12. \A k \in Mailboxes : In(k) \subseteq Envelopes
  BY DEF In
<1>13. /\ Available(env', m) = (Available(env, m) \ X) \ L
       /\ Retained(env', m) \subseteq Retained(env, m)
       /\ \A k \in Mailboxes : k # m => /\ Available(env', k) = Available(env, k)
                                        /\ Retained(env', k) = Retained(env, k)
  BY <1>1, <1>2, <1>3, <1>12 DEF Available, Retained
<1>14. Cardinality(Retained(env', m)) <= Cardinality(Retained(env, m))
  BY <1>13, BoxesFinite, FS_Subset
<1>15. Counted(box, env)
  BY CountedNow
<1>16. \A k \in Mailboxes : /\ b[k].active = Cardinality(Available(env', k))
                            /\ Cardinality(Retained(env', k)) <= Quota
  <2> TAKE k \in Mailboxes
  <2>1. CASE k = m
    <3>1. /\ Cardinality(Retained(env', m)) \in Nat /\ Cardinality(Retained(env, m)) \in Nat
          /\ Cardinality(Available(env, m)) \in Nat
          /\ Cardinality(Retained(env, m)) <= Quota /\ Quota \in Nat
      BY BoxesFinite, ConstantTypes, <1>15 DEF Counted
    <3>2. box[m].active = Cardinality(Available(env, m))
      BY <1>15 DEF Counted
    <3>3. Cardinality(Available(env', m)) = Cardinality(Available(env, m)) - c - l
      BY <1>5, <1>6, <1>7, <1>13
    <3> QED  BY <2>1, <3>1, <3>2, <3>3, <1>9, <1>11, <1>14
  <2>2. CASE k # m
    BY <2>2, <1>11, <1>13, <1>15 DEF Counted
  <2> QED  BY <2>1, <2>2
<1> QED  BY <1>8, <1>11, <1>16 DEF Counted

\* The rows after an envelope was inserted.
LEMMA InsertRows ==
    ASSUME TypeOK, NEW e \in Envelopes, NEW t, NEW row \in EnvelopeRow, Insert(e, t, row)
    PROVE  /\ env' \in [Envelopes -> EnvelopeRow] /\ env'[e] = row
           /\ e \notin Expiring(MailboxOf[e], t)
           /\ \A x \in Envelopes : x # e =>
                /\ env'[x].state = IF x \in Expiring(MailboxOf[e], t) THEN "expired" ELSE env[x].state
                /\ env'[x].seq = env[x].seq
<1> DEFINE X == Expiring(MailboxOf[e], t)
           T == Tombstoned(X)
<1>1. env' = [T EXCEPT ![e] = row] /\ env[e].state = "none"
  BY DEF Insert
<1>2. /\ T \in [Envelopes -> EnvelopeRow]
      /\ \A x \in Envelopes : /\ T[x].state = IF x \in X THEN "expired" ELSE env[x].state
                              /\ T[x].seq = env[x].seq
  BY TombstonedRows
<1>3. e \notin X
  BY <1>1 DEF Expiring
<1> HIDE DEF X, T
<1>4. env' \in [Envelopes -> EnvelopeRow] /\ env'[e] = row /\ \A x \in Envelopes : x # e => env'[x] = T[x]
  BY <1>1, <1>2
<1> QED  BY <1>2, <1>3, <1>4 DEF X

\* An insertion keeps the counters exact and within the quotas it checked.
LEMMA InsertCounted ==
    ASSUME TypeOK, ActiveExact, RetainedBounded, NEW e \in Envelopes, NEW t,
           NEW row \in EnvelopeRow, row.state = "available", Insert(e, t, row)
    PROVE  /\ Counted(box', env')
           /\ box'[MailboxOf[e]].next = box[MailboxOf[e]].next + 1
           /\ \A k \in Mailboxes : k # MailboxOf[e] => box'[k] = box[k]
<1> DEFINE m == MailboxOf[e]
           X == Expiring(m, t)
<1>1. m \in Mailboxes /\ e \in In(m) /\ \A k \in Mailboxes : k # m => e \notin In(k)
  BY ConstantTypes DEF In
<1>2. /\ X \subseteq Available(env, m) /\ X \subseteq Retained(env, m)
      /\ \A k \in Mailboxes : k # m => In(k) \cap X = {}
  BY <1>1, ExpiringRows
<1>3. /\ env'[e] = row /\ e \notin X
      /\ \A x \in Envelopes : x # e => env'[x].state = IF x \in X THEN "expired" ELSE env[x].state
  BY InsertRows
<1>4. /\ env[e].state = "none"
      /\ box' = [box EXCEPT ![m].next = @ + 1, ![m].active = @ - Cardinality(X) + 1]
      /\ Cardinality(Retained(env, m) \ X) < Quota
  BY DEF Insert, HasRoom, Retained, Retains
<1> HIDE DEF X, m
<1>5. PICK c \in Nat : c = Cardinality(X)
  BY <1>1, <1>2, BoxesFinite, CountRemoved
<1>6. PICK b : b = box'
  OBVIOUS
<1>7. PICK a \in Int, n \in Nat : a = box[m].active - c + 1 /\ n = box[m].next + 1
  BY <1>1, RowTypes
<1>8. b = WithCounters(m, n, a)
  <2>1. b = [box EXCEPT ![m].next = n, ![m].active = a]
    BY <1>4, <1>5, <1>6, <1>7, Zenon
  <2> QED  BY <2>1, Zenon DEF WithCounters
<1>9. /\ b \in [Mailboxes -> [expires: Nat, next: Nat, active: Int]] /\ b[m].active = a
      /\ b[m].next = n
      /\ \A k \in Mailboxes : k # m => b[k] = box[k]
  BY <1>1, <1>8, BoxWritten
<1>10. \A k \in Mailboxes : In(k) \subseteq Envelopes
  BY DEF In
<1>11. /\ Available(env', m) = (Available(env, m) \ X) \cup {e}
       /\ Retained(env', m) = (Retained(env, m) \ X) \cup {e}
       /\ e \notin Available(env, m) /\ e \notin Retained(env, m)
       /\ \A k \in Mailboxes : k # m => /\ Available(env', k) = Available(env, k)
                                        /\ Retained(env', k) = Retained(env, k)
  BY <1>1, <1>2, <1>3, <1>4, <1>10 DEF Available, Retained
<1>12. /\ IsFiniteSet(Available(env, m) \ X)
       /\ Cardinality(Available(env, m)) \in Nat
       /\ Cardinality(Available(env, m) \ X) = Cardinality(Available(env, m)) - c
       /\ IsFiniteSet(Retained(env, m) \ X)
       /\ Cardinality(Retained(env, m) \ X) \in Nat
  BY <1>2, <1>5, BoxesFinite, CountRemoved
<1>13. /\ Cardinality(Available(env', m)) = Cardinality(Available(env, m) \ X) + 1
       /\ Cardinality(Retained(env', m)) = Cardinality(Retained(env, m) \ X) + 1
  BY <1>11, <1>12, FS_AddElement
<1>14. Counted(box, env)
  BY CountedNow
<1>15. \A k \in Mailboxes : /\ b[k].active = Cardinality(Available(env', k))
                            /\ Cardinality(Retained(env', k)) <= Quota
  <2> TAKE k \in Mailboxes
  <2>1. CASE k = m
    <3>1. box[m].active = Cardinality(Available(env, m)) /\ Quota \in Nat
      BY <1>1, <1>14, ConstantTypes DEF Counted
    <3> QED  BY <2>1, <3>1, <1>4, <1>7, <1>9, <1>12, <1>13
  <2>2. CASE k # m
    BY <2>2, <1>9, <1>11, <1>14 DEF Counted
  <2> QED  BY <2>1, <2>2
<1>16. Counted(box', env')
  BY <1>6, <1>9, <1>15 DEF Counted
<1> QED  BY <1>6, <1>7, <1>9, <1>16 DEF m

-----------------------------------------------------------------------------
(* The compactor *)

\* Every row of the journal joins its envelope.
LEMMA JournalJoined ==
    ASSUME TypeOK, JournalRows
    PROVE  /\ Joined = (head.compacted + 1)..head.next /\ Joined = DOMAIN journal
           /\ Joined \subseteq 0..head.next
           /\ \A s \in Joined : /\ s \in Nat /\ journal[s] \in Envelopes /\ s \in 1..MaxSequence
                                /\ head.compacted < s /\ s <= head.next
<1>1. Joined = DOMAIN journal
  BY DEF JournalRows, Joined
<1>2. DOMAIN journal = (head.compacted + 1)..head.next
  BY DEF JournalRows
<1>3. \A s \in DOMAIN journal : journal[s] \in Envelopes /\ s \in 1..MaxSequence
  BY DEF TypeOK
<1>4. head.compacted \in Nat /\ head.next \in Nat /\ MaxSequence \in Nat
  BY RowTypes, ConstantTypes
<1>5. \A s \in (head.compacted + 1)..head.next : s \in Nat /\ head.compacted < s /\ s <= head.next
  BY <1>4
<1>6. Joined \subseteq 0..head.next
  BY <1>1, <1>2, <1>4, <1>5
<1> QED  BY <1>1, <1>2, <1>3, <1>5, <1>6

\* The first phase takes rows that are past their expiry.
LEMMA LapsedRows ==
    ASSUME TypeOK, JournalRows
    PROVE  Lapsed \subseteq Joined /\ \A s \in Lapsed : Expiry[journal[s]] <= now /\ Retains(journal[s])
BY DEF Lapsed, FirstOf

\* The second phase moves the prefix within the journal, over rows that are old and
\* tombstoned and over no other.
LEMMA CompactPrefix ==
    ASSUME TypeOK, JournalRows, NEW to, to = CompactTo(Lapsed)
    PROVE  /\ to \in Nat /\ head.compacted <= to /\ to <= head.next
           /\ \A s \in (head.compacted + 1)..to : Collapsible(s, Lapsed)
<1> DEFINE blocked == {s \in Joined : s > head.compacted /\ ~Collapsible(s, Lapsed)}
           clear   == {s \in Joined : s > head.compacted /\ \A b \in blocked : s < b}
           page    == FirstOf(Budget, clear)
<1>1. to = LastOf(page, head.compacted)
  BY DEF CompactTo
<1>2. head.next \in Nat /\ head.compacted \in Nat /\ head.compacted <= head.next /\ Budget \in Int
  BY RowTypes, ConstantTypes
<1>3. clear \subseteq 0..head.next /\ clear \subseteq Joined
  BY JournalJoined
<1> HIDE DEF page
<1>4. page \subseteq clear
  <2> HIDE DEF clear
  <2> QED  BY <1>2, <1>3, FirstOfClosed DEF page
<1>5. page \subseteq 0..head.next
  BY <1>3, <1>4
<1>6. IF page = {} THEN to = head.compacted ELSE to \in page
  BY <1>1, <1>2, <1>5, LastOfPage
<1>7. CASE page = {}
  <2>1. to = head.compacted
    BY <1>6, <1>7
  <2> QED  BY <2>1, <1>2
<1>8. CASE page # {}
  <2>1. to \in clear
    BY <1>4, <1>6, <1>8
  <2>2. to \in Nat /\ head.compacted < to /\ to <= head.next
    BY <2>1, <1>3, JournalJoined
  <2>3. ASSUME NEW s \in (head.compacted + 1)..to PROVE Collapsible(s, Lapsed)
    <3>1. s \in Nat /\ s > head.compacted /\ s <= to /\ s <= head.next
      BY <2>2, <1>2
    <3>2. s \in Joined
      BY <3>1, <1>2, JournalJoined
    <3>3. s \notin blocked
      BY <2>1, <2>2, <3>1
    <3> QED  BY <3>1, <3>2, <3>3
  <2> HIDE DEF blocked, clear
  <2> QED  BY <2>2, <2>3, <1>2
<1> QED  BY <1>7, <1>8

\* The envelopes of the first phase.
Stones == {journal[s] : s \in Lapsed}

\* The tables after a compaction: tombstones and collected envelopes are past their
\* expiry, and the rows that stay in the journal keep their envelopes.
LEMMA CompactRows ==
    ASSUME TypeOK, JournalRows, Compact,
           NEW to, to = CompactTo(Lapsed),
           NEW stones, stones = Stones,
           NEW dropped, dropped = Dropped(to, Lapsed)
    PROVE  /\ env' \in [Envelopes -> EnvelopeRow]
           /\ \A e \in Envelopes :
                /\ env'[e].state = IF e \in dropped THEN "none"
                                   ELSE IF e \in stones THEN "expired" ELSE env[e].state
                /\ e \notin dropped => env'[e].seq = env[e].seq
           /\ stones \subseteq Envelopes /\ dropped \subseteq Envelopes
           /\ \A e \in stones : Expiry[e] <= now
           /\ \A e \in dropped : /\ Expiry[e] <= now - Retention
                                 /\ e \in stones \/ env[e].state = "expired"
           /\ to \in Nat /\ head.compacted <= to /\ to <= head.next
           /\ head' = [head EXCEPT !.compacted = to]
           /\ DOMAIN journal' = (to + 1)..head.next
           /\ \A s \in DOMAIN journal' : /\ s \in DOMAIN journal /\ journal'[s] = journal[s]
                                         /\ journal[s] \notin dropped
<1>1. /\ to \in Nat /\ head.compacted <= to /\ to <= head.next
      /\ \A s \in (head.compacted + 1)..to : Collapsible(s, Lapsed)
  BY CompactPrefix
<1>2. /\ env' = [e \in Envelopes |-> IF e \in dropped THEN NoEnvelope ELSE Tombstoned(stones)[e]]
      /\ journal' = [s \in {x \in DOMAIN journal : x > to \/ x <= head.compacted} |-> journal[s]]
      /\ head' = [head EXCEPT !.compacted = to]
  BY DEF Compact, Stones
<1>3. head.next \in Nat /\ head.compacted \in Nat
  BY RowTypes
<1>4. DOMAIN journal = (head.compacted + 1)..head.next
  BY DEF JournalRows
<1>5. stones \subseteq Envelopes /\ \A e \in stones : Expiry[e] <= now
  <2> SUFFICES ASSUME NEW s \in Lapsed PROVE journal[s] \in Envelopes /\ Expiry[journal[s]] <= now
    BY DEF Stones
  <2> QED  BY LapsedRows, JournalJoined
<1>6. ASSUME NEW e \in dropped
      PROVE  /\ e \in Envelopes /\ Expiry[e] <= now - Retention
             /\ e \in stones \/ env[e].state = "expired"
             /\ \E s \in DOMAIN journal : s <= to /\ e = journal[s]
  <2>1. PICK s \in DOMAIN journal : s > head.compacted /\ s <= to /\ e = journal[s]
    BY <1>6 DEF Dropped
  <2>2. s \in (head.compacted + 1)..to
    BY <2>1, <1>1, <1>3, <1>4
  <2>3. Collapsible(s, Lapsed)
    BY <2>2, <1>1
  <2>4. Expiry[e] <= now - Retention /\ (s \in Lapsed \/ env[e].state = "expired")
    BY <2>1, <2>3 DEF Collapsible, RetentionCutoff
  <2>5. e \in Envelopes
    BY <2>1, JournalJoined
  <2> QED  BY <2>1, <2>4, <2>5 DEF Stones
<1>7. DOMAIN journal' = (to + 1)..head.next
  <2>1. DOMAIN journal' = {x \in DOMAIN journal : x > to \/ x <= head.compacted}
    BY <1>2
  <2> QED  BY <2>1, <1>1, <1>3, <1>4
<1>8. ASSUME NEW s \in DOMAIN journal'
      PROVE  s \in DOMAIN journal /\ journal'[s] = journal[s] /\ journal[s] \notin dropped
  <2>1. s \in DOMAIN journal /\ journal'[s] = journal[s]
    BY <1>2
  <2>2. s > to
    BY <1>1, <1>3, <1>7
  <2>3. \A r \in DOMAIN journal : journal[r] = journal[s] => r = s
    BY <2>1 DEF JournalRows
  <2>4. journal[s] \notin dropped
    <3> SUFFICES ASSUME journal[s] \in dropped PROVE FALSE
      OBVIOUS
    <3>1. PICK r \in DOMAIN journal : r <= to /\ journal[s] = journal[r]
      BY <1>6
    <3> QED  BY <3>1, <2>1, <2>2, <2>3, <1>1, <1>4, <1>3
  <2> QED  BY <2>1, <2>4
<1>9. NoEnvelope \in EnvelopeRow /\ NoEnvelope.state = "none"
  BY ConstantTypes DEF NoEnvelope, EnvelopeRow
<1>10. /\ Tombstoned(stones) \in [Envelopes -> EnvelopeRow]
       /\ \A e \in Envelopes :
                /\ Tombstoned(stones)[e].state = IF e \in stones THEN "expired" ELSE env[e].state
                /\ Tombstoned(stones)[e].seq = env[e].seq
  BY TombstonedRows
<1>11. PICK T : T = Tombstoned(stones)
  OBVIOUS
<1>12. \A e \in Envelopes : env'[e] = IF e \in dropped THEN NoEnvelope ELSE T[e]
  BY <1>2, <1>11
<1>13. env' \in [Envelopes -> EnvelopeRow]
  BY <1>2, <1>9, <1>10, <1>11, <1>12
<1>14. \A e \in Envelopes :
         /\ env'[e].state = IF e \in dropped THEN "none"
                            ELSE IF e \in stones THEN "expired" ELSE env[e].state
         /\ e \notin dropped => env'[e].seq = env[e].seq
  BY <1>9, <1>10, <1>11, <1>12
<1>15. dropped \subseteq Envelopes
  BY <1>6
<1> HIDE DEF Compact
<1> QED  BY <1>1, <1>2, <1>5, <1>6, <1>7, <1>8, <1>13, <1>14, <1>15

\* A compaction takes what it releases off the counters, and nothing else.
LEMMA CompactCounted ==
    ASSUME TypeOK, ActiveExact, RetainedBounded, JournalRows, Compact
    PROVE  Counted(box', env') /\ \A m \in Mailboxes : box'[m].next = box[m].next
<1>1. PICK to : to = CompactTo(Lapsed)
  OBVIOUS
<1>2. PICK stones : stones = Stones
  OBVIOUS
<1>3. PICK dropped : dropped = Dropped(to, Lapsed)
  OBVIOUS
<1>4. /\ \A e \in Envelopes : env'[e].state = IF e \in dropped THEN "none"
                                   ELSE IF e \in stones THEN "expired" ELSE env[e].state
      /\ stones \subseteq Envelopes
      /\ \A e \in dropped : e \in stones \/ env[e].state = "expired"
  BY <1>1, <1>2, <1>3, CompactRows
<1>5. box' = [m \in Mailboxes |-> [box[m] EXCEPT !.active = @ - Released(m, stones)]]
  BY <1>2 DEF Compact, Stones
<1>6. Counted(box, env)
  BY CountedNow
<1>7. ASSUME NEW m \in Mailboxes
      PROVE  /\ box'[m] \in [expires: Nat, next: Nat, active: Int]
             /\ box'[m].active = Cardinality(Available(env', m))
             /\ Cardinality(Retained(env', m)) <= Quota
             /\ box'[m].next = box[m].next
  <2> DEFINE G == {e \in stones : MailboxOf[e] = m /\ env[e].state = "available"}
  <2>1. G \subseteq Available(env, m)
    BY <1>4 DEF Available, In
  <2>2. Available(env', m) = Available(env, m) \ G /\ Retained(env', m) \subseteq Retained(env, m)
    BY <1>4 DEF Available, Retained, In
  <2>3. Released(m, stones) = Cardinality(G)
    BY DEF Released
  <2> HIDE DEF G
  <2>4. /\ Cardinality(Available(env', m)) = Cardinality(Available(env, m)) - Cardinality(G)
        /\ Cardinality(Retained(env', m)) <= Cardinality(Retained(env, m))
    BY <2>1, <2>2, FewerAvailable
  <2>5. PICK c \in Nat : c = Cardinality(G)
    BY <2>1, BoxesFinite, CountRemoved
  <2>6. PICK r \in [expires: Nat, next: Nat, active: Int] : r = box[m]
    BY <1>6 DEF Counted
  <2>7. PICK a \in Int : a = r.active - c
    OBVIOUS
  <2>8. box'[m] = [r EXCEPT !.active = a]
    <3>1. box'[m] = [box[m] EXCEPT !.active = @ - Released(m, stones)]
      BY <1>5, Zenon
    <3> QED  BY <3>1, <2>3, <2>5, <2>6, <2>7, Zenon
  <2>9. \A q \in [expires: Nat, next: Nat, active: Int] :
          LET w == [q EXCEPT !.active = a]
          IN  w \in [expires: Nat, next: Nat, active: Int] /\ w.active = a /\ w.next = q.next
    OBVIOUS
  <2>10. /\ box'[m] \in [expires: Nat, next: Nat, active: Int]
         /\ box'[m].active = a /\ box'[m].next = box[m].next
    BY <2>6, <2>8, <2>9
  <2>11. /\ box[m].active = Cardinality(Available(env, m))
         /\ Cardinality(Retained(env, m)) <= Quota
    BY <1>6 DEF Counted
  <2>12. /\ Cardinality(Retained(env', m)) \in Nat /\ Cardinality(Retained(env, m)) \in Nat
         /\ Cardinality(Available(env, m)) \in Nat /\ Quota \in Nat
    BY BoxesFinite, ConstantTypes
  <2>13. /\ box'[m].active = Cardinality(Available(env', m))
         /\ Cardinality(Retained(env', m)) <= Quota
    BY <2>4, <2>5, <2>6, <2>7, <2>10, <2>11, <2>12
  <2> QED  BY <2>10, <2>13
<1>8. box' \in [Mailboxes -> [expires: Nat, next: Nat, active: Int]]
  BY <1>5, <1>7
<1> QED  BY <1>7, <1>8 DEF Counted

-----------------------------------------------------------------------------
(* What the invariants about the mailboxes need of a step *)

\* The row of e, if it stays, keeps its number, and becomes a tombstone only past its expiry.
RowKept(e) ==
    /\ env'[e].state # "none" => env[e].state # "none" /\ env'[e].seq = env[e].seq
    /\ env'[e].state = "available" => env[e].state = "available"
    /\ env'[e].state = "expired" => env[e].state = "expired" \/ Expiry[e] <= now + Skew

\* The row of e is new and has the next number of its mailbox.
RowNew(e) ==
    /\ env'[e].state = "available"
    /\ env'[e].seq = box[MailboxOf[e]].next + 1
    /\ box'[MailboxOf[e]].next = box[MailboxOf[e]].next + 1

\* The mailboxes only count up.
BoxesGrow == \A m \in Mailboxes : box'[m].next \in Nat /\ box'[m].next >= box[m].next

\* The clock does not go back.
TimeGrows == now' \in Nat /\ now' >= now

\* Rows that are kept or new are within what their mailboxes handed out.
LEMMA RowsStep ==
    ASSUME TypeOK, RowsWithin, BoxesGrow, TimeGrows,
           NEW e \in Envelopes, RowKept(e) \/ RowNew(e)
    PROVE  /\ env'[e].state # "none" => env'[e].seq <= box'[MailboxOf[e]].next
           /\ env'[e].state = "expired" => Expiry[e] <= now' + Skew
<1>1. /\ box[MailboxOf[e]].next \in Nat /\ env[e].seq \in Nat /\ now \in Nat
      /\ Skew \in Nat /\ Expiry[e] \in Nat /\ now' \in Nat /\ now' >= now
      /\ box'[MailboxOf[e]].next \in Nat /\ box'[MailboxOf[e]].next >= box[MailboxOf[e]].next
  BY RowTypes, ConstantTypes DEF BoxesGrow, TimeGrows
<1>2. /\ env[e].state # "none" => env[e].seq <= box[MailboxOf[e]].next
      /\ env[e].state = "expired" => Expiry[e] <= now + Skew
  BY DEF RowsWithin
<1>3. CASE RowKept(e)
  BY <1>1, <1>2, <1>3 DEF RowKept
<1>4. CASE RowNew(e)
  BY <1>1, <1>4 DEF RowNew
<1> QED  BY <1>3, <1>4

\* A step that leaves the readers alone keeps what is known of them.
LEMMA ReadersStep ==
    ASSUME TypeOK, RowsWithin, ReaderNeverSkips, BoxesGrow, TimeGrows, reader' = reader,
           \A e \in Envelopes : RowKept(e) \/ RowNew(e)
    PROVE  RowsWithin' /\ ReaderNeverSkips'
<1>1. \A e \in Envelopes :
         /\ env'[e].state # "none" => env'[e].seq <= box'[MailboxOf[e]].next
         /\ env'[e].state = "expired" => Expiry[e] <= now' + Skew
  BY RowsStep
<1>2. \A m \in Mailboxes : reader'[m].cursor <= box'[m].next /\ reader'[m].got \subseteq In(m)
  <2> TAKE m \in Mailboxes
  <2>1. /\ reader[m].cursor \in Nat /\ box[m].next \in Nat /\ reader[m].cursor <= box[m].next
        /\ box'[m].next \in Nat /\ box'[m].next >= box[m].next
        /\ reader[m].got \subseteq In(m)
    BY RowTypes DEF RowsWithin, BoxesGrow
  <2> QED  BY <2>1
<1>3. ASSUME NEW m \in Mailboxes, NEW e \in In(m),
             env'[e].state = "available", env'[e].seq <= reader'[m].cursor
      PROVE  e \in reader'[m].got
  <2>1. e \in Envelopes /\ MailboxOf[e] = m
    BY DEF In
  <2>2. CASE RowKept(e)
    BY <1>3, <2>2 DEF RowKept, ReaderNeverSkips
  <2>3. CASE RowNew(e)
    <3>1. /\ reader[m].cursor \in Nat /\ box[m].next \in Nat /\ reader[m].cursor <= box[m].next
      BY RowTypes DEF RowsWithin
    <3>2. box[m].next + 1 <= reader[m].cursor
      BY <1>3, <2>1, <2>3 DEF RowNew
    <3> QED  BY <3>1, <3>2
  <2> QED  BY <2>1, <2>2, <2>3
<1>4. RowsWithin'
  BY <1>1, <1>2 DEF RowsWithin, In
<1>5. ReaderNeverSkips'
  BY <1>3 DEF ReaderNeverSkips, In
<1> QED  BY <1>4, <1>5

\* The page of a pull leaves out no row up to the cursor the pull returns.
LEMMA PageComplete ==
    ASSUME TypeOK, RowsWithin, NEW m \in Mailboxes, NEW n \in Nat,
           NEW after, after = reader[m].cursor,
           NEW page, page = MailboxPage(m, after, n),
           NEW through, through = ReadThrough(m, page)
    PROVE  /\ page \subseteq In(m)
           /\ through \in Nat /\ through <= box[m].next
           /\ \A e \in In(m) : env[e].state # "none" /\ env[e].seq <= through
                               => env[e].seq <= after \/ e \in page
<1> DEFINE Q == {env[x].seq : x \in {y \in In(m) : env[y].state # "none" /\ env[y].seq > after}}
           P == {env[e].seq : e \in page}
<1>1. page = {e \in In(m) : env[e].state # "none" /\ env[e].seq \in FirstOf(n, Q)}
  BY DEF MailboxPage
<1>2. \A e \in In(m) : /\ e \in Envelopes /\ env[e].seq \in Nat
                       /\ env[e].state # "none" => env[e].seq <= box[m].next
  BY RowTypes DEF RowsWithin, In
<1>3. after \in Nat /\ box[m].next \in Nat /\ after <= box[m].next
  BY RowTypes DEF RowsWithin
<1>4. Q \subseteq 0..box[m].next
  BY <1>2, <1>3
<1>5. \A e \in In(m) : env[e].state # "none" /\ env[e].seq > after => env[e].seq \in Q
  OBVIOUS
<1> HIDE DEF Q
<1>6. /\ FirstOf(n, Q) \subseteq Q
      /\ \A x \in FirstOf(n, Q) : \A y \in Q : y <= x => y \in FirstOf(n, Q)
  <2>1. n \in Int
    OBVIOUS
  <2>2. PICK b \in Nat : b = box[m].next
    BY <1>3
  <2> QED  BY <2>1, <2>2, <1>4, FirstOfClosed
<1>7. P \subseteq FirstOf(n, Q) /\ P \subseteq 0..box[m].next
  BY <1>1, <1>4, <1>6
<1>8. through = LastOf(P, after)
  BY DEF ReadThrough
<1> HIDE DEF P
<1>9. IF P = {} THEN through = after ELSE through \in P /\ \A y \in P : y <= through
  BY <1>3, <1>7, <1>8, LastOfPage
<1>10. page \subseteq In(m)
  BY <1>1
<1>11. CASE P = {}
  BY <1>3, <1>9, <1>10, <1>11
<1>12. CASE P # {}
  <2>1. through \in FirstOf(n, Q) /\ through \in Nat /\ through <= box[m].next
    BY <1>3, <1>7, <1>9, <1>12
  <2>2. ASSUME NEW e \in In(m), env[e].state # "none", env[e].seq <= through
        PROVE  env[e].seq <= after \/ e \in page
    <3>1. CASE env[e].seq > after
      <4>1. env[e].seq \in Q
        BY <2>2, <3>1, <1>5
      <4>2. env[e].seq \in FirstOf(n, Q)
        BY <4>1, <2>1, <2>2, <1>6
      <4> QED  BY <4>2, <2>2, <1>1
    <3> QED  BY <3>1, <1>2, <1>3
  <2> QED  BY <2>1, <2>2, <1>10
<1> QED  BY <1>11, <1>12

\* A pull of the owner keeps what is known of its reader.
LEMMA PullReaders ==
    ASSUME TypeOK, RowsWithin, ReaderNeverSkips, BoxesGrow, TimeGrows,
           NEW m \in Mailboxes, NEW t, NEW n \in 1..PullLimit, NEW lost \in BOOLEAN,
           PullMailbox(m, t, n, lost), \A e \in Envelopes : RowKept(e)
    PROVE  /\ RowsWithin' /\ ReaderNeverSkips'
           /\ reader' \in [Mailboxes -> [cursor: Nat, got: SUBSET Envelopes]]
<1>0. reader \in [Mailboxes -> [cursor: Nat, got: SUBSET Envelopes]]
  BY DEF TypeOK
<1>1. CASE lost
  <2>1. reader' = reader
    BY <1>1 DEF PullMailbox
  <2> QED  BY <1>0, <2>1, ReadersStep
<1>2. CASE ~lost
  <2>0. PICK after \in Nat : after = reader[m].cursor
    BY RowTypes
  <2>1. PICK page : page = MailboxPage(m, after, n)
    OBVIOUS
  <2>2. PICK through : through = ReadThrough(m, page)
    OBVIOUS
  <2>3. PICK live : live = {e \in page : env'[e].state = "available"}
    OBVIOUS
  <2>4. reader' = [reader EXCEPT ![m] = [cursor |-> through, got |-> reader[m].got \cup live]]
    BY <1>2, <2>0, <2>1, <2>2, <2>3 DEF PullMailbox
  <2>5. /\ page \subseteq In(m)
        /\ through \in Nat /\ through <= box[m].next
        /\ \A e \in In(m) : env[e].state # "none" /\ env[e].seq <= through
                            => env[e].seq <= after \/ e \in page
    BY <2>0, <2>1, <2>2, PageComplete, ConstantTypes
  <2>6. live \subseteq In(m) /\ In(m) \subseteq Envelopes
    BY <2>3, <2>5 DEF In
  <2>7. PICK got \in SUBSET Envelopes : got = reader[m].got \cup live
    BY <2>6, RowTypes
  <2>8. /\ reader' \in [Mailboxes -> [cursor: Nat, got: SUBSET Envelopes]]
        /\ reader'[m].cursor = through /\ reader'[m].got = got
        /\ \A k \in Mailboxes : k # m => reader'[k] = reader[k]
    <3>1. reader' = [reader EXCEPT ![m] = [cursor |-> through, got |-> got]]
      BY <2>4, <2>7
    <3> QED  BY <3>1, <1>0, <2>5
  <2>9. \A k \in Mailboxes : reader'[k].cursor <= box'[k].next /\ reader'[k].got \subseteq In(k)
    <3> TAKE k \in Mailboxes
    <3>1. /\ box[k].next \in Nat /\ box'[k].next \in Nat /\ box'[k].next >= box[k].next
          /\ reader[k].cursor <= box[k].next /\ reader[k].got \subseteq In(k) /\ reader[k].cursor \in Nat
      BY RowTypes DEF BoxesGrow, RowsWithin
    <3>2. CASE k = m
      <4>1. got \subseteq In(m)
        BY <2>6, <2>7, <3>1, <3>2
      <4> QED  BY <4>1, <3>1, <3>2, <2>5, <2>8
    <3>3. CASE k # m
      BY <3>1, <3>3, <2>8
    <3> QED  BY <3>2, <3>3
  <2>10. \A e \in Envelopes :
           /\ env'[e].state # "none" => env'[e].seq <= box'[MailboxOf[e]].next
           /\ env'[e].state = "expired" => Expiry[e] <= now' + Skew
    BY RowsStep
  <2>11. ASSUME NEW k \in Mailboxes, NEW e \in In(k),
                env'[e].state = "available", env'[e].seq <= reader'[k].cursor
         PROVE  e \in reader'[k].got
    <3>1. e \in Envelopes
      BY DEF In
    <3>2. env[e].state = "available" /\ env'[e].seq = env[e].seq
      BY <3>1, <2>11 DEF RowKept
    <3>3. CASE k # m
      BY <3>2, <3>3, <2>8, <2>11 DEF ReaderNeverSkips
    <3>4. CASE k = m
      <4>1. env[e].seq <= after \/ e \in page
        BY <3>2, <3>4, <2>5, <2>8, <2>11
      <4>2. CASE env[e].seq <= after
        BY <4>2, <3>2, <3>4, <2>0, <2>7, <2>8 DEF ReaderNeverSkips
      <4>3. CASE e \in page
        BY <4>3, <3>4, <2>3, <2>7, <2>8, <2>11
      <4> QED  BY <4>1, <4>2, <4>3
    <3> QED  BY <3>3, <3>4
  <2>12. RowsWithin'
    BY <2>9, <2>10 DEF RowsWithin, In
  <2>13. ReaderNeverSkips'
    BY <2>11 DEF ReaderNeverSkips, In
  <2> QED  BY <2>8, <2>12, <2>13
<1> QED  BY <1>1, <1>2

-----------------------------------------------------------------------------
(* What the invariants about the journal need of a step *)

JournalInv == JournalRows /\ ClientsWithin /\ NoSilentSkip /\ NoRedelivery

\* A step that leaves the journal and the devices alone keeps what is known of them,
\* as long as it deletes no envelope.
LEMMA JournalQuiet ==
    ASSUME TypeOK, JournalInv, TimeGrows, UNCHANGED <<head, journal, client>>,
           \A e \in Envelopes : env[e].state # "none" => env'[e].state # "none"
    PROVE  JournalInv'
<1>1. /\ now \in Nat /\ now' \in Nat /\ now' >= now /\ Skew \in Nat /\ Retention \in Nat
      /\ \A e \in Envelopes : Expiry[e] \in Nat
      /\ \A s \in DOMAIN journal : journal[s] \in Envelopes
  BY RowTypes, ConstantTypes DEF TimeGrows, TypeOK
<1>2. JournalRows'
  BY <1>1 DEF JournalInv, JournalRows
<1>3. ClientsWithin'
  <2>1. \A d \in Devices : \A p \in client[d].got : p[2] \in Envelopes
    <3>1. \A d \in Devices : client[d].got \subseteq (1..MaxSequence) \X Envelopes
      BY RowTypes
    <3> QED  BY <3>1
  <2> QED  BY <1>1, <2>1 DEF JournalInv, ClientsWithin
<1>4. NoSilentSkip'
  <2> SUFFICES ASSUME NEW d \in Devices, NEW s \in (client[d].floor + 1)..client[d].cursor
               PROVE  \/ s <= head.compacted \/ <<s, journal[s]>> \in client[d].got
                      \/ Expiry[journal[s]] <= now' + Skew
    BY DEF NoSilentSkip
  <2>1. \/ s <= head.compacted \/ <<s, journal[s]>> \in client[d].got
        \/ Expiry[journal[s]] <= now + Skew
    BY DEF JournalInv, NoSilentSkip
  <2>2. client[d].cursor <= head.next /\ client[d].cursor \in Nat /\ client[d].floor \in Nat
           /\ head.compacted \in Nat /\ head.next \in Nat
    BY RowTypes DEF JournalInv, ClientsWithin
  <2>3. CASE s <= head.compacted
    BY <2>3
  <2>4. CASE s > head.compacted
    <3>1. s \in (head.compacted + 1)..head.next
      BY <2>2, <2>4
    <3>2. s \in DOMAIN journal
      BY <3>1 DEF JournalInv, JournalRows
    <3>3. Expiry[journal[s]] \in Nat
      BY <3>2, <1>1
    <3> QED  BY <2>1, <2>4, <3>3, <1>1
  <2> QED  BY <2>2, <2>3, <2>4
<1>5. NoRedelivery'
  BY DEF JournalInv, NoRedelivery
<1> QED  BY <1>2, <1>3, <1>4, <1>5 DEF JournalInv

\* An insertion appends to the journal an envelope that is not in it.
LEMMA InsertJournal ==
    ASSUME TypeOK, JournalInv, now' = now, client' = client,
           NEW e \in Envelopes, NEW t, NEW row \in EnvelopeRow, row.state = "available",
           Insert(e, t, row)
    PROVE  /\ JournalInv'
           /\ DOMAIN journal' \subseteq 1..MaxSequence
           /\ \A s \in DOMAIN journal' : journal'[s] \in Envelopes
           /\ head' \in [next: 0..MaxSequence, compacted: 0..MaxSequence]
           /\ head'.compacted <= head'.next
           /\ \A s \in DOMAIN journal : s \in DOMAIN journal' /\ journal'[s] = journal[s]
<1>1. PICK h \in Nat, c \in Nat : h = head.next /\ c = head.compacted /\ c <= h
  BY RowTypes
<1>2. /\ journal' = [s \in DOMAIN journal \cup {h + 1} |-> IF s = h + 1 THEN e ELSE journal[s]]
      /\ head' = [head EXCEPT !.next = head.next + 1] /\ head.next < MaxSequence
      /\ env[e].state = "none"
  BY <1>1 DEF Insert
<1>3. head'.next = h + 1 /\ head'.compacted = c /\ h + 1 <= MaxSequence
      /\ head' \in [next: 0..MaxSequence, compacted: 0..MaxSequence]
  BY <1>1, <1>2, ConstantTypes DEF TypeOK
<1>4. DOMAIN journal = (c + 1)..h /\ \A s \in DOMAIN journal : journal[s] \in Envelopes
  BY <1>1 DEF JournalInv, JournalRows, TypeOK
<1>5. DOMAIN journal' = (c + 1)..(h + 1)
  <2>1. DOMAIN journal' = ((c + 1)..h) \cup {h + 1}
    BY <1>2, <1>4
  <2> QED  BY <2>1, <1>1
<1>6. /\ \A s \in DOMAIN journal : s # h + 1 /\ s \in DOMAIN journal' /\ journal'[s] = journal[s]
      /\ h + 1 \in DOMAIN journal' /\ journal'[h + 1] = e
      /\ \A s \in DOMAIN journal' : s = h + 1 \/ s \in DOMAIN journal
  BY <1>1, <1>2, <1>4
<1>7. \A s \in DOMAIN journal : journal[s] # e /\ env[journal[s]].state # "none"
  BY <1>2 DEF JournalInv, JournalRows
<1>8. \A x \in Envelopes : env[x].state # "none" => env'[x].state # "none"
  BY <1>2, InsertRows
<1>9. env'[e].state # "none"
  BY InsertRows
<1>10. JournalRows'
  <2>1. \A s \in DOMAIN journal' : env'[journal'[s]].state # "none"
    BY <1>4, <1>6, <1>7, <1>8, <1>9
  <2>2. \A r, s \in DOMAIN journal : journal[r] = journal[s] => r = s
    BY DEF JournalInv, JournalRows
  <2>3. \A r, s \in DOMAIN journal' : journal'[r] = journal'[s] => r = s
    BY <2>2, <1>6, <1>7
  <2>4. DOMAIN journal' = (head'.compacted + 1)..head'.next
    BY <1>3, <1>5
  <2> QED  BY <2>1, <2>3, <2>4 DEF JournalRows
<1>11. ClientsWithin'
  <2> SUFFICES ASSUME NEW d \in Devices
               PROVE  /\ client[d].cursor <= h + 1
                      /\ \A p \in client[d].got : \/ p[1] \in DOMAIN journal' /\ journal'[p[1]] = p[2]
                                                  \/ Expiry[p[2]] <= now - Retention
    BY <1>3 DEF ClientsWithin
  <2>1. client[d].cursor \in Nat /\ client[d].cursor <= h
    BY <1>1, RowTypes DEF JournalInv, ClientsWithin
  <2>2. \A p \in client[d].got : \/ p[1] \in DOMAIN journal /\ journal[p[1]] = p[2]
                                 \/ Expiry[p[2]] <= now - Retention
    BY DEF JournalInv, ClientsWithin
  <2> QED  BY <2>1, <2>2, <1>1, <1>6
<1>12. NoSilentSkip'
  <2> SUFFICES ASSUME NEW d \in Devices, NEW s \in (client[d].floor + 1)..client[d].cursor
               PROVE  \/ s <= head'.compacted \/ <<s, journal'[s]>> \in client[d].got
                      \/ Expiry[journal'[s]] <= now + Skew
    BY DEF NoSilentSkip
  <2>1. \/ s <= c \/ <<s, journal[s]>> \in client[d].got
        \/ Expiry[journal[s]] <= now + Skew
    BY <1>1 DEF JournalInv, NoSilentSkip
  <2>2. client[d].cursor <= h /\ client[d].cursor \in Nat /\ client[d].floor \in Nat
    BY <1>1, RowTypes DEF JournalInv, ClientsWithin
  <2>3. s \in Nat /\ s <= h
    BY <2>2, <1>1
  <2>4. CASE s <= c
    BY <2>4, <1>3
  <2>5. CASE s > c
    <3>1. s \in DOMAIN journal
      BY <2>3, <2>5, <1>1, <1>4
    <3>2. journal'[s] = journal[s]
      BY <3>1, <1>6
    <3> QED  BY <2>1, <2>3, <2>5, <3>2, <1>1
  <2> QED  BY <2>3, <2>4, <2>5, <1>1
<1>13. NoRedelivery'
  BY DEF JournalInv, NoRedelivery
<1>14. DOMAIN journal' \subseteq 1..MaxSequence /\ \A s \in DOMAIN journal' : journal'[s] \in Envelopes
  <2>1. DOMAIN journal' \subseteq 1..MaxSequence
    BY <1>1, <1>3, <1>5, ConstantTypes
  <2> QED  BY <2>1, <1>4, <1>6
<1>15. head'.compacted <= head'.next
  BY <1>1, <1>3
<1> QED  BY <1>3, <1>6, <1>10, <1>11, <1>12, <1>13, <1>14, <1>15 DEF JournalInv

\* A compaction takes a prefix off the journal whose envelopes are past the replay
\* horizon, and leaves the rest in place.
LEMMA CompactJournal ==
    ASSUME TypeOK, JournalInv, now' = now, client' = client, Compact
    PROVE  /\ JournalInv'
           /\ DOMAIN journal' \subseteq 1..MaxSequence
           /\ \A s \in DOMAIN journal' : journal'[s] \in Envelopes
           /\ head' \in [next: 0..MaxSequence, compacted: 0..MaxSequence]
           /\ head'.compacted <= head'.next
<1>1. PICK to : to = CompactTo(Lapsed)
  OBVIOUS
<1>2. PICK stones : stones = Stones
  OBVIOUS
<1>3. PICK dropped : dropped = Dropped(to, Lapsed)
  OBVIOUS
<1>4. PICK h \in Nat, c \in Nat : h = head.next /\ c = head.compacted /\ c <= h
  BY RowTypes
<1>5. JournalRows
  BY DEF JournalInv
<1>6. /\ \A e \in Envelopes : env'[e].state = IF e \in dropped THEN "none"
                                   ELSE IF e \in stones THEN "expired" ELSE env[e].state
      /\ \A e \in dropped : Expiry[e] <= now - Retention
      /\ to \in Nat /\ c <= to /\ to <= h
      /\ head' = [head EXCEPT !.compacted = to]
      /\ DOMAIN journal' = (to + 1)..h
      /\ \A s \in DOMAIN journal' : /\ s \in DOMAIN journal /\ journal'[s] = journal[s]
                                    /\ journal[s] \notin dropped
  BY <1>1, <1>2, <1>3, <1>4, <1>5, CompactRows
<1>7. /\ head'.next = h /\ head'.compacted = to
      /\ head' \in [next: 0..MaxSequence, compacted: 0..MaxSequence]
  <2>1. head \in [next: 0..MaxSequence, compacted: 0..MaxSequence] /\ MaxSequence \in Nat
    BY ConstantTypes DEF TypeOK
  <2>2. to \in 0..MaxSequence
    BY <2>1, <1>4, <1>6
  <2> QED  BY <2>1, <2>2, <1>4, <1>6
<1>8. DOMAIN journal = (c + 1)..h /\ \A s \in DOMAIN journal : journal[s] \in Envelopes /\ s \in 1..MaxSequence
  BY <1>4, <1>5 DEF JournalRows, TypeOK
<1>9. \A s \in DOMAIN journal : s <= to => journal[s] \in dropped
  <2> TAKE s \in DOMAIN journal
  <2>1. s > c
    BY <1>4, <1>8
  <2> QED  BY <2>1, <1>3, <1>4 DEF Dropped
<1>10. JournalRows'
  <2>1. \A s \in DOMAIN journal' : env'[journal'[s]].state # "none"
    <3> TAKE s \in DOMAIN journal'
    <3>1. s \in DOMAIN journal /\ journal'[s] = journal[s] /\ journal[s] \notin dropped
      BY <1>6
    <3>2. env[journal[s]].state # "none" /\ journal[s] \in Envelopes
      BY <3>1, <1>5, <1>8 DEF JournalRows
    <3> QED  BY <3>1, <3>2, <1>6
  <2>2. \A r, s \in DOMAIN journal : journal[r] = journal[s] => r = s
    BY <1>5 DEF JournalRows
  <2>3. \A r, s \in DOMAIN journal' : journal'[r] = journal'[s] => r = s
    BY <2>2, <1>6
  <2>4. DOMAIN journal' = (head'.compacted + 1)..head'.next
    BY <1>6, <1>7
  <2> QED  BY <2>1, <2>3, <2>4 DEF JournalRows
<1>11. ClientsWithin'
  <2> SUFFICES ASSUME NEW d \in Devices
               PROVE  /\ client[d].cursor <= h
                      /\ \A p \in client[d].got : \/ p[1] \in DOMAIN journal' /\ journal'[p[1]] = p[2]
                                                  \/ Expiry[p[2]] <= now - Retention
    BY <1>7 DEF ClientsWithin
  <2>1. client[d].cursor <= h
    BY <1>4 DEF JournalInv, ClientsWithin
  <2>2. ASSUME NEW p \in client[d].got, p[1] \in DOMAIN journal, journal[p[1]] = p[2]
        PROVE  \/ p[1] \in DOMAIN journal' /\ journal'[p[1]] = p[2]
               \/ Expiry[p[2]] <= now - Retention
    <3>1. CASE p[1] <= to
      BY <3>1, <2>2, <1>6, <1>9
    <3>2. CASE ~ (p[1] <= to)
      <4>1. p[1] \in (to + 1)..h
        BY <3>2, <2>2, <1>4, <1>6, <1>8
      <4> QED  BY <4>1, <2>2, <1>6
    <3> QED  BY <3>1, <3>2
  <2>3. \A p \in client[d].got : \/ p[1] \in DOMAIN journal /\ journal[p[1]] = p[2]
                                 \/ Expiry[p[2]] <= now - Retention
    BY DEF JournalInv, ClientsWithin
  <2> QED  BY <2>1, <2>2, <2>3
<1>12. NoSilentSkip'
  <2> SUFFICES ASSUME NEW d \in Devices, NEW s \in (client[d].floor + 1)..client[d].cursor
               PROVE  \/ s <= head'.compacted \/ <<s, journal'[s]>> \in client[d].got
                      \/ Expiry[journal'[s]] <= now + Skew
    BY DEF NoSilentSkip
  <2>1. \/ s <= c \/ <<s, journal[s]>> \in client[d].got
        \/ Expiry[journal[s]] <= now + Skew
    BY <1>4 DEF JournalInv, NoSilentSkip
  <2>2. client[d].cursor <= h /\ client[d].cursor \in Nat /\ client[d].floor \in Nat
    BY <1>4, RowTypes DEF JournalInv, ClientsWithin
  <2>3. s \in Nat /\ s <= h
    BY <2>2, <1>4
  <2>4. CASE s <= to
    BY <2>4, <1>7
  <2>5. CASE s > to
    <3>1. s \in DOMAIN journal'
      BY <2>3, <2>5, <1>4, <1>6
    <3>2. journal'[s] = journal[s]
      BY <3>1, <1>6
    <3>3. ~ (s <= c)
      BY <2>3, <2>5, <1>4, <1>6
    <3> QED  BY <2>1, <3>2, <3>3
  <2> QED  BY <2>3, <2>4, <2>5, <1>6
<1>13. NoRedelivery'
  BY DEF JournalInv, NoRedelivery
<1>14. DOMAIN journal' \subseteq 1..MaxSequence /\ \A s \in DOMAIN journal' : journal'[s] \in Envelopes
  BY <1>6, <1>8
<1>15. head'.compacted <= head'.next
  BY <1>6, <1>7
<1> QED  BY <1>7, <1>10, <1>11, <1>12, <1>13, <1>14, <1>15 DEF JournalInv

-----------------------------------------------------------------------------
(* Devices on the journal *)

\* A device that is authorized has a first sequence.
LEMMA Authorized ==
    ASSUME TypeOK, NEW d \in Devices, NEW t, DeviceReads(d, t)
    PROVE  Earliest(d, t) \in Nat
<1>1. Authorizations(d, t) \subseteq Nat
  <2>1. \A x \in Devices : grant[x].earliest \in Nat
    BY RowTypes
  <2>2. \A o \in Offers : env[o].earliest \in Nat
    BY RowTypes DEF Envelopes
  <2> QED  BY <2>1, <2>2 DEF Authorizations
<1>2. PICK S : S = Authorizations(d, t)
  OBVIOUS
<1>3. S # {} /\ S \subseteq Nat
  BY <1>1, <1>2 DEF DeviceReads
<1>4. \E x \in S : \A y \in S : x <= y
  BY <1>3, SmallestExists
<1>5. Earliest(d, t) = CHOOSE x \in S : \A y \in S : x <= y
  BY <1>2 DEF Earliest
<1>6. Earliest(d, t) \in S
  BY <1>4, <1>5, Zenon
<1> QED  BY <1>3, <1>6

\* A cursor moves up to its new lower bound.
LEMMA LargerBounds ==
    ASSUME NEW a \in Nat, NEW b \in Int
    PROVE  Larger(a, b) \in Nat /\ Larger(a, b) >= a /\ Larger(a, b) >= b
           /\ (Larger(a, b) = a \/ Larger(a, b) = b)
BY DEF Larger

\* The page of a device leaves out nothing between where it starts and the cursor the
\* pull returns, except the compacted prefix.
LEMMA IdentityPage ==
    ASSUME TypeOK, JournalInv, NEW d \in Devices, NEW t, NEW n \in 1..PullLimit,
           DeviceReads(d, t), Readable(d, t, n),
           NEW page, page = JournalPage(d, t, n),
           NEW through, through = LastOf(page, RowLowerBound(d, t))
    PROVE  /\ page \subseteq Joined
           /\ through \in Nat /\ through <= head.next
           /\ \A s \in Nat : s <= through => \/ s <= head.compacted \/ s <= client[d].cursor
                                             \/ s <= Earliest(d, t) - 1 \/ s \in page
<1>1. PICK h \in Nat, c \in Nat : h = head.next /\ c = head.compacted /\ c <= h
  BY RowTypes
<1>2. PICK first \in Nat : first = Earliest(d, t)
  BY Authorized
<1>3. PICK cur \in Nat : cur = client[d].cursor
  BY RowTypes
<1>4. PICK low \in Nat : low = LowerBound(d, t) /\ low >= cur /\ low >= first - 1
                         /\ (low = cur \/ low = first - 1)
  <2>1. first - 1 \in Int
    OBVIOUS
  <2> QED  BY <1>2, <1>3, <2>1, LargerBounds DEF LowerBound
<1>5. PICK row \in Nat : row = RowLowerBound(d, t) /\ row >= low /\ row >= c /\ (row = low \/ row = c)
  <2>1. RowLowerBound(d, t) = Larger(low, c)
    BY <1>1, <1>4 DEF RowLowerBound
  <2>2. c \in Int
    OBVIOUS
  <2> QED  BY <2>1, <2>2, LargerBounds
<1>6. low <= h
  BY <1>1, <1>4 DEF Readable
<1>7. PICK k \in Int : k = n - (IF low < c THEN 1 ELSE 0)
  OBVIOUS
<1> DEFINE Q == {s \in Joined : s > row /\ s <= h}
<1>8. page = FirstOf(k, Q)
  BY <1>1, <1>4, <1>5, <1>7 DEF JournalPage
<1>9. Joined = (c + 1)..h
  BY <1>1, JournalJoined DEF JournalInv
<1>10. Q \subseteq 0..h /\ Q \subseteq Joined
  BY <1>9, <1>1
<1>11. \A s \in Nat : s > row /\ s <= h => s \in Q
  BY <1>1, <1>5, <1>9
<1> HIDE DEF Q
<1>12. page \subseteq Q /\ \A x \in page : \A y \in Q : y <= x => y \in page
  BY <1>8, <1>10, FirstOfClosed
<1>13. page \subseteq 0..h
  BY <1>10, <1>12
<1>14. IF page = {} THEN through = row ELSE through \in page /\ \A y \in page : y <= through
  BY <1>5, <1>13, LastOfPage
<1>15. through \in Nat /\ through <= h
  BY <1>1, <1>5, <1>6, <1>13, <1>14
<1>16. ASSUME NEW s \in Nat, s <= through
       PROVE  s <= c \/ s <= cur \/ s <= first - 1 \/ s \in page
  <2>1. CASE s <= row
    BY <2>1, <1>1, <1>2, <1>3, <1>4, <1>5
  <2>2. CASE s > row
    <3>1. page # {}
      BY <2>2, <1>14, <1>16, <1>5
    <3>2. through \in page
      BY <3>1, <1>14
    <3>3. s \in Q
      BY <2>2, <1>11, <1>15, <1>16, <1>1
    <3> QED  BY <3>2, <3>3, <1>12, <1>16
  <2> QED  BY <2>1, <2>2, <1>5
<1> QED  BY <1>1, <1>2, <1>3, <1>10, <1>12, <1>15, <1>16

\* What a pull adds to a device: rows of the journal that are still live on the
\* clock of the node, each under its sequence.
Fetched(page, t) ==
    {<<s, journal[s]>> : s \in {x \in page : Expiry[journal[x]] > t /\ Retains(journal[x])}}

\* What a device may be left with after a pull.
Delivered(through, floor, got) ==
    /\ through \in Nat /\ through <= head.next /\ floor \in Nat
    /\ got \subseteq (1..MaxSequence) \X Envelopes
    /\ \A p \in got : \/ p[1] \in DOMAIN journal /\ journal[p[1]] = p[2]
                      \/ Expiry[p[2]] <= now - Retention
    /\ \A s \in (floor + 1)..through : \/ s <= head.compacted \/ <<s, journal[s]>> \in got
                                       \/ Expiry[journal[s]] <= now + Skew
    /\ \A p, q \in got : p[2] = q[2] => p[1] = q[1]

\* A pull of a device, with a reply that arrives.
LEMMA PullDelivers ==
    ASSUME TypeOK, RowsWithin, JournalInv, NEW d \in Devices, NEW t \in NodeTimes,
           NEW n \in 1..PullLimit, DeviceReads(d, t), Readable(d, t, n),
           NEW page, page = JournalPage(d, t, n),
           NEW through, through = LastOf(page, RowLowerBound(d, t)),
           NEW floor, floor = Larger(client[d].floor, Earliest(d, t) - 1),
           NEW got, got = client[d].got \cup Fetched(page, t)
    PROVE  Delivered(through, floor, got)
<1>1. /\ page \subseteq Joined /\ through \in Nat /\ through <= head.next
      /\ \A s \in Nat : s <= through => \/ s <= head.compacted \/ s <= client[d].cursor
                                        \/ s <= Earliest(d, t) - 1 \/ s \in page
  BY IdentityPage
<1>2. /\ \A s \in Joined : /\ s \in DOMAIN journal /\ journal[s] \in Envelopes /\ s \in 1..MaxSequence
      /\ Joined = DOMAIN journal
  BY JournalJoined DEF JournalInv
<1>3. PICK f \in Nat : f = client[d].floor
  BY RowTypes
<1>4. PICK first \in Nat : first = Earliest(d, t)
  BY Authorized
<1>5. floor \in Nat /\ floor >= f /\ floor >= first - 1
  <2>1. first - 1 \in Int
    OBVIOUS
  <2> QED  BY <2>1, <1>3, <1>4, LargerBounds
<1>6. t \in Nat /\ now \in Nat /\ t <= now + Skew /\ now - Skew <= t
      /\ Skew \in Nat /\ Retention \in Nat /\ Skew <= Retention
  BY NodeTime, ConstantTypes, ClocksWithinHorizon
<1>7. ASSUME NEW p \in Fetched(page, t)
      PROVE  \E s \in page : /\ p = <<s, journal[s]>> /\ s \in DOMAIN journal
                             /\ s \in 1..MaxSequence /\ journal[s] \in Envelopes
                             /\ Expiry[journal[s]] > t
  BY <1>1, <1>2 DEF Fetched
<1>8. client[d].got \subseteq (1..MaxSequence) \X Envelopes
  BY RowTypes
<1>9. got \subseteq (1..MaxSequence) \X Envelopes
  BY <1>7, <1>8
<1>10. \A p \in client[d].got : \/ p[1] \in DOMAIN journal /\ journal[p[1]] = p[2]
                                \/ Expiry[p[2]] <= now - Retention
  BY DEF JournalInv, ClientsWithin
<1>11. \A p \in Fetched(page, t) : p[1] \in DOMAIN journal /\ journal[p[1]] = p[2] /\ Expiry[p[2]] > t
                                   /\ p[2] \in Envelopes
  BY <1>7
<1>12. \A r, s \in DOMAIN journal : journal[r] = journal[s] => r = s
  BY DEF JournalInv, JournalRows
<1>13. ASSUME NEW p \in got, NEW q \in got, p[2] = q[2] PROVE p[1] = q[1]
  <2>1. ASSUME NEW x \in Fetched(page, t), NEW y \in got, x[2] = y[2] PROVE x[1] = y[1]
    <3>1. (y[1] \in DOMAIN journal /\ journal[y[1]] = y[2]) \/ Expiry[y[2]] <= now - Retention
      BY <1>10, <1>11
    <3>2. Expiry[x[2]] > t /\ Expiry[x[2]] \in Nat
      BY <1>11, ConstantTypes
    <3>3. ~ (Expiry[y[2]] <= now - Retention)
      <4>1. PICK v \in Nat : v = Expiry[y[2]] /\ v > t
        BY <2>1, <3>2
      <4> HIDE <2>1
      <4> QED  BY <4>1, <1>6
    <3> QED  BY <2>1, <3>1, <3>3, <1>11, <1>12
  <2>2. CASE p \in client[d].got /\ q \in client[d].got
    BY <2>2, <1>13 DEF JournalInv, NoRedelivery
  <2>3. CASE p \in Fetched(page, t)
    BY <2>1, <2>3, <1>13
  <2>4. CASE q \in Fetched(page, t)
    BY <2>1, <2>4, <1>13
  <2> QED  BY <2>2, <2>3, <2>4
<1>14. ASSUME NEW s \in (floor + 1)..through
       PROVE  \/ s <= head.compacted \/ <<s, journal[s]>> \in got
              \/ Expiry[journal[s]] <= now + Skew
  <2>1. s \in Nat /\ s <= through /\ s > floor
    BY <1>1, <1>5
  <2>2. \/ s <= head.compacted \/ s <= client[d].cursor \/ s <= first - 1 \/ s \in page
    BY <2>1, <1>1, <1>4
  <2>3. CASE s <= client[d].cursor
    <3>1. client[d].cursor \in Nat
      BY RowTypes
    <3>2. s \in (client[d].floor + 1)..client[d].cursor
      BY <2>1, <2>3, <3>1, <1>3, <1>5
    <3> QED  BY <3>2 DEF JournalInv, NoSilentSkip
  <2>4. CASE s <= first - 1
    BY <2>1, <2>4, <1>5
  <2>5. CASE s \in page
    <3>1. s \in DOMAIN journal /\ journal[s] \in Envelopes /\ env[journal[s]].state # "none"
      BY <2>5, <1>1, <1>2 DEF JournalInv, JournalRows
    <3>2. PICK v \in Nat : v = Expiry[journal[s]]
      BY <3>1, ConstantTypes
    <3>3. CASE v <= t
      BY <3>2, <3>3, <1>6
    <3>4. CASE v > t /\ Retains(journal[s])
      BY <2>5, <3>2, <3>4 DEF Fetched
    <3>5. CASE ~Retains(journal[s])
      <4>1. env[journal[s]].state = "expired"
        <5>1. env[journal[s]].state \in {"none", "available", "acked", "expired"}
          BY <3>1 DEF TypeOK
        <5> QED  BY <5>1, <3>1, <3>5 DEF Retains
      <4> QED  BY <4>1, <3>1 DEF RowsWithin
    <3> QED  BY <3>3, <3>4, <3>5, <1>6
  <2> QED  BY <2>2, <2>3, <2>4, <2>5
<1> QED  BY <1>1, <1>5, <1>9, <1>10, <1>11, <1>13, <1>14 DEF Delivered

\* A pull of a device keeps what is known of the journal and of every device.
LEMMA PullIdentityStep ==
    ASSUME TypeOK, RowsWithin, JournalInv, NEW d \in Devices, NEW t \in NodeTimes,
           NEW n \in 1..PullLimit, NEW lost \in BOOLEAN, PullIdentity(d, t, n, lost)
    PROVE  /\ JournalInv'
           /\ client' \in [Devices -> [cursor: Nat, floor: Nat,
                                       got: SUBSET ((1..MaxSequence) \X Envelopes)]]
<1> DEFINE Row == [cursor: Nat, floor: Nat, got: SUBSET ((1..MaxSequence) \X Envelopes)]
<1>1. client \in [Devices -> Row] /\ now' = now /\ env' = env /\ head' = head /\ journal' = journal
  BY DEF TypeOK, PullIdentity, rows
<1>2. CASE lost
  <2>1. client' = client
    BY <1>2 DEF PullIdentity
  <2>2. TimeGrows
    BY <1>1, RowTypes DEF TimeGrows
  <2>3. JournalInv'
    BY <2>1, <2>2, <1>1, JournalQuiet
  <2> QED  BY <2>1, <2>3, <1>1
<1>3. CASE ~lost
  <2>1. DeviceReads(d, t) /\ Readable(d, t, n)
    BY DEF PullIdentity
  <2>2. PICK page : page = JournalPage(d, t, n)
    OBVIOUS
  <2>3. PICK through : through = LastOf(page, RowLowerBound(d, t))
    OBVIOUS
  <2>4. PICK floor : floor = Larger(client[d].floor, Earliest(d, t) - 1)
    OBVIOUS
  <2>5. PICK got : got = client[d].got \cup Fetched(page, t)
    OBVIOUS
  <2>6. client' = [client EXCEPT ![d] = [cursor |-> through, floor |-> floor, got |-> got]]
    BY <1>3, <2>2, <2>3, <2>4, <2>5 DEF PullIdentity, Fetched
  <2>0. Delivered(through, floor, got)
    BY <2>1, <2>2, <2>3, <2>4, <2>5, PullDelivers
  <2>7. /\ through \in Nat /\ through <= head.next /\ floor \in Nat
        /\ got \subseteq (1..MaxSequence) \X Envelopes
        /\ \A p \in got : \/ p[1] \in DOMAIN journal /\ journal[p[1]] = p[2]
                          \/ Expiry[p[2]] <= now - Retention
        /\ \A s \in (floor + 1)..through : \/ s <= head.compacted \/ <<s, journal[s]>> \in got
                                           \/ Expiry[journal[s]] <= now + Skew
        /\ \A p, q \in got : p[2] = q[2] => p[1] = q[1]
    BY <2>0 DEF Delivered
  <2>8. /\ client' \in [Devices -> Row]
        /\ client'[d].cursor = through /\ client'[d].floor = floor /\ client'[d].got = got
        /\ \A k \in Devices : k # d => client'[k] = client[k]
    BY <1>1, <2>6, <2>7
  <2> HIDE DEF Row
  <2>9. JournalRows'
    BY <1>1 DEF JournalInv, JournalRows
  <2>10. ClientsWithin'
    <3> SUFFICES ASSUME NEW k \in Devices
                 PROVE  /\ client'[k].cursor <= head.next
                        /\ \A p \in client'[k].got : \/ p[1] \in DOMAIN journal /\ journal[p[1]] = p[2]
                                                     \/ Expiry[p[2]] <= now - Retention
      BY <1>1 DEF ClientsWithin
    <3>1. CASE k = d
      BY <3>1, <2>7, <2>8
    <3>2. CASE k # d
      BY <3>2, <2>8 DEF JournalInv, ClientsWithin
    <3> QED  BY <3>1, <3>2
  <2>11. NoSilentSkip'
    <3> SUFFICES ASSUME NEW k \in Devices, NEW a, NEW b, a = client'[k].floor, b = client'[k].cursor,
                        NEW s \in (a + 1)..b
                 PROVE  \/ s <= head.compacted \/ <<s, journal[s]>> \in client'[k].got
                        \/ Expiry[journal[s]] <= now + Skew
      BY <1>1 DEF NoSilentSkip
    <3>1. CASE k = d
      BY <3>1, <2>7, <2>8
    <3>2. CASE k # d
      BY <3>2, <2>8 DEF JournalInv, NoSilentSkip
    <3> QED  BY <3>1, <3>2
  <2>12. NoRedelivery'
    <3> SUFFICES ASSUME NEW k \in Devices
                 PROVE  \A p, q \in client'[k].got : p[2] = q[2] => p[1] = q[1]
      BY DEF NoRedelivery
    <3>1. CASE k = d
      BY <3>1, <2>7, <2>8
    <3>2. CASE k # d
      BY <3>2, <2>8 DEF JournalInv, NoRedelivery
    <3> QED  BY <3>1, <3>2
  <2> QED  BY <2>8, <2>9, <2>10, <2>11, <2>12 DEF JournalInv, Row
<1> QED  BY <1>2, <1>3

\* The last of k sequences after a in a journal that ends with h.
PageEnd(a, k, h) == IF a + k <= h THEN a + k ELSE h

\* A page of a device is the interval that starts where the pull does, as far as the
\* budget and the journal go.
LEMMA FirstOfInterval ==
    ASSUME NEW a \in Nat, NEW h \in Nat, NEW k \in Nat, a <= h,
           NEW Q, Q = (a + 1)..h, NEW last, last = PageEnd(a, k, h)
    PROVE  FirstOf(k, Q) = (a + 1)..last /\ Cardinality(FirstOf(k, Q)) = last - a
<1>0. last \in Nat /\ last >= a /\ last <= h /\ \A x \in Nat : x <= last <=> x <= h /\ x <= a + k
  BY DEF PageEnd
<1>1. ASSUME NEW x \in Q PROVE Cardinality({y \in Q : y < x}) = x - 1 - a
  <2>1. {y \in Q : y < x} = (a + 1)..(x - 1)
    OBVIOUS
  <2>2. a + 1 \in Int /\ x - 1 \in Int /\ x \in Nat /\ x >= a + 1
    OBVIOUS
  <2>3. Cardinality((a + 1)..(x - 1)) = IF a + 1 > x - 1 THEN 0 ELSE (x - 1) - (a + 1) + 1
    BY <2>2, FS_Interval
  <2>4. Cardinality((a + 1)..(x - 1)) = x - 1 - a
    BY <2>2, <2>3
  <2> QED  BY <2>1, <2>4, Zenon
<1>2. FirstOf(k, Q) = {x \in Q : x - 1 - a < k}
  BY <1>1 DEF FirstOf
<1>3. FirstOf(k, Q) = (a + 1)..last
  <2>1. \A x \in Q : x \in Nat /\ a + 1 <= x /\ x <= h
    OBVIOUS
  <2>2. ASSUME NEW x \in Q, x - 1 - a < k PROVE x \in (a + 1)..last
    BY <2>1, <2>2, <1>0
  <2>3. ASSUME NEW x \in (a + 1)..last PROVE x \in Q /\ x - 1 - a < k
    BY <2>3, <1>0
  <2> QED  BY <1>2, <2>2, <2>3
<1>4. Cardinality((a + 1)..last) = last - a
  <2>1. a + 1 \in Int /\ last \in Int /\ last >= a
    BY <1>0
  <2>2. Cardinality((a + 1)..last) = IF a + 1 > last THEN 0 ELSE last - (a + 1) + 1
    BY <2>1, FS_Interval
  <2> QED  BY <2>1, <2>2
<1> QED  BY <1>3, <1>4

\* Where the journal is contiguous every page is, so the checks of pull_identity_v3 that
\* stand for corrupt tables never fail.
LEMMA ReadableStep ==
    ASSUME TypeOK, JournalInv, NEW d \in Devices, NEW t \in NodeTimes, NEW n \in 1..PullLimit,
           DeviceReads(d, t), LowerBound(d, t) <= head.next
    PROVE  Readable(d, t, n)
<1>1. PICK h \in Nat, c \in Nat : h = head.next /\ c = head.compacted /\ c <= h
  BY RowTypes
<1>2. PICK low \in Nat : low = LowerBound(d, t) /\ low <= h
  <2>1. Earliest(d, t) - 1 \in Int /\ client[d].cursor \in Nat
    BY Authorized, RowTypes
  <2> QED  BY <2>1, <1>1, LargerBounds DEF LowerBound
<1>3. PICK row \in Nat : row = RowLowerBound(d, t) /\ row <= h /\ row >= c
  <2>1. RowLowerBound(d, t) = Larger(low, c) /\ c \in Int
    BY <1>1, <1>2 DEF RowLowerBound
  <2>2. PICK r \in Nat : r = Larger(low, c) /\ r >= c /\ (r = low \/ r = c)
    BY <2>1, LargerBounds
  <2>3. r <= h /\ r = RowLowerBound(d, t)
    BY <2>1, <2>2, <1>1, <1>2
  <2> QED  BY <2>2, <2>3
<1>4. PICK k \in Nat : k = n - (IF low < c THEN 1 ELSE 0)
  BY ConstantTypes
<1>5. PICK last \in Nat : last = PageEnd(row, k, h) /\ last >= row
  BY <1>3 DEF PageEnd
<1>6. PICK Q : Q = {s \in Joined : s > row /\ s <= h}
  OBVIOUS
<1>7. Q = (row + 1)..h
  <2>1. Joined = (c + 1)..h
    BY <1>1, JournalJoined DEF JournalInv
  <2> QED  BY <2>1, <1>1, <1>3, <1>6
<1>8. PICK page : page = FirstOf(k, Q)
  OBVIOUS
<1>9. JournalPage(d, t, n) = page
  BY <1>1, <1>2, <1>3, <1>4, <1>6, <1>8 DEF JournalPage
<1>10. page = (row + 1)..last /\ Cardinality(page) = last - row
  BY <1>3, <1>5, <1>7, <1>8, FirstOfInterval
<1>11. Contiguous(row, page)
  <2>1. page = {s \in 1..h : s > row /\ s <= row + (last - row)}
    <3>1. last <= h /\ row + (last - row) = last
      BY <1>3, <1>5 DEF PageEnd
    <3> QED  BY SMTT(40), <3>1, <1>3, <1>5, <1>10
  <2> QED  BY <2>1, <1>1, <1>10 DEF Contiguous
<1>12. page = {} => row >= h \/ low < c
  <2> SUFFICES ASSUME page = {}, row < h PROVE low < c
    BY <1>3
  <2>1. row + 1 \notin (row + 1)..last
    BY <1>10
  <2>2. last < row + 1
    BY <2>1, <1>3, <1>5
  <2>3. k = 0
    BY <2>2, <1>3, <1>5 DEF PageEnd
  <2> QED  BY <2>3, <1>4
<1> QED  BY <1>1, <1>2, <1>3, <1>9, <1>11, <1>12 DEF Readable

-----------------------------------------------------------------------------
(* Every step keeps the invariant *)

\* The identity starts without mailboxes, envelopes and sequences.
LEMMA MailboxInit == Init => MailboxInv
<1> SUFFICES ASSUME Init PROVE MailboxInv
  OBVIOUS
<1>1. TypeOK
  BY ConstantTypes DEF Init, TypeOK, NoEnvelope, NoIntent, NoGrant
<1>2. \A m \in Mailboxes : Available(env, m) = {} /\ Retained(env, m) = {}
  BY DEF Init, NoEnvelope, Available, Retained, In
<1>3. \A m \in Mailboxes : box[m].active = 0
  BY DEF Init
<1>4. ActiveExact /\ RetainedBounded
  <2>1. \A m \in Mailboxes : /\ box[m].active = Cardinality(Available(env, m))
                             /\ Cardinality(Retained(env, m)) <= Quota
    <3>1. Cardinality({}) = 0 /\ Quota \in Nat
      BY FS_EmptySet, ConstantTypes
    <3> TAKE m \in Mailboxes
    <3>2. Cardinality(Available(env, m)) = 0 /\ Cardinality(Retained(env, m)) = 0 /\ box[m].active = 0
      BY <1>2, <1>3, <3>1, Zenon
    <3> QED  BY <3>1, <3>2
  <2> QED  BY <2>1 DEF ActiveExact, RetainedBounded, Available, Retained
<1>5. RowsWithin /\ ReaderNeverSkips
  BY DEF Init, NoEnvelope, RowsWithin, ReaderNeverSkips, In
<1>6. DOMAIN journal = {} /\ head.next = 0 /\ head.compacted = 0
  BY DEF Init
<1>7. JournalRows
  BY <1>6 DEF JournalRows
<1>8. \A d \in Devices : client[d].cursor = 0 /\ client[d].floor = 0 /\ client[d].got = {}
  BY DEF Init
<1>9. ClientsWithin /\ NoSilentSkip /\ NoRedelivery
  BY <1>6, <1>8 DEF ClientsWithin, NoSilentSkip, NoRedelivery
<1> QED  BY <1>1, <1>4, <1>5, <1>7, <1>9 DEF MailboxInv

\* A step that touches neither the mailboxes nor the envelopes nor the journal nor the
\* readers keeps everything but the types of what it does touch.
LEMMA QuietStep ==
    ASSUME MailboxInv, UNCHANGED <<box, env, head, journal, client, reader>>, TimeGrows, TypeOK'
    PROVE  MailboxInv'
<1>1. TypeOK /\ RowsWithin /\ ReaderNeverSkips /\ JournalInv
  BY DEF MailboxInv, JournalInv
<1>2. BoxesGrow
  BY <1>1, RowTypes DEF BoxesGrow
<1>3. \A e \in Envelopes : RowKept(e)
  BY DEF RowKept
<1>4. RowsWithin' /\ ReaderNeverSkips'
  BY <1>1, <1>2, <1>3, ReadersStep
<1>5. JournalInv'
  BY <1>1, JournalQuiet
<1>6. ActiveExact' /\ RetainedBounded'
  BY DEF MailboxInv, ActiveExact, RetainedBounded
<1> QED  BY <1>4, <1>5, <1>6 DEF MailboxInv, JournalInv

\* A step that does not change the clock does not turn it back.
LEMMA SameTime == ASSUME TypeOK, now' = now PROVE TimeGrows
BY RowTypes DEF TimeGrows

\* Time passes.
LEMMA ClockStep == MailboxInv /\ Clock => MailboxInv'
<1> SUFFICES ASSUME MailboxInv, Clock PROVE MailboxInv'
  OBVIOUS
<1>1. TypeOK
  BY DEF MailboxInv
<1>2. now \in Nat /\ now' = now + 1 /\ now' <= MaxTime
  BY <1>1, RowTypes, ConstantTypes DEF Clock
<1>3. UNCHANGED <<box, env, push, head, journal, delivery, grant, identity, client, reader>>
  BY DEF Clock, rows
<1>4. TypeOK'
  <2>1. now' \in 0..MaxTime
    BY <1>2, ConstantTypes
  <2> QED  BY <1>1, <1>3, <2>1 DEF TypeOK
<1>5. TimeGrows
  BY <1>2 DEF TimeGrows
<1> QED  BY <1>3, <1>4, <1>5, QuietStep

\* The push broker and the identity's own records.
LEMMA RecordsStep ==
    ASSUME MailboxInv,
           \/ \E e \in Envelopes : FinishPush(e) \/ PrunePush(e)
           \/ \E d \in Devices, by \in Devices, earliest \in 1..MaxEarliest : GrantHistory(d, by, earliest)
           \/ \E revoked \in SUBSET Devices : AppendLog(revoked)
    PROVE  MailboxInv'
<1>1. TypeOK
  BY DEF MailboxInv
<1>2. UNCHANGED <<now, box, env, head, journal, delivery, client, reader>>
  BY DEF FinishPush, PrunePush, GrantHistory, AppendLog, rows
<1>3. TypeOK'
  <2>1. ASSUME NEW e \in Envelopes, FinishPush(e) \/ PrunePush(e) PROVE TypeOK'
    <3>1. push' \in [Envelopes -> [state: {"none", "open", "closed"}, at: 0..MaxTime]]
      <4> DEFINE Row == [state: {"none", "open", "closed"}, at: 0..MaxTime]
      <4>1. push \in [Envelopes -> Row] /\ now \in 0..MaxTime /\ MaxTime \in Nat
        BY <1>1, ConstantTypes DEF TypeOK
      <4>2. [state |-> "closed", at |-> now] \in Row /\ NoIntent \in Row
        BY <4>1 DEF NoIntent
      <4>3. PICK w \in Row : push' = [push EXCEPT ![e] = w]
        BY <2>1, <4>2 DEF FinishPush, PrunePush
      <4> QED  BY <4>1, <4>3
    <3>2. UNCHANGED <<grant, identity>>
      BY <2>1 DEF FinishPush, PrunePush
    <3> QED  BY <3>1, <3>2, <1>1, <1>2 DEF TypeOK
  <2>2. ASSUME NEW d \in Devices, NEW by \in Devices, NEW earliest \in 1..MaxEarliest,
               GrantHistory(d, by, earliest)
        PROVE  TypeOK'
    <3>1. grant' \in [Devices -> [earliest: 0..MaxEarliest, by: Devices]]
      <4>1. [earliest |-> earliest, by |-> by] \in [earliest: 0..MaxEarliest, by: Devices]
        BY ConstantTypes
      <4> QED  BY <4>1, <1>1, <2>2 DEF TypeOK, GrantHistory
    <3>2. UNCHANGED <<push, identity>>
      BY <2>2 DEF GrantHistory, rows
    <3> QED  BY <3>1, <3>2, <1>1, <1>2 DEF TypeOK
  <2>3. ASSUME NEW revoked \in SUBSET Devices, AppendLog(revoked) PROVE TypeOK'
    <3>1. identity' \in [version: 1..MaxVersion, active: SUBSET Devices]
      BY <1>1, <2>3, ConstantTypes DEF TypeOK, AppendLog
    <3>2. UNCHANGED <<push, grant>>
      BY <2>3 DEF AppendLog, rows
    <3> QED  BY <3>1, <3>2, <1>1, <1>2 DEF TypeOK
  <2> QED  BY <2>1, <2>2, <2>3
<1> QED  BY <1>1, <1>2, <1>3, QuietStep, SameTime

\* A mailbox is registered.
LEMMA RegisterStep ==
    ASSUME MailboxInv, NEW m \in Mailboxes, NEW t \in NodeTimes, Register(m, t)
    PROVE  MailboxInv'
<1>1. TypeOK /\ RowsWithin /\ ReaderNeverSkips /\ JournalInv
  BY DEF MailboxInv, JournalInv
<1>2. UNCHANGED <<now, env, push, head, journal, delivery, grant, identity, client, reader>>
  BY DEF Register
<1>3. PICK x \in Nat : x = t + BoxTtl
  BY <1>1, NodeTime, ConstantTypes
<1>4. box' = [box EXCEPT ![m].expires = x]
  BY <1>3 DEF Register
<1>5. /\ box' \in [Mailboxes -> [expires: Nat, next: Nat, active: 0..Quota]]
      /\ \A k \in Mailboxes : box'[k].next = box[k].next /\ box'[k].active = box[k].active
  BY <1>1, <1>4 DEF TypeOK
<1>6. TypeOK'
  BY <1>1, <1>2, <1>5 DEF TypeOK
<1>7. TimeGrows
  BY <1>1, <1>2, SameTime
<1>8. BoxesGrow
  BY <1>1, <1>5, RowTypes DEF BoxesGrow
<1>9. \A e \in Envelopes : RowKept(e)
  BY <1>2 DEF RowKept
<1>10. RowsWithin' /\ ReaderNeverSkips'
  BY <1>1, <1>2, <1>7, <1>8, <1>9, ReadersStep
<1>11. JournalInv'
  BY <1>1, <1>2, <1>7, JournalQuiet
<1>12. ActiveExact' /\ RetainedBounded'
  BY ZenonT(40), <1>2, <1>5 DEF MailboxInv, ActiveExact, RetainedBounded, In
<1> QED  BY <1>6, <1>10, <1>11, <1>12 DEF MailboxInv, JournalInv

\* What the tombstones of an expiry are to the invariants.
LEMMA ExpiryKept ==
    ASSUME TypeOK, NEW m \in Mailboxes, NEW t \in NodeTimes, NEW e \in Expiring(m, t)
    PROVE  e \in Envelopes /\ env[e].state = "available" /\ Expiry[e] <= now + Skew
<1>1. e \in Envelopes /\ env[e].state = "available" /\ Expiry[e] <= t
  BY DEF Expiring, In
<1>2. Expiry[e] \in Nat /\ t \in Nat /\ now \in Nat /\ t <= now + Skew /\ Skew \in Nat
  BY <1>1, NodeTime, ConstantTypes
<1> QED  BY <1>1, <1>2

\* The owner pulls its mailbox.
LEMMA PullMailboxStep ==
    ASSUME MailboxInv, NEW m \in Mailboxes, NEW t \in NodeTimes, NEW n \in 1..PullLimit,
           NEW lost \in BOOLEAN, PullMailbox(m, t, n, lost)
    PROVE  MailboxInv'
<1>1. TypeOK /\ RowsWithin /\ ReaderNeverSkips /\ JournalInv /\ ActiveExact /\ RetainedBounded
  BY DEF MailboxInv, JournalInv
<1>2. /\ UNCHANGED <<now, push, head, journal, delivery, grant, identity, client>>
      /\ box' = [box EXCEPT ![m].active = @ - Cardinality(Expiring(m, t))]
      /\ env' = Tombstoned(Expiring(m, t))
  BY DEF PullMailbox
<1>3. Counted(box', env')
  BY <1>1, <1>2, PullCounted
<1>4. /\ box' \in [Mailboxes -> [expires: Nat, next: Nat, active: 0..Quota]]
      /\ ActiveExact' /\ RetainedBounded'
  BY <1>3, CountedStep
<1>5. \A k \in Mailboxes : box'[k].next = box[k].next
  <2>1. box \in [Mailboxes -> [expires: Nat, next: Nat, active: 0..Quota]]
    BY <1>1 DEF TypeOK
  <2> QED  BY <1>2, <2>1
<1>6. /\ env' \in [Envelopes -> EnvelopeRow]
      /\ \A e \in Envelopes : /\ env'[e].state = IF e \in Expiring(m, t) THEN "expired" ELSE env[e].state
                              /\ env'[e].seq = env[e].seq
  BY <1>1, <1>2, TombstonedRows
<1>7. \A e \in Envelopes : RowKept(e)
  BY <1>1, <1>6, ExpiryKept DEF RowKept
<1>8. TimeGrows /\ BoxesGrow
  BY <1>1, <1>2, <1>5, SameTime, RowTypes DEF BoxesGrow
<1>9. /\ RowsWithin' /\ ReaderNeverSkips'
      /\ reader' \in [Mailboxes -> [cursor: Nat, got: SUBSET Envelopes]]
  BY <1>1, <1>7, <1>8, PullReaders
<1>10. JournalInv'
  BY <1>1, <1>2, <1>6, <1>8, JournalQuiet
<1>11. TypeOK'
  BY <1>1, <1>2, <1>4, <1>6, <1>9 DEF TypeOK, EnvelopeRow
<1> QED  BY <1>4, <1>9, <1>10, <1>11 DEF MailboxInv, JournalInv

\* The owner acknowledges envelopes it got.
LEMMA AckMailboxStep ==
    ASSUME MailboxInv, NEW m \in Mailboxes, NEW t \in NodeTimes,
           NEW A \in SUBSET reader[m].got, AckMailbox(m, t, A)
    PROVE  MailboxInv'
<1>1. TypeOK /\ RowsWithin /\ ReaderNeverSkips /\ JournalInv /\ ActiveExact /\ RetainedBounded
  BY DEF MailboxInv, JournalInv
<1>2. /\ UNCHANGED <<now, push, head, journal, delivery, grant, identity, client, reader>>
      /\ box' = [box EXCEPT ![m].active = @ - Cardinality(Expiring(m, t)) - Cardinality(Settling(m, t, A))]
  BY DEF AckMailbox, Settling
<1>3. Counted(box', env')
  <2>1. A \subseteq In(m)
    BY <1>1 DEF RowsWithin
  <2> QED  BY <1>1, <2>1, AckCounted
<1>4. /\ box' \in [Mailboxes -> [expires: Nat, next: Nat, active: 0..Quota]]
      /\ ActiveExact' /\ RetainedBounded'
  BY <1>3, CountedStep
<1>5. \A k \in Mailboxes : box'[k].next = box[k].next
  <2>1. box \in [Mailboxes -> [expires: Nat, next: Nat, active: 0..Quota]]
    BY <1>1 DEF TypeOK
  <2> QED  BY <1>2, <2>1
<1>6. /\ env' \in [Envelopes -> EnvelopeRow]
      /\ \A e \in Envelopes :
                /\ env'[e].state = IF e \in Settling(m, t, A) THEN "acked"
                                   ELSE IF e \in Expiring(m, t) THEN "expired" ELSE env[e].state
                /\ env'[e].seq = env[e].seq
  BY <1>1, AckRows
<1>7. \A e \in Envelopes : RowKept(e)
  <2>1. \A e \in Settling(m, t, A) : env[e].state = "available"
    BY DEF Settling
  <2> QED  BY <1>1, <1>6, <2>1, ExpiryKept DEF RowKept
<1>8. TimeGrows /\ BoxesGrow
  BY <1>1, <1>2, <1>5, SameTime, RowTypes DEF BoxesGrow
<1>9. RowsWithin' /\ ReaderNeverSkips'
  BY <1>1, <1>2, <1>7, <1>8, ReadersStep
<1>10. JournalInv'
  BY <1>1, <1>2, <1>6, <1>8, JournalQuiet
<1>11. TypeOK'
  BY <1>1, <1>2, <1>4, <1>6 DEF TypeOK, EnvelopeRow
<1> QED  BY <1>4, <1>9, <1>10, <1>11 DEF MailboxInv, JournalInv

\* An envelope arrives: from a sender, or as a history offer.
LEMMA InsertStep ==
    ASSUME MailboxInv, NEW e \in Envelopes, NEW t \in NodeTimes, NEW row \in EnvelopeRow,
           row.state = "available", row.seq = box[MailboxOf[e]].next + 1, Insert(e, t, row),
           UNCHANGED <<now, delivery, grant, identity, client, reader>>
    PROVE  MailboxInv'
<1>1. TypeOK /\ RowsWithin /\ ReaderNeverSkips /\ JournalInv /\ ActiveExact /\ RetainedBounded
  BY DEF MailboxInv, JournalInv
<1>2. /\ Counted(box', env')
      /\ box'[MailboxOf[e]].next = box[MailboxOf[e]].next + 1
      /\ \A k \in Mailboxes : k # MailboxOf[e] => box'[k] = box[k]
  BY <1>1, InsertCounted
<1>3. /\ box' \in [Mailboxes -> [expires: Nat, next: Nat, active: 0..Quota]]
      /\ ActiveExact' /\ RetainedBounded'
  BY <1>2, CountedStep
<1>4. /\ env' \in [Envelopes -> EnvelopeRow] /\ env'[e] = row
      /\ \A x \in Envelopes : x # e =>
                /\ env'[x].state = IF x \in Expiring(MailboxOf[e], t) THEN "expired" ELSE env[x].state
                /\ env'[x].seq = env[x].seq
  BY <1>1, InsertRows
<1>5. MailboxOf[e] \in Mailboxes
  BY ConstantTypes
<1>6. \A x \in Envelopes : RowKept(x) \/ RowNew(x)
  <2> TAKE x \in Envelopes
  <2>1. CASE x = e
    BY <2>1, <1>2, <1>4 DEF RowNew
  <2>2. CASE x # e
    BY <2>2, <1>1, <1>4, <1>5, ExpiryKept DEF RowKept
  <2> QED  BY <2>1, <2>2
<1>7. TimeGrows
  BY <1>1, SameTime
<1>8. BoxesGrow
  <2> SUFFICES ASSUME NEW k \in Mailboxes PROVE box'[k].next \in Nat /\ box'[k].next >= box[k].next
    BY DEF BoxesGrow
  <2>1. box[k].next \in Nat
    BY <1>1, RowTypes
  <2> QED  BY <2>1, <1>2
<1>9. RowsWithin' /\ ReaderNeverSkips'
  BY <1>1, <1>6, <1>7, <1>8, ReadersStep
<1>10. /\ JournalInv'
       /\ DOMAIN journal' \subseteq 1..MaxSequence
       /\ \A s \in DOMAIN journal' : journal'[s] \in Envelopes
       /\ head' \in [next: 0..MaxSequence, compacted: 0..MaxSequence]
       /\ head'.compacted <= head'.next
  BY <1>1, InsertJournal
<1>11. push' \in [Envelopes -> [state: {"none", "open", "closed"}, at: 0..MaxTime]]
  <2> DEFINE Row == [state: {"none", "open", "closed"}, at: 0..MaxTime]
  <2>1. push \in [Envelopes -> Row] /\ MaxTime \in Nat
    BY <1>1, ConstantTypes DEF TypeOK
  <2>2. [state |-> "open", at |-> 0] \in Row
    BY <2>1
  <2>3. push' = push \/ push' = [push EXCEPT ![e] = [state |-> "open", at |-> 0]]
    BY DEF Insert
  <2> QED  BY <2>1, <2>2, <2>3
<1>12. TypeOK'
  BY <1>1, <1>3, <1>4, <1>10, <1>11 DEF TypeOK, EnvelopeRow
<1> QED  BY <1>3, <1>9, <1>10, <1>12 DEF MailboxInv, JournalInv

\* The compactor tombstones and collects.
LEMMA CompactStep == MailboxInv /\ Compact => MailboxInv'
<1> SUFFICES ASSUME MailboxInv, Compact PROVE MailboxInv'
  OBVIOUS
<1>1. TypeOK /\ RowsWithin /\ ReaderNeverSkips /\ JournalInv /\ ActiveExact /\ RetainedBounded /\ JournalRows
  BY DEF MailboxInv, JournalInv
<1>2. UNCHANGED <<now, push, delivery, grant, identity, client, reader>>
  BY DEF Compact
<1>3. Counted(box', env') /\ \A m \in Mailboxes : box'[m].next = box[m].next
  BY <1>1, CompactCounted
<1>4. /\ box' \in [Mailboxes -> [expires: Nat, next: Nat, active: 0..Quota]]
      /\ ActiveExact' /\ RetainedBounded'
  BY <1>3, CountedStep
<1>5. /\ JournalInv'
      /\ DOMAIN journal' \subseteq 1..MaxSequence
      /\ \A s \in DOMAIN journal' : journal'[s] \in Envelopes
      /\ head' \in [next: 0..MaxSequence, compacted: 0..MaxSequence]
      /\ head'.compacted <= head'.next
  BY <1>1, <1>2, CompactJournal
<1>6. PICK to : to = CompactTo(Lapsed)
  OBVIOUS
<1>7. PICK stones : stones = Stones
  OBVIOUS
<1>8. PICK dropped : dropped = Dropped(to, Lapsed)
  OBVIOUS
<1>9. /\ env' \in [Envelopes -> EnvelopeRow]
      /\ \A e \in Envelopes :
                /\ env'[e].state = IF e \in dropped THEN "none"
                                   ELSE IF e \in stones THEN "expired" ELSE env[e].state
                /\ e \notin dropped => env'[e].seq = env[e].seq
      /\ \A e \in stones : Expiry[e] <= now
  BY <1>1, <1>6, <1>7, <1>8, CompactRows
<1>10. \A e \in Envelopes : RowKept(e)
  <2> TAKE e \in Envelopes
  <2>1. e \in stones => Expiry[e] <= now + Skew /\ env[e].state # "none"
    <3> SUFFICES ASSUME e \in stones PROVE Expiry[e] <= now + Skew /\ env[e].state # "none"
      OBVIOUS
    <3>1. Expiry[e] <= now /\ Expiry[e] \in Nat /\ now \in Nat /\ Skew \in Nat
      BY <1>1, <1>9, RowTypes, ConstantTypes
    <3>2. PICK s \in Lapsed : e = journal[s]
      BY <1>7 DEF Stones
    <3>3. env[e].state # "none"
      BY <3>2, <1>1, LapsedRows DEF Joined
    <3> QED  BY <3>1, <3>3
  <2> QED  BY <2>1, <1>9 DEF RowKept
<1>11. TimeGrows
  BY <1>1, <1>2, SameTime
<1>12. BoxesGrow
  BY <1>1, <1>3, RowTypes DEF BoxesGrow
<1>13. RowsWithin' /\ ReaderNeverSkips'
  BY <1>1, <1>2, <1>10, <1>11, <1>12, ReadersStep
<1>14. TypeOK'
  BY <1>1, <1>2, <1>4, <1>5, <1>9 DEF TypeOK, EnvelopeRow
<1> QED  BY <1>4, <1>5, <1>13, <1>14 DEF MailboxInv, JournalInv

\* The cursor of a device is typed and does not go back when it is resumed.
LEMMA ResumedRow ==
    ASSUME TypeOK, NEW d \in Devices, NEW first \in Nat
    PROVE  /\ Resumed(d, first) \in [ack: Nat, earliest: Nat]
           /\ Resumed(d, first).ack >= delivery[d].ack
<1>1. PICK a \in Nat : a = delivery[d].ack
  BY RowTypes
<1>2. first - 1 \in Int
  OBVIOUS
<1>3. PICK l \in Nat : l = Larger(a, first - 1) /\ l >= a
  BY <1>1, <1>2, LargerBounds
<1>4. Resumed(d, first) = [earliest |-> first, ack |-> l]
  BY <1>1, <1>3 DEF Resumed
<1> QED  BY <1>1, <1>3, <1>4

\* What a request of a device does to its acknowledgement.
LEMMA DeliveryWritten ==
    ASSUME TypeOK, NEW d \in Devices, NEW t, NEW n, NEW lost, NEW a \in Nat,
           PullIdentity(d, t, n, lost) \/ AckIdentity(d, t, a)
    PROVE  /\ delivery' \in [Devices -> [ack: Nat, earliest: Nat]]
           /\ \A k \in Devices : delivery'[k].ack >= delivery[k].ack
<1>1. DeviceReads(d, t)
  BY DEF PullIdentity, AckIdentity
<1>2. PICK first \in Nat : first = Earliest(d, t)
  BY <1>1, Authorized
<1>3. PICK r \in [ack: Nat, earliest: Nat] : r = Resumed(d, first) /\ r.ack >= delivery[d].ack
  BY ResumedRow
<1>4. PICK w \in [ack: Nat, earliest: Nat] : /\ delivery' = [delivery EXCEPT ![d] = w]
                                             /\ w.ack >= delivery[d].ack
  <2>1. CASE PullIdentity(d, t, n, lost)
    <3>1. delivery' = [delivery EXCEPT ![d] = r]
      BY <2>1, <1>2, <1>3 DEF PullIdentity
    <3> QED  BY <3>1, <1>3
  <2>2. CASE AckIdentity(d, t, a)
    <3>1. delivery' = [delivery EXCEPT ![d] = [earliest |-> first, ack |-> a]] /\ a >= r.ack
      BY <2>2, <1>2, <1>3 DEF AckIdentity
    <3>2. PICK w : w = [earliest |-> first, ack |-> a]
      OBVIOUS
    <3>3. w \in [ack: Nat, earliest: Nat] /\ w.ack = a
      BY <3>2
    <3>4. delivery[d].ack \in Nat
      BY RowTypes
    <3>5. w.ack >= delivery[d].ack
      BY <3>1, <3>3, <3>4, <1>3
    <3> QED  BY <3>1, <3>2, <3>3, <3>5
  <2> QED  BY <2>1, <2>2
<1>5. delivery \in [Devices -> [ack: Nat, earliest: Nat]]
  BY DEF TypeOK
<1>6. \A k \in Devices : delivery'[k] = IF k = d THEN w ELSE delivery[k]
  BY <1>4, <1>5
<1>7. \A k \in Devices : delivery[k].ack >= delivery[k].ack
  BY RowTypes
<1> QED  BY <1>4, <1>5, <1>6, <1>7

\* A device pulls or acknowledges the journal.
LEMMA DeviceRequestStep ==
    ASSUME MailboxInv, NEW d \in Devices, NEW t \in NodeTimes, DeviceStep(d, t)
    PROVE  MailboxInv'
<1>1. TypeOK /\ RowsWithin /\ ReaderNeverSkips /\ JournalInv /\ ActiveExact /\ RetainedBounded
  BY DEF MailboxInv, JournalInv
<1>2. ASSUME NEW n \in 1..PullLimit, NEW lost \in BOOLEAN, PullIdentity(d, t, n, lost)
      PROVE  MailboxInv'
  <2>1. UNCHANGED <<now, box, env, push, head, journal, grant, identity, reader>>
    BY <1>2 DEF PullIdentity, rows
  <2>2. /\ JournalInv'
        /\ client' \in [Devices -> [cursor: Nat, floor: Nat,
                                    got: SUBSET ((1..MaxSequence) \X Envelopes)]]
    BY <1>1, <1>2, PullIdentityStep
  <2>3. delivery' \in [Devices -> [ack: Nat, earliest: Nat]]
    <3>1. 0 \in Nat
      OBVIOUS
    <3> QED  BY <3>1, <1>1, <1>2, DeliveryWritten
  <2>4. TypeOK'
    BY <1>1, <2>1, <2>2, <2>3 DEF TypeOK
  <2>5. TimeGrows /\ BoxesGrow
    BY <1>1, <2>1, SameTime, RowTypes DEF BoxesGrow
  <2>6. \A e \in Envelopes : RowKept(e)
    BY <2>1 DEF RowKept
  <2>7. RowsWithin' /\ ReaderNeverSkips'
    BY <1>1, <2>1, <2>5, <2>6, ReadersStep
  <2>8. ActiveExact' /\ RetainedBounded'
    BY <1>1, <2>1 DEF ActiveExact, RetainedBounded, In
  <2> QED  BY <2>2, <2>4, <2>7, <2>8 DEF MailboxInv, JournalInv
<1>3. ASSUME NEW a \in 0..client[d].cursor, AckIdentity(d, t, a) PROVE MailboxInv'
  <2>1. UNCHANGED <<now, box, env, push, head, journal, grant, identity, client, reader>>
    BY <1>3 DEF AckIdentity, rows
  <2>2. a \in Nat
    BY <1>1, RowTypes
  <2>3. delivery' \in [Devices -> [ack: Nat, earliest: Nat]]
    BY <1>1, <1>3, <2>2, DeliveryWritten
  <2>4. TypeOK'
    BY <1>1, <2>1, <2>3 DEF TypeOK
  <2> QED  BY <1>1, <2>1, <2>4, QuietStep, SameTime
<1> QED  BY <1>2, <1>3 DEF DeviceStep

\* A sender's envelope and a history offer are new rows of their mailbox.
LEMMA ArrivalStep ==
    ASSUME MailboxInv, NEW t \in NodeTimes,
           \/ \E e \in Sent : EnqueueEnvelope(e, t)
           \/ \E o \in Offers : OfferHistory(o, t)
    PROVE  MailboxInv'
<1>1. TypeOK
  BY DEF MailboxInv
<1>2. Sent \subseteq Envelopes /\ Offers \subseteq Envelopes
  BY DEF Envelopes
<1>3. \A e \in Envelopes : MailboxOf[e] \in Mailboxes
  BY ConstantTypes
<1>4. ASSUME NEW e \in Sent, EnqueueEnvelope(e, t) PROVE MailboxInv'
  <2>1. PICK n \in Nat : n = box[MailboxOf[e]].next + 1
    BY <1>1, <1>2, <1>3, RowTypes
  <2>2. PICK row : row = [NoEnvelope EXCEPT !.state = "available", !.seq = n]
    OBVIOUS
  <2>3. row \in EnvelopeRow /\ row.state = "available" /\ row.seq = n
    <3>1. NoEnvelope \in EnvelopeRow
      BY ConstantTypes DEF NoEnvelope, EnvelopeRow
    <3>2. \A r \in EnvelopeRow : LET w == [r EXCEPT !.state = "available", !.seq = n]
                                IN  w \in EnvelopeRow /\ w.state = "available" /\ w.seq = n
      BY DEF EnvelopeRow
    <3> QED  BY <2>2, <3>1, <3>2
  <2>4. Insert(e, t, row) /\ UNCHANGED <<now, delivery, grant, identity, client, reader>>
    BY <1>4, <2>1, <2>2 DEF EnqueueEnvelope
  <2> QED  BY <1>2, <2>1, <2>3, <2>4, InsertStep
<1>5. ASSUME NEW o \in Offers, OfferHistory(o, t) PROVE MailboxInv'
  <2>1. PICK n \in Nat, h \in Nat : n = box[MailboxOf[o]].next + 1 /\ h = head.next + 1
    BY <1>1, <1>2, <1>3, RowTypes
  <2>2. PICK row : row = [state |-> "available", seq |-> n, earliest |-> h, version |-> identity.version]
    OBVIOUS
  <2>3. row \in EnvelopeRow /\ row.state = "available" /\ row.seq = n
    <3>1. identity.version \in 0..MaxVersion
      BY <1>1, ConstantTypes DEF TypeOK
    <3> QED  BY <2>2, <3>1 DEF EnvelopeRow
  <2>4. Insert(o, t, row) /\ UNCHANGED <<now, delivery, grant, identity, client, reader>>
    BY <1>5, <2>1, <2>2 DEF OfferHistory
  <2> QED  BY <1>2, <2>1, <2>3, <2>4, InsertStep
<1> QED  BY <1>4, <1>5

\* Every step keeps the invariant.
LEMMA MailboxStepInv == MailboxInv /\ [Next]_vars => MailboxInv'
<1> SUFFICES ASSUME MailboxInv, [Next]_vars PROVE MailboxInv'
  OBVIOUS
<1>1. CASE Clock
  BY <1>1, ClockStep
<1>2. CASE Compact
  BY <1>2, CompactStep
<1>3. ASSUME NEW t \in NodeTimes, MailboxStep(t) PROVE MailboxInv'
  BY <1>3, RegisterStep, PullMailboxStep, AckMailboxStep, ArrivalStep DEF MailboxStep
<1>4. ASSUME NEW t \in NodeTimes, NEW d \in Devices, DeviceStep(d, t) PROVE MailboxInv'
  BY <1>4, DeviceRequestStep
<1>5. ASSUME \/ \E e \in Envelopes : FinishPush(e) \/ PrunePush(e)
             \/ \E d \in Devices, by \in Devices, earliest \in 1..MaxEarliest : GrantHistory(d, by, earliest)
             \/ \E revoked \in SUBSET Devices : AppendLog(revoked)
      PROVE  MailboxInv'
  BY <1>5, RecordsStep
<1>6. CASE UNCHANGED vars
  <2>1. TypeOK
    BY DEF MailboxInv
  <2>2. TypeOK'
    BY <1>6, <2>1 DEF TypeOK, vars
  <2>3. now' = now /\ UNCHANGED <<box, env, head, journal, client, reader>>
    BY <1>6 DEF vars
  <2> QED  BY <2>1, <2>2, <2>3, QuietStep, SameTime
<1> QED  BY <1>1, <1>2, <1>3, <1>4, <1>5, <1>6 DEF Next

-----------------------------------------------------------------------------
(* What no step takes away *)

\* Live ciphertext that is not past its expiry is not among what an expiry takes.
LEMMA NotExpiring ==
    ASSUME TypeOK, NEW m \in Mailboxes, NEW t \in NodeTimes, NEW e \in Envelopes,
           Expiry[e] > now + Skew
    PROVE  e \notin Expiring(m, t)
<1>1. Expiry[e] \in Nat /\ now \in Nat /\ Skew \in Nat
  BY RowTypes, ConstantTypes
<1>2. e \in Expiring(m, t) => Expiry[e] <= now + Skew
  BY ExpiryKept
<1> QED  BY <1>1, <1>2

\* No step takes live ciphertext or its place in the journal away.
LEMMA LiveKept == ASSUME MailboxInv, [Next]_vars PROVE KeepsLive
<1> SUFFICES ASSUME NEW s \in Joined, env[journal[s]].state \in {"available", "acked"},
                    Expiry[journal[s]] > now' + Skew
             PROVE  /\ env'[journal[s]].state \in {"available", "acked"}
                    /\ s \in DOMAIN journal' /\ journal'[s] = journal[s]
  BY DEF KeepsLive
<1>1. TypeOK /\ JournalInv /\ JournalRows /\ RowsWithin
  BY DEF MailboxInv, JournalInv
<1>2. PICK e \in Envelopes : e = journal[s]
  BY <1>1, JournalJoined
<1>3. s \in DOMAIN journal /\ env[e].state \in {"available", "acked"} /\ Expiry[e] > now' + Skew
  BY <1>1, <1>2, JournalJoined
<1> DEFINE Keeps == /\ env'[e].state \in {"available", "acked"}
                    /\ s \in DOMAIN journal' /\ journal'[s] = e
<1> SUFFICES Keeps
  BY <1>2
<1>4. Expiry[e] \in Nat /\ now \in Nat /\ Skew \in Nat /\ Retention \in Nat
  BY <1>1, RowTypes, ConstantTypes
<1>5. CASE UNCHANGED <<env, journal>>
  BY <1>2, <1>3, <1>5
<1>6. CASE Compact
  <2>1. PICK to : to = CompactTo(Lapsed)
    OBVIOUS
  <2>2. PICK stones : stones = Stones
    OBVIOUS
  <2>3. PICK dropped : dropped = Dropped(to, Lapsed)
    OBVIOUS
  <2>4. /\ env'[e].state = IF e \in dropped THEN "none"
                           ELSE IF e \in stones THEN "expired" ELSE env[e].state
        /\ e \in stones => Expiry[e] <= now
        /\ e \in dropped => Expiry[e] <= now - Retention
        /\ to \in Nat /\ head.compacted <= to
        /\ DOMAIN journal' = (to + 1)..head.next
        /\ \A r \in DOMAIN journal' : journal'[r] = journal[r]
    BY <1>1, <1>6, <2>1, <2>2, <2>3, CompactRows
  <2>5. now' = now
    BY <1>6 DEF Compact
  <2>6. e \notin stones /\ e \notin dropped
    BY <2>4, <2>5, <1>3, <1>4
  <2>7. s \in Nat /\ head.compacted < s /\ s <= head.next /\ head.next \in Nat
    BY <1>1, JournalJoined, RowTypes
  <2>8. ~ (s <= to)
    BY <2>3, <2>6, <2>7, <1>2, <1>3 DEF Dropped
  <2>9. s \in DOMAIN journal'
    BY <2>4, <2>7, <2>8
  <2> QED  BY <2>4, <2>6, <2>9, <1>2, <1>3
<1>7. ASSUME NEW t \in NodeTimes, NEW x \in Envelopes, NEW row \in EnvelopeRow,
             row.state = "available", Insert(x, t, row), UNCHANGED <<now, client>>
      PROVE  Keeps
  <2>1. x # e
    BY <1>3, <1>7 DEF Insert
  <2>2. MailboxOf[x] \in Mailboxes
    BY ConstantTypes
  <2>3. e \notin Expiring(MailboxOf[x], t)
    BY <1>1, <1>3, <1>7, <2>2, NotExpiring
  <2>4. env'[e].state = env[e].state
    BY <1>1, <1>7, <2>1, <2>3, InsertRows
  <2>5. s \in DOMAIN journal' /\ journal'[s] = journal[s]
    BY <1>1, <1>3, <1>7, InsertJournal
  <2> QED  BY <2>4, <2>5, <1>2, <1>3
<1>8. ASSUME NEW t \in NodeTimes, MailboxStep(t) PROVE Keeps
  <2>1. ASSUME NEW m \in Mailboxes, Register(m, t) PROVE Keeps
    BY <2>1, <1>5 DEF Register
  <2>2. ASSUME NEW m \in Mailboxes, NEW n \in 1..PullLimit, NEW lost \in BOOLEAN,
               PullMailbox(m, t, n, lost)
        PROVE  Keeps
    <3>1. now' = now /\ journal' = journal /\ env' = Tombstoned(Expiring(m, t))
      BY <2>2 DEF PullMailbox
    <3>2. e \notin Expiring(m, t)
      BY <3>1, <1>1, <1>3, NotExpiring
    <3>3. env'[e].state = env[e].state
      BY <3>1, <3>2, <1>1, TombstonedRows
    <3> QED  BY <3>1, <3>3, <1>2, <1>3
  <2>3. ASSUME NEW m \in Mailboxes, NEW A, AckMailbox(m, t, A) PROVE Keeps
    <3>1. now' = now /\ journal' = journal
      BY <2>3 DEF AckMailbox
    <3>2. e \notin Expiring(m, t)
      BY <3>1, <1>1, <1>3, NotExpiring
    <3>3. env'[e].state = "acked" \/ env'[e].state = env[e].state
      BY <2>3, <3>2, <1>1, AckRows
    <3> QED  BY <3>1, <3>3, <1>2, <1>3
  <2>4. ASSUME NEW x \in Sent, EnqueueEnvelope(x, t) PROVE Keeps
    <3>1. x \in Envelopes /\ MailboxOf[x] \in Mailboxes
      BY ConstantTypes DEF Envelopes
    <3>2. PICK n \in Nat : n = box[MailboxOf[x]].next + 1
      BY <3>1, <1>1, RowTypes
    <3>3. PICK row : row = [NoEnvelope EXCEPT !.state = "available", !.seq = n]
      OBVIOUS
    <3>4. row \in EnvelopeRow /\ row.state = "available"
      <4>1. NoEnvelope \in EnvelopeRow
        BY ConstantTypes DEF NoEnvelope, EnvelopeRow
      <4>2. \A r \in EnvelopeRow : LET w == [r EXCEPT !.state = "available", !.seq = n]
                                   IN  w \in EnvelopeRow /\ w.state = "available"
        BY DEF EnvelopeRow
      <4> QED  BY <3>3, <4>1, <4>2
    <3>5. Insert(x, t, row) /\ UNCHANGED <<now, client>>
      BY <2>4, <3>2, <3>3 DEF EnqueueEnvelope
    <3> HIDE DEF Keeps
    <3> QED  BY <3>1, <3>4, <3>5, <1>7
  <2>5. ASSUME NEW x \in Offers, OfferHistory(x, t) PROVE Keeps
    <3>1. x \in Envelopes /\ MailboxOf[x] \in Mailboxes
      BY ConstantTypes DEF Envelopes
    <3>2. PICK n \in Nat, h \in Nat : n = box[MailboxOf[x]].next + 1 /\ h = head.next + 1
      BY <3>1, <1>1, RowTypes
    <3>3. PICK row : row = [state |-> "available", seq |-> n, earliest |-> h, version |-> identity.version]
      OBVIOUS
    <3>4. row \in EnvelopeRow /\ row.state = "available"
      <4>1. identity.version \in 0..MaxVersion
        BY <1>1, ConstantTypes DEF TypeOK
      <4> QED  BY <3>3, <4>1 DEF EnvelopeRow
    <3>5. Insert(x, t, row) /\ UNCHANGED <<now, client>>
      BY <2>5, <3>2, <3>3 DEF OfferHistory
    <3> HIDE DEF Keeps
    <3> QED  BY <3>1, <3>4, <3>5, <1>7
  <2> HIDE DEF Keeps
  <2> QED  BY <1>8, <2>1, <2>2, <2>3, <2>4, <2>5 DEF MailboxStep
<1>9. ASSUME ~ Compact, ~ \E t \in NodeTimes : MailboxStep(t) PROVE UNCHANGED <<env, journal>>
  BY <1>9 DEF Next, Clock, DeviceStep, PullIdentity, AckIdentity, FinishPush, PrunePush,
              GrantHistory, AppendLog, rows, vars
<1> HIDE DEF Keeps
<1> QED  BY <1>5, <1>6, <1>8, <1>9

\* No step takes an acknowledgement of a device back.
LEMMA AcksKept == ASSUME MailboxInv, [Next]_vars PROVE KeepsAcks
<1>1. TypeOK
  BY DEF MailboxInv
<1>2. CASE delivery' = delivery
  BY <1>1, <1>2, RowTypes DEF KeepsAcks
<1>3. ASSUME NEW t \in NodeTimes, NEW d \in Devices, DeviceStep(d, t) PROVE KeepsAcks
  <2>1. ASSUME NEW n \in 1..PullLimit, NEW lost \in BOOLEAN, PullIdentity(d, t, n, lost)
        PROVE  KeepsAcks
    <3>1. 0 \in Nat
      OBVIOUS
    <3> QED  BY <3>1, <1>1, <2>1, DeliveryWritten DEF KeepsAcks
  <2>2. ASSUME NEW a \in 0..client[d].cursor, AckIdentity(d, t, a) PROVE KeepsAcks
    <3>1. a \in Nat
      BY <1>1, RowTypes
    <3> QED  BY <3>1, <1>1, <2>2, DeliveryWritten DEF KeepsAcks
  <2> QED  BY <1>3, <2>1, <2>2 DEF DeviceStep
<1>4. ASSUME ~ \E t \in NodeTimes, d \in Devices : DeviceStep(d, t) PROVE delivery' = delivery
  BY ZenonT(40), <1>4 DEF Next, Clock, Compact, MailboxStep, Register, PullMailbox, AckMailbox,
              EnqueueEnvelope, OfferHistory, FinishPush, PrunePush, GrantHistory, AppendLog, vars
<1> QED  BY <1>2, <1>3, <1>4

-----------------------------------------------------------------------------
(* The theorems *)

\* The tables of the mailboxes, the journal and what devices and readers got from them
\* fit together in every reachable state.
THEOREM MailboxSafety == Spec => []MailboxInv
BY MailboxInit, MailboxStepInv, PTL DEF Spec

\* The counter a mailbox keeps by adding and subtracting is the number of its available
\* envelopes, and what it retains stays within the quota (QuotaExact).
THEOREM MailboxQuota == Spec => []QuotaExact
<1>1. MailboxInv => QuotaExact
  BY DEF MailboxInv, QuotaExact
<1> QED  BY <1>1, MailboxSafety, PTL

\* The owner of a mailbox misses no live envelope, and no device gets an envelope twice
\* although collected envelopes may be sent again (ReaderExact).
THEOREM MailboxReaders == Spec => []ReaderExact
<1>1. MailboxInv => ReaderExact
  BY DEF MailboxInv, ReaderExact
<1> QED  BY <1>1, MailboxSafety, PTL

\* No pull of a device ends in a gap, and the cursor of a device passes nothing live
\* that it did not get (DevicesMissNothing).
THEOREM MailboxDevices == Spec => []DevicesMissNothing
<1>1. MailboxInv => DevicesMissNothing
  <2> SUFFICES ASSUME MailboxInv PROVE DevicesMissNothing
    OBVIOUS
  <2>1. TypeOK /\ JournalRows /\ JournalInv /\ NoSilentSkip
    BY DEF MailboxInv, JournalInv
  <2>2. JournalContiguous
    BY <2>1, JournalJoined DEF JournalContiguous
  <2>3. PullsReadable
    BY <2>1, ReadableStep DEF PullsReadable
  <2> QED  BY <2>1, <2>2, <2>3 DEF DevicesMissNothing
<1> QED  BY <1>1, MailboxSafety, PTL

\* Neither an acknowledgement nor the compactor takes live ciphertext or its place in
\* the journal away, and no acknowledgement of a device goes back (NothingTaken).
THEOREM MailboxKeeps == Spec => NothingTaken
<1>1. MailboxInv /\ [Next]_vars => [KeepsLive /\ KeepsAcks]_vars
  BY LiveKept, AcksKept
<1> QED  BY <1>1, MailboxSafety, PTL DEF Spec, NothingTaken
=============================================================================
