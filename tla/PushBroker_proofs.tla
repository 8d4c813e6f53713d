------------------------- MODULE PushBroker_proofs -------------------------
(***************************************************************************)
(* Proofs about opaque push for any devices, requests, wakes and brokers,  *)
(* any lifetimes and any answers of the provider.                          *)
(***************************************************************************)
EXTENDS PushBroker, TLAPS, FiniteSetTheorems

USE PushConstants

-----------------------------------------------------------------------------
(* The inductive invariant *)

\* Attempts so far, counted from the instant the wake was added: a claim that is alive was
\* taken at until - WakeLease, and the next one can only come later.
Attempted(w) == wake[w].tries + wake[w].expires - WakeTtl
WakeTried(w) ==
    /\ wake[w].state = "pending" => Attempted(w) <= wake[w].retry \/ Attempted(w) <= pushNow
    /\ wake[w].state = "claimed" =>
          /\ Attempted(w) <= wake[w].until - WakeLease + 1
          /\ wake[w].until - WakeLease <= pushNow

\* A broker works on wakes of its batch, which exist; an answer that calls a token invalid
\* is on record for the revision of a wake that is still to be finished.
BrokerHolds(b) ==
    /\ broker[b].stage \notin {"idle", "batch"} =>
          broker[b].current \in Wakes /\ broker[b].current \in broker[b].batch
    /\ \A w \in broker[b].batch : wake[w].state # "new"
    /\ broker[b].stage = "invalid" /\ wake[broker[b].current].state \in Unfinished =>
          <<WakeDevice[broker[b].current], wake[broker[b].current].revision>> \in refusedTokens

\* The requests that changed the registration of a device.
Applied(d) == {q \in Mutations : MutationOf[q].device = d /\ mutated[q] # 0}

\* Every revision of a registration was made by a request of its own.
RevisionCounted(d) ==
    /\ registration[d].revision <= Cardinality(Applied(d))
    /\ registration[d].state = "none" => registration[d].revision = 0
    /\ \A q \in Mutations : MutationOf[q].device = d => mutated[q] <= registration[d].revision

\* What a request handler read is not ahead of the tables, and a head that is still current
\* lists the device.
MutationRead(q) ==
    LET d == MutationOf[q].device IN
    /\ mutation[q].stage # "new" => mutation[q].next <= registration[d].revision + 1
    /\ mutation[q].head <= identityHead[d]
    /\ mutation[q].stage = "sealed" /\ mutation[q].head = identityHead[d] => d \notin deviceRevoked

PushInv ==
    /\ PushTypeOK
    /\ \A w \in Wakes : WakeTried(w)
    /\ \A b \in Brokers : BrokerHolds(b)
    /\ \A d \in Registrants : RevisionCounted(d)
    /\ \A q \in Mutations : MutationRead(q)
    /\ SuspendedWasRefused
    /\ MutationsSerial

WakeRow == [state : WakeEnds \cup Unfinished \cup {"new", "pruned"},
            revision : Revisions, claim : Brokers \cup {NoBroker, Gone},
            until : Nat, retry : Nat, tries : 0 .. MaxTries, expires : Nat, ended : Nat]
RegistrationRow == [state : {"none", "active", "suspended", "revoked"},
                    revision : Revisions, sealed : Revisions]
RequestRow == [stage : {"new", "prepared", "sealed"}, live : BOOLEAN,
               next : Revisions \cup {Cardinality(Mutations) + 1}, head : 0 .. MaxHeads]
BrokerRow == [stage : {"idle", "batch", "permitted", "accepted", "invalid", "failed", "transient"},
              batch : SUBSET Wakes, current : Wakes \cup {NoBroker}]

\* The type invariant with its rows named.
LEMMA TypeForm ==
    PushTypeOK <=>
        /\ pushNow \in 0 .. PushMaxTime
        /\ identityHead \in [Registrants -> 1 .. MaxHeads]
        /\ deviceRevoked \subseteq Registrants
        /\ registration \in [Registrants -> RegistrationRow]
        /\ mutated \in [Mutations -> Revisions]
        /\ mutation \in [Mutations -> RequestRow]
        /\ wake \in [Wakes -> WakeRow]
        /\ broker \in [Brokers -> BrokerRow]
        /\ refusedTokens \subseteq Registrants \X Revisions
        /\ stops \in 0 .. MaxStops
BY DEF PushTypeOK, RegistrationRow, RequestRow, WakeRow, BrokerRow

\* The number of requests bounds the revisions.
LEMMA RequestsCounted ==
    /\ Cardinality(Mutations) \in Nat
    /\ Revisions = 0 .. Cardinality(Mutations)
    /\ 0 \in Revisions
BY FS_CardinalityType DEF Revisions

-----------------------------------------------------------------------------
(* Wakes *)

Row(s, r, c, u, t, n, e, x) ==
    [state |-> s, revision |-> r, claim |-> c, until |-> u, retry |-> t, tries |-> n,
     expires |-> e, ended |-> x]

\* Every way the row of a wake changes, whatever transaction does it.
Evolves(w) ==
    LET k == wake[w] IN
    \/ wake'[w] = k
    \/ /\ k.state = "new"
       /\ \E r \in Revisions :
             wake'[w] = Row("pending", r, NoBroker, 0, pushNow, 0, pushNow + WakeTtl, 0)
    \/ /\ k.state \in Unfinished
       /\ \E s \in WakeEnds :
             wake'[w] = Row(s, k.revision, NoBroker, 0, k.retry, k.tries, k.expires, pushNow)
    \/ /\ Takeable(w)
       /\ \E b \in Brokers :
             wake'[w] = Row("claimed", k.revision, b, pushNow + WakeLease, k.retry, k.tries + 1,
                            k.expires, k.ended)
    \/ wake'[w] = Row(k.state, k.revision, Gone, k.until, k.retry, k.tries, k.expires, k.ended)
    \/ /\ k.state = "claimed" /\ k.until <= pushNow
       /\ wake'[w] = Row("pending", k.revision, NoBroker, 0, k.retry, k.tries, k.expires, k.ended)
    \/ /\ k.state = "claimed"
       /\ \E t \in Nat :
             /\ t > pushNow
             /\ wake'[w] = Row("pending", k.revision, NoBroker, 0, t, k.tries, k.expires, k.ended)
    \/ /\ k.state \in WakeEnds
       /\ wake'[w] = Row("pruned", 0, NoBroker, 0, 0, 0, 0, 0)

\* What every step leaves of the wakes.
WakesEvolve ==
    /\ pushNow' = pushNow
    /\ wake' = [w \in Wakes |-> wake'[w]]
    /\ \A w \in Wakes : Evolves(w)

\* What a transaction on wakes promises about each of them.
WakeKept(w) ==
    /\ wake'[w] \in WakeRow
    /\ WakeTried(w)'
    /\ wake[w].state # "new" => wake'[w].state # "new"
    /\ wake[w].state # "new" /\ wake'[w].state \in Unfinished =>
          wake[w].state \in Unfinished /\ wake'[w].revision = wake[w].revision
    /\ wake[w].state \in WakeEnds => wake'[w].state \in {wake[w].state, "pruned"}

\* The fields of an explicit row.
LEMMA RowFields ==
    ASSUME NEW s, NEW r, NEW c, NEW u, NEW t, NEW n, NEW e, NEW x
    PROVE  LET k == Row(s, r, c, u, t, n, e, x) IN
           /\ k.state = s /\ k.revision = r /\ k.claim = c /\ k.until = u /\ k.retry = t
           /\ k.tries = n /\ k.expires = e /\ k.ended = x
           /\ (s \in WakeEnds \cup Unfinished \cup {"new", "pruned"} /\ r \in Revisions
               /\ c \in Brokers \cup {NoBroker, Gone} /\ u \in Nat /\ t \in Nat
               /\ n \in 0 .. MaxTries /\ e \in Nat /\ x \in Nat) => k \in WakeRow
BY DEF Row, WakeRow

\* However the row of a wake changes, it is attempted at most once in every instant.
LEMMA EvolvesKept ==
    ASSUME PushInv, NEW w \in Wakes, Evolves(w), pushNow' = pushNow
    PROVE  WakeKept(w)
<1> DEFINE k == wake[w]
<1>1. /\ k \in WakeRow /\ pushNow \in Nat /\ WakeTried(w)
      /\ WakeTtl \in Nat /\ WakeLease \in Nat /\ WakeLease >= 1
  BY TypeForm DEF PushInv
<1>2. /\ k.state \in WakeEnds \cup Unfinished \cup {"new", "pruned"} /\ k.revision \in Revisions
      /\ k.claim \in Brokers \cup {NoBroker, Gone} /\ k.until \in Nat /\ k.retry \in Nat
      /\ k.tries \in 0 .. MaxTries /\ k.tries \in Nat /\ k.expires \in Nat /\ k.ended \in Nat
  <2>1. k.tries \in 0 .. MaxTries
    BY <1>1 DEF WakeRow
  <2> QED
    BY <1>1, <2>1 DEF WakeRow
<1>3. WakeEnds \cap {"new", "pending", "claimed", "pruned"} = {}
      /\ Unfinished = {"pending", "claimed"}
  BY DEF WakeEnds, Unfinished
<1>4. /\ k.state = "pending" =>
           \/ k.tries + k.expires - WakeTtl <= k.retry
           \/ k.tries + k.expires - WakeTtl <= pushNow
      /\ k.state = "claimed" =>
           /\ k.tries + k.expires - WakeTtl <= k.until - WakeLease + 1
           /\ k.until - WakeLease <= pushNow
  BY <1>1 DEF WakeTried, Attempted
<1> HIDE DEF k
<1> DEFINE n == wake'[w]
<1>5. CASE n = k
  BY <1>1, <1>3, <1>4, <1>5 DEF WakeKept, WakeTried, Attempted, k
<1>6. ASSUME k.state = "new", NEW r \in Revisions,
             n = Row("pending", r, NoBroker, 0, pushNow, 0, pushNow + WakeTtl, 0)
      PROVE  WakeKept(w)
  <2>1. /\ n.state = "pending" /\ n.retry = pushNow /\ n.tries = 0 /\ n.expires = pushNow + WakeTtl
        /\ n \in WakeRow
    BY <1>1, <1>3, <1>6, RowFields DEF MaxTries
  <2> QED
    BY <1>1, <1>3, <1>6, <2>1 DEF WakeKept, WakeTried, Attempted, k
<1>7. ASSUME k.state \in Unfinished, NEW s \in WakeEnds,
             n = Row(s, k.revision, NoBroker, 0, k.retry, k.tries, k.expires, pushNow)
      PROVE  WakeKept(w)
  <2>1. n.state = s /\ n.revision = k.revision /\ n \in WakeRow
    BY <1>1, <1>2, <1>7, RowFields
  <2> QED
    BY <1>3, <1>7, <2>1 DEF WakeKept, WakeTried, k
<1>8. ASSUME Takeable(w), NEW b \in Brokers,
             n = Row("claimed", k.revision, b, pushNow + WakeLease, k.retry, k.tries + 1,
                     k.expires, k.ended)
      PROVE  WakeKept(w)
  <2>1. /\ k.expires > pushNow
        /\ \/ k.state = "pending" /\ k.retry <= pushNow
           \/ k.state = "claimed" /\ k.until <= pushNow
    BY <1>8 DEF Takeable, k
  <2>2. k.tries + k.expires - WakeTtl <= pushNow
    BY <1>1, <1>2, <1>4, <2>1
  <2>3. k.tries + 1 \in 0 .. MaxTries
    BY <1>1, <1>2, <2>1, <2>2 DEF MaxTries
  <2>4. pushNow + WakeLease \in Nat
    BY <1>1
  <2>5. /\ n.state = "claimed" /\ n.revision = k.revision /\ n.until = pushNow + WakeLease
        /\ n.tries = k.tries + 1 /\ n.expires = k.expires /\ n \in WakeRow
    BY <1>2, <1>3, <1>8, <2>3, <2>4, RowFields
  <2>6. /\ (k.tries + 1) + k.expires - WakeTtl <= (pushNow + WakeLease) - WakeLease + 1
        /\ (pushNow + WakeLease) - WakeLease <= pushNow
    BY <1>1, <1>2, <2>2
  <2>7. WakeTried(w)'
    BY <2>5, <2>6 DEF WakeTried, Attempted
  <2> QED
    BY <1>3, <2>1, <2>5, <2>7 DEF WakeKept, k
<1>9. CASE n = Row(k.state, k.revision, Gone, k.until, k.retry, k.tries, k.expires, k.ended)
  <2>1. /\ n.state = k.state /\ n.revision = k.revision /\ n.until = k.until /\ n.retry = k.retry
        /\ n.tries = k.tries /\ n.expires = k.expires /\ n \in WakeRow
    BY <1>2, <1>9, RowFields
  <2>2. WakeTried(w)'
    BY <1>4, <2>1 DEF WakeTried, Attempted
  <2> QED
    BY <1>3, <2>1, <2>2 DEF WakeKept, k
<1>10. ASSUME k.state = "claimed", NEW t \in Nat,
              t > pushNow \/ (k.until <= pushNow /\ t = k.retry),
              n = Row("pending", k.revision, NoBroker, 0, t, k.tries, k.expires, k.ended)
       PROVE  WakeKept(w)
  <2>1. /\ n.state = "pending" /\ n.revision = k.revision /\ n.retry = t
        /\ n.tries = k.tries /\ n.expires = k.expires /\ n \in WakeRow
    BY <1>2, <1>3, <1>10, RowFields
  <2>2. k.tries + k.expires - WakeTtl <= t \/ k.tries + k.expires - WakeTtl <= pushNow
    BY <1>1, <1>2, <1>4, <1>10
  <2>3. WakeTried(w)'
    BY <2>1, <2>2 DEF WakeTried, Attempted
  <2> QED
    BY <1>3, <1>10, <2>1, <2>3 DEF WakeKept, k
<1>11. ASSUME k.state \in WakeEnds, n = Row("pruned", 0, NoBroker, 0, 0, 0, 0, 0)
       PROVE  WakeKept(w)
  <2>1. n.state = "pruned" /\ n \in WakeRow
    BY <1>1, <1>11, RowFields, RequestsCounted DEF MaxTries
  <2> QED
    BY <1>3, <1>11, <2>1 DEF WakeKept, WakeTried, k
<1> QED
  BY <1>2, <1>5, <1>6, <1>7, <1>8, <1>9, <1>10, <1>11 DEF Evolves, k

\* The rows that the transactions write, field by field.
LEMMA ThreeFields ==
    ASSUME NEW k \in WakeRow, NEW s, NEW c, NEW u
    PROVE  [k EXCEPT !.state = s, !.claim = c, !.until = u] =
             Row(s, k.revision, c, u, k.retry, k.tries, k.expires, k.ended)
<1> DEFINE k1 == [k EXCEPT !.state = s]
           k2 == [k1 EXCEPT !.claim = c]
           k3 == [k2 EXCEPT !.until = u]
<1>1. k1 = Row(s, k.revision, k.claim, k.until, k.retry, k.tries, k.expires, k.ended)
  BY DEF WakeRow, Row
<1>2. k2 = Row(s, k.revision, c, k.until, k.retry, k.tries, k.expires, k.ended)
  <2> HIDE DEF k1
  <2> QED
    BY <1>1 DEF Row
<1>3. k3 = Row(s, k.revision, c, u, k.retry, k.tries, k.expires, k.ended)
  <2> HIDE DEF k1, k2
  <2> QED
    BY <1>2 DEF Row
<1> QED
  BY <1>3, Zenon

\* A wake that ends.
LEMMA EndedForm ==
    ASSUME PushInv, NEW w \in Wakes, NEW s
    PROVE  Finished(w, s) =
             Row(s, wake[w].revision, NoBroker, 0, wake[w].retry, wake[w].tries,
                 wake[w].expires, pushNow)
<1>1. wake[w] \in WakeRow
  BY TypeForm DEF PushInv
<1> DEFINE k == wake[w]
           k3 == [k EXCEPT !.state = s, !.claim = NoBroker, !.until = 0]
<1>2. k3 = Row(s, k.revision, NoBroker, 0, k.retry, k.tries, k.expires, k.ended)
  BY <1>1, ThreeFields
<1>3. [k3 EXCEPT !.ended = pushNow] = Row(s, wake[w].revision, NoBroker, 0, wake[w].retry, wake[w].tries,
                 wake[w].expires, pushNow)
  <2> HIDE DEF k3
  <2> QED
    BY <1>2 DEF Row
<1> QED
  BY <1>3, Zenon DEF Finished

\* A claim whose token nobody holds any more.
LEMMA GoneForm ==
    ASSUME PushInv, NEW w \in Wakes
    PROVE  [wake[w] EXCEPT !.claim = Gone] =
             Row(wake[w].state, wake[w].revision, Gone, wake[w].until, wake[w].retry, wake[w].tries,
                 wake[w].expires, wake[w].ended)
<1>1. wake[w] \in WakeRow
  BY TypeForm DEF PushInv
<1> QED
  BY <1>1 DEF Row, WakeRow

\* A wake that is given back.
LEMMA BackForm ==
    ASSUME PushInv, NEW w \in Wakes
    PROVE  [wake[w] EXCEPT !.state = "pending", !.claim = NoBroker, !.until = 0] =
             Row("pending", wake[w].revision, NoBroker, 0, wake[w].retry, wake[w].tries,
                 wake[w].expires, wake[w].ended)
<1>1. wake[w] \in WakeRow
  BY TypeForm DEF PushInv
<1> QED
  BY <1>1, ThreeFields

\* A wake that is put off.
LEMMA RetryForm ==
    ASSUME PushInv, NEW w \in Wakes, NEW t
    PROVE  [wake[w] EXCEPT !.state = "pending", !.claim = NoBroker, !.until = 0, !.retry = t] =
             Row("pending", wake[w].revision, NoBroker, 0, t, wake[w].tries,
                 wake[w].expires, wake[w].ended)
<1>1. wake[w] \in WakeRow
  BY TypeForm DEF PushInv
<1> DEFINE k == wake[w]
           k3 == [k EXCEPT !.state = "pending", !.claim = NoBroker, !.until = 0]
<1>2. k3 = Row("pending", k.revision, NoBroker, 0, k.retry, k.tries, k.expires, k.ended)
  BY <1>1, ThreeFields
<1>3. [k3 EXCEPT !.retry = t] = Row("pending", wake[w].revision, NoBroker, 0, t, wake[w].tries,
                 wake[w].expires, wake[w].ended)
  <2> HIDE DEF k3
  <2> QED
    BY <1>2 DEF Row
<1> QED
  BY <1>3, Zenon

\* A wake that is claimed.
LEMMA ClaimedForm ==
    ASSUME PushInv, NEW w \in Wakes, NEW b
    PROVE  [wake[w] EXCEPT !.state = "claimed", !.claim = b, !.until = pushNow + WakeLease,
                           !.tries = @ + 1] =
             Row("claimed", wake[w].revision, b, pushNow + WakeLease, wake[w].retry,
                 wake[w].tries + 1, wake[w].expires, wake[w].ended)
<1>1. wake[w] \in WakeRow
  BY TypeForm DEF PushInv
<1> DEFINE k == wake[w]
           k3 == [k EXCEPT !.state = "claimed", !.claim = b, !.until = pushNow + WakeLease]
<1>2. k3 = Row("claimed", k.revision, b, pushNow + WakeLease, k.retry, k.tries, k.expires, k.ended)
  BY <1>1, ThreeFields
<1>3. [k3 EXCEPT !.tries = @ + 1] = Row("claimed", wake[w].revision, b, pushNow + WakeLease, wake[w].retry,
                 wake[w].tries + 1, wake[w].expires, wake[w].ended)
  <2> HIDE DEF k3
  <2> QED
    BY <1>2 DEF Row
<1> QED
  BY <1>3, Zenon

\* A wake that ends evolves.
LEMMA EndEvolves ==
    ASSUME PushInv, NEW w \in Wakes, NEW s \in WakeEnds, wake[w].state \in Unfinished,
           wake'[w] = Finished(w, s)
    PROVE  Evolves(w)
<1>1. \E e \in WakeEnds : wake'[w] = Row(e, wake[w].revision, NoBroker, 0, wake[w].retry,
                                         wake[w].tries, wake[w].expires, pushNow)
  BY EndedForm
<1> QED
  BY <1>1 DEF Evolves

\* Ending the unfinished wakes of a registration.
LEMMA EndedEvolves ==
    ASSUME PushInv, pushNow' = pushNow, NEW d, NEW r, NEW s \in WakeEnds, wake' = EndedFor(d, r, s)
    PROVE  WakesEvolve
<1>1. wake' = [w \in Wakes |-> wake'[w]]
  BY DEF EndedFor
<1>2. ASSUME NEW w \in Wakes PROVE Evolves(w)
  <2>1. \/ wake'[w] = wake[w]
        \/ wake[w].state \in Unfinished /\ wake'[w] = Finished(w, s)
    BY DEF EndedFor
  <2> QED
    BY <2>1, EndEvolves DEF Evolves
<1> QED
  BY <1>1, <1>2 DEF WakesEvolve

\* One wake changes and the others stay.
LEMMA OneEvolves ==
    ASSUME PushInv, pushNow' = pushNow, NEW w \in Wakes, NEW n, wake' = [wake EXCEPT ![w] = n],
           wake'[w] = n => Evolves(w)
    PROVE  WakesEvolve
<1>1. wake \in [Wakes -> WakeRow]
  BY TypeForm DEF PushInv
<1>2. wake' = [v \in Wakes |-> wake'[v]] /\ wake'[w] = n
      /\ \A v \in Wakes \ {w} : wake'[v] = wake[v]
  BY <1>1
<1> QED
  BY <1>2 DEF WakesEvolve, Evolves

\* A permit that is not given ends the wake or gives it back when the claim has lapsed.
LEMMA RefusalEvolves ==
    ASSUME PushInv, pushNow' = pushNow, NEW b \in Brokers, NEW w \in Wakes, ~Permitted(b, w),
           wake' = AfterRefusal(b, w)
    PROVE  WakesEvolve
<1>1. wake \in [Wakes -> WakeRow] /\ pushNow \in Nat /\ wake[w].until \in Nat
      /\ wake[w].expires \in Nat
  BY TypeForm DEF PushInv, WakeRow
<1>2. CASE ~Holds(b, w)
  BY <1>1, <1>2 DEF AfterRefusal, WakesEvolve, Evolves
<1>3. CASE Holds(b, w)
  <2>1. wake[w].state = "claimed" /\ wake[w].state \in Unfinished
    BY <1>3 DEF Holds, Unfinished
  <2>2. CASE wake[w].expires <= pushNow
    <3>1. wake' = [wake EXCEPT ![w] = Finished(w, "expired")]
      BY <1>3, <2>2 DEF AfterRefusal
    <3> QED
      BY <2>1, <3>1, OneEvolves, EndEvolves DEF WakeEnds
  <2>3. CASE ~(wake[w].expires <= pushNow) /\ registration[WakeDevice[w]].state # "active"
    <3>1. wake' = [wake EXCEPT ![w] = Finished(w, "revoked")]
      BY <1>3, <2>3 DEF AfterRefusal
    <3> QED
      BY <2>1, <3>1, OneEvolves, EndEvolves DEF WakeEnds
  <2>4. CASE ~(wake[w].expires <= pushNow) /\ registration[WakeDevice[w]].state = "active"
    <3>1. wake' = [wake EXCEPT ![w] =
                     [wake[w] EXCEPT !.state = "pending", !.claim = NoBroker, !.until = 0]]
      BY <1>3, <2>4 DEF AfterRefusal
    <3>2. wake[w].until <= pushNow
      BY <1>1, <1>3, <2>4 DEF Permitted
    <3> QED
      <4>1. wake'[w] = [wake[w] EXCEPT !.state = "pending", !.claim = NoBroker, !.until = 0]
              => Evolves(w)
        BY <2>1, <3>2, BackForm DEF Evolves
      <4> QED
        BY <3>1, <4>1, OneEvolves
  <2> QED
    BY <2>2, <2>3, <2>4
<1> QED
  BY <1>2, <1>3

\* Recording the outcome of a wake that the broker may send.
LEMMA FinishEvolves ==
    ASSUME PushInv, pushNow' = pushNow, NEW b \in Brokers, NEW w \in Wakes, NEW s \in WakeEnds,
           wake' = IF Permitted(b, w) THEN [wake EXCEPT ![w] = Finished(w, s)]
                   ELSE AfterRefusal(b, w)
    PROVE  WakesEvolve
<1>1. CASE Permitted(b, w)
  <2>1. wake[w].state \in Unfinished
    BY <1>1 DEF Permitted, Holds, Unfinished
  <2>2. wake' = [wake EXCEPT ![w] = Finished(w, s)]
    BY <1>1
  <2> QED
    BY <2>1, <2>2, OneEvolves, EndEvolves
<1> QED
  BY <1>1, RefusalEvolves

\* A transaction that leaves the wakes alone.
LEMMA StillEvolves ==
    ASSUME PushInv, pushNow' = pushNow, wake' = wake
    PROVE  WakesEvolve
BY TypeForm DEF PushInv, WakesEvolve, Evolves

\* What every transaction on wakes leaves behind.
LEMMA WakesKept ==
    ASSUME PushInv, WakesEvolve
    PROVE  wake' \in [Wakes -> WakeRow] /\ \A w \in Wakes : WakeKept(w)
<1>1. \A w \in Wakes : WakeKept(w)
  BY EvolvesKept DEF WakesEvolve
<1> QED
  BY <1>1 DEF WakesEvolve, WakeKept

-----------------------------------------------------------------------------
(* Brokers *)

\* What a broker that keeps its place knows stays true.
LEMMA PlaceKept ==
    ASSUME PushInv, WakesEvolve, refusedTokens \subseteq refusedTokens', NEW b \in Brokers,
           broker'[b] = broker[b]
    PROVE  BrokerHolds(b)'
<1>1. broker[b] \in BrokerRow /\ BrokerHolds(b) /\ \A w \in Wakes : WakeKept(w)
  BY TypeForm, WakesKept DEF PushInv
<1>2. broker[b].batch \subseteq Wakes
  BY <1>1 DEF BrokerRow
<1>3. \A w \in broker[b].batch : wake'[w].state # "new"
  BY <1>1, <1>2 DEF BrokerHolds, WakeKept
<1>4. ASSUME broker[b].stage = "invalid", wake'[broker[b].current].state \in Unfinished
      PROVE  <<WakeDevice[broker[b].current], wake'[broker[b].current].revision>>
                \in refusedTokens'
  <2>1. broker[b].current \in Wakes /\ wake[broker[b].current].state # "new"
    BY <1>1, <1>4 DEF BrokerHolds
  <2> QED
    BY <1>1, <1>4, <2>1 DEF BrokerHolds, WakeKept
<1> QED
  BY <1>1, <1>3, <1>4 DEF BrokerHolds

\* A broker that is idle or goes on with wakes of its batch.
LEMMA PlaceTaken ==
    ASSUME PushInv, WakesEvolve, NEW b \in Brokers,
           \/ broker'[b] = IdleBroker
           \/ \E rows \in SUBSET Wakes :
                 /\ broker'[b] = [stage |-> "batch", batch |-> rows, current |-> NoBroker]
                 /\ \A w \in rows : wake[w].state # "new"
    PROVE  BrokerHolds(b)' /\ broker'[b] \in BrokerRow
<1>1. \A w \in Wakes : WakeKept(w)
  BY WakesKept
<1>2. CASE broker'[b] = IdleBroker
  BY <1>2 DEF IdleBroker, BrokerHolds, BrokerRow
<1>3. ASSUME NEW rows \in SUBSET Wakes,
             broker'[b] = [stage |-> "batch", batch |-> rows, current |-> NoBroker],
             \A w \in rows : wake[w].state # "new"
      PROVE  BrokerHolds(b)' /\ broker'[b] \in BrokerRow
  <2>1. \A w \in rows : wake'[w].state # "new"
    BY <1>1, <1>3 DEF WakeKept
  <2>2. broker'[b].stage = "batch" /\ broker'[b].batch = rows
    BY <1>3
  <2> QED
    BY <1>3, <2>1, <2>2 DEF BrokerHolds, BrokerRow
<1> QED
  BY <1>2, <1>3

\* All brokers after one of them moved.
LEMMA BrokersKept ==
    ASSUME PushInv, WakesEvolve, refusedTokens \subseteq refusedTokens', NEW b \in Brokers, NEW n,
           broker' = [broker EXCEPT ![b] = n],
           broker'[b] = n => BrokerHolds(b)' /\ broker'[b] \in BrokerRow
    PROVE  broker' \in [Brokers -> BrokerRow] /\ \A c \in Brokers : BrokerHolds(c)'
<1>1. broker \in [Brokers -> BrokerRow]
  BY TypeForm DEF PushInv
<1>2. broker'[b] = n /\ \A c \in Brokers \ {b} : broker'[c] = broker[c]
  BY <1>1
<1>3. \A c \in Brokers : BrokerHolds(c)'
  BY <1>2, PlaceKept
<1> QED
  BY <1>1, <1>2, <1>3

\* The broker goes on with the rest of its batch.
LEMMA NextKept ==
    ASSUME PushInv, WakesEvolve, refusedTokens' = refusedTokens, NEW b \in Brokers, NEW w \in Wakes,
           NextOfBatch(b, w)
    PROVE  broker' \in [Brokers -> BrokerRow] /\ \A c \in Brokers : BrokerHolds(c)'
<1>1. broker[b] \in BrokerRow /\ BrokerHolds(b)
  BY TypeForm DEF PushInv
<1>2. broker[b].batch \subseteq Wakes /\ \A v \in broker[b].batch : wake[v].state # "new"
  BY <1>1 DEF BrokerRow, BrokerHolds
<1> DEFINE n == IF broker[b].batch = {w} THEN IdleBroker
                ELSE [stage |-> "batch", batch |-> broker[b].batch \ {w}, current |-> NoBroker]
<1>3. broker' = [broker EXCEPT ![b] = n]
  BY DEF NextOfBatch
<1>4. broker'[b] = n => BrokerHolds(b)' /\ broker'[b] \in BrokerRow
  <2>1. broker[b].batch \ {w} \in SUBSET Wakes
        /\ \A v \in broker[b].batch \ {w} : wake[v].state # "new"
    BY <1>2
  <2> QED
    BY <2>1, PlaceTaken
<1> QED
  BY <1>3, <1>4, BrokersKept

\* A step of a broker leaves the tables of registrations alone.
LEMMA BrokerStepKeeps ==
    ASSUME PushInv, WakesEvolve,
           UNCHANGED <<identityHead, deviceRevoked, registration, mutated, mutation>>,
           refusedTokens \subseteq refusedTokens', refusedTokens' \subseteq Registrants \X Revisions,
           stops' \in 0 .. MaxStops,
           broker' \in [Brokers -> BrokerRow], \A c \in Brokers : BrokerHolds(c)'
    PROVE  PushInv'
<1>1. wake' \in [Wakes -> WakeRow] /\ \A w \in Wakes : WakeTried(w)'
  BY WakesKept DEF WakeKept
<1>2. PushTypeOK'
  <2>1. pushNow' = pushNow
    BY DEF WakesEvolve
  <2> QED
    BY <1>1, <2>1, TypeForm DEF PushInv, PushTypeOK, RegistrationRow, RequestRow, WakeRow, BrokerRow
<1>3. \A d \in Registrants : RevisionCounted(d)'
  BY DEF PushInv, RevisionCounted, Applied
<1>4. \A q \in Mutations : MutationRead(q)'
  BY DEF PushInv, MutationRead
<1>5. SuspendedWasRefused' /\ MutationsSerial'
  BY DEF PushInv, SuspendedWasRefused, MutationsSerial
<1> QED
  BY <1>1, <1>2, <1>3, <1>4, <1>5 DEF PushInv

\* Claiming takes due wakes, ends the overdue ones and leaves old claims of the broker behind.
LEMMA ClaimKeeps ==
    ASSUME PushInv, NEW b \in Brokers, ClaimWakes(b)
    PROVE  PushInv' /\ WakesEvolve
<1>1. PICK rows \in SUBSET {w \in Wakes : Takeable(w)} :
        LET returned == {w \in rows : Current(w)}
            broken   == \E w \in returned :
                           registration[WakeDevice[w]].sealed # wake[w].revision
        IN /\ wake' = [w \in Wakes |->
                 IF Overdue(w) THEN Finished(w, "expired")
                 ELSE IF w \in rows
                 THEN [wake[w] EXCEPT !.state = "claimed", !.claim = b,
                                      !.until = pushNow + WakeLease, !.tries = @ + 1]
                 ELSE IF wake[w].claim = b THEN [wake[w] EXCEPT !.claim = Gone]
                 ELSE wake[w]]
           /\ broker' = [broker EXCEPT ![b] =
                 IF returned = {} \/ broken THEN IdleBroker
                 ELSE [stage |-> "batch", batch |-> returned, current |-> NoBroker]]
           /\ UNCHANGED <<pushNow, identityHead, deviceRevoked, registration, mutated, mutation,
                          refusedTokens, stops>>
  BY DEF ClaimWakes
<1>2. WakesEvolve
  <2>1. pushNow' = pushNow /\ wake' = [w \in Wakes |-> wake'[w]]
    BY <1>1
  <2>2. ASSUME NEW w \in Wakes PROVE Evolves(w)
    <3>1. CASE Overdue(w)
      <4>1. wake[w].state \in Unfinished /\ wake'[w] = Finished(w, "expired")
        BY <1>1, <3>1 DEF Overdue
      <4> QED
        BY <4>1, EndEvolves DEF WakeEnds
    <3>2. CASE ~Overdue(w) /\ w \in rows
      <4>1. /\ Takeable(w)
            /\ wake'[w] = [wake[w] EXCEPT !.state = "claimed", !.claim = b,
                                          !.until = pushNow + WakeLease, !.tries = @ + 1]
        BY <1>1, <3>2
      <4> QED
        BY <4>1, ClaimedForm DEF Evolves
    <3>3. CASE ~Overdue(w) /\ w \notin rows
      <4>1. wake'[w] = wake[w] \/ wake'[w] = [wake[w] EXCEPT !.claim = Gone]
        BY <1>1, <3>3
      <4> QED
        BY <4>1, GoneForm DEF Evolves
    <3> QED
      BY <3>1, <3>2, <3>3
  <2> QED
    BY <2>1, <2>2 DEF WakesEvolve
<1> DEFINE returned == {w \in rows : Current(w)}
           broken == \E w \in returned : registration[WakeDevice[w]].sealed # wake[w].revision
           n == IF returned = {} \/ broken THEN IdleBroker
                ELSE [stage |-> "batch", batch |-> returned, current |-> NoBroker]
<1>3. broker' = [broker EXCEPT ![b] = n] /\ refusedTokens' = refusedTokens
  BY <1>1
<1>4. returned \in SUBSET Wakes /\ \A w \in returned : wake[w].state # "new"
  BY DEF Takeable
<1>5. n = IdleBroker \/ n = [stage |-> "batch", batch |-> returned, current |-> NoBroker]
  OBVIOUS
<1> HIDE DEF n, returned
<1>6. broker'[b] = n => BrokerHolds(b)' /\ broker'[b] \in BrokerRow
  BY <1>2, <1>4, <1>5, PlaceTaken
<1>7. broker' \in [Brokers -> BrokerRow] /\ \A c \in Brokers : BrokerHolds(c)'
  BY <1>2, <1>3, <1>6, BrokersKept
<1>8. /\ UNCHANGED <<identityHead, deviceRevoked, registration, mutated, mutation>>
      /\ refusedTokens' \subseteq Registrants \X Revisions /\ stops' \in 0 .. MaxStops
  BY <1>1, TypeForm DEF PushInv
<1> QED
  BY <1>2, <1>3, <1>7, <1>8, BrokerStepKeeps

\* The steps of a broker that end with the next wake of its batch.
LEMMA NextStepKeeps ==
    ASSUME PushInv, WakesEvolve, NEW b \in Brokers, NEW w \in Wakes, NextOfBatch(b, w),
           UNCHANGED <<identityHead, deviceRevoked, registration, mutated, mutation,
                       refusedTokens>>,
           stops' = stops \/ (stops < MaxStops /\ stops' = stops + 1)
    PROVE  PushInv'
<1>1. /\ refusedTokens \subseteq refusedTokens' /\ refusedTokens' \subseteq Registrants \X Revisions
      /\ stops' \in 0 .. MaxStops
  BY TypeForm DEF PushInv
<1>2. broker' \in [Brokers -> BrokerRow] /\ \A c \in Brokers : BrokerHolds(c)'
  BY NextKept
<1> QED
  BY <1>1, <1>2, BrokerStepKeeps

\* The check before a send.
LEMMA AuthorizeKeeps ==
    ASSUME PushInv, NEW b \in Brokers, NEW w \in Wakes, AuthorizeSend(b, w)
    PROVE  PushInv' /\ WakesEvolve
<1>1. /\ pushNow' = pushNow
      /\ UNCHANGED <<identityHead, deviceRevoked, registration, mutated, mutation, refusedTokens>>
      /\ stops' = stops /\ broker[b].stage = "batch" /\ w \in broker[b].batch
  BY DEF AuthorizeSend
<1>2. CASE ~Permitted(b, w)
  <2>1. wake' = AfterRefusal(b, w) /\ NextOfBatch(b, w)
    BY <1>2 DEF AuthorizeSend
  <2> QED
    BY <1>1, <1>2, <2>1, RefusalEvolves, NextStepKeeps
<1>3. CASE Permitted(b, w)
  <2>1. broker' = [broker EXCEPT ![b].stage = "permitted", ![b].current = w] /\ wake' = wake
    BY <1>3 DEF AuthorizeSend
  <2>2. WakesEvolve
    BY <1>1, <2>1, StillEvolves
  <2>3. broker \in [Brokers -> BrokerRow] /\ broker[b] \in BrokerRow /\ BrokerHolds(b)
    BY TypeForm DEF PushInv
  <2> DEFINE n == [stage |-> "permitted", batch |-> broker[b].batch, current |-> w]
  <2>4. broker' = [broker EXCEPT ![b] = n]
    <3> DEFINE b1 == [broker EXCEPT ![b].stage = "permitted"]
               n1 == [stage |-> "permitted", batch |-> broker[b].batch, current |-> broker[b].current]
    <3>1. b1 = [broker EXCEPT ![b] = n1]
      <4>1. [broker[b] EXCEPT !.stage = "permitted"] = n1
        BY <2>3 DEF BrokerRow
      <4> QED
        BY <2>3, <4>1
    <3>2. broker' = [b1 EXCEPT ![b].current = w]
      BY <2>1, Zenon
    <3>3. b1[b] = n1 /\ [n1 EXCEPT !.current = w] = n /\ DOMAIN b1 = Brokers
      <4>1. b1[b] = n1 /\ DOMAIN b1 = Brokers
        <5> HIDE DEF n1, b1
        <5> QED
          BY <2>3, <3>1
      <4> QED
        BY <4>1
    <3>4. broker' = [b1 EXCEPT ![b] = n]
      <4> HIDE DEF b1, n, n1
      <4> QED
        BY <3>2, <3>3
    <3> HIDE DEF b1, n, n1
    <3> QED
      BY <2>3, <3>1, <3>4
  <2>5. broker'[b] = n => BrokerHolds(b)' /\ broker'[b] \in BrokerRow
    <3>1. n \in BrokerRow
      BY <2>3 DEF BrokerRow
    <3>2. n.stage = "permitted" /\ n.batch = broker[b].batch /\ n.current = w
      OBVIOUS
    <3> HIDE DEF n
    <3> QED
      BY <1>1, <2>1, <2>3, <3>1, <3>2 DEF BrokerHolds
  <2>6. broker' \in [Brokers -> BrokerRow] /\ \A c \in Brokers : BrokerHolds(c)'
    <3> HIDE DEF n
    <3> QED
      BY <1>1, <2>2, <2>4, <2>5, BrokersKept
  <2>7. /\ refusedTokens \subseteq refusedTokens' /\ refusedTokens' \subseteq Registrants \X Revisions
        /\ stops' \in 0 .. MaxStops
    BY <1>1, TypeForm DEF PushInv
  <2> QED
    BY <1>1, <2>2, <2>6, <2>7, BrokerStepKeeps
<1> QED
  BY <1>2, <1>3

\* A token that cannot be opened.
LEMMA DecryptKeeps ==
    ASSUME PushInv, NEW b \in Brokers, NEW w \in Wakes, DecryptFails(b, w)
    PROVE  PushInv' /\ WakesEvolve
<1>1. /\ pushNow' = pushNow
      /\ UNCHANGED <<identityHead, deviceRevoked, registration, mutated, mutation, refusedTokens>>
      /\ stops < MaxStops /\ stops' = stops + 1 /\ NextOfBatch(b, w)
      /\ wake' = IF Permitted(b, w) THEN [wake EXCEPT ![w] = Finished(w, "permanent_failure")]
                 ELSE AfterRefusal(b, w)
  BY DEF DecryptFails
<1>2. "permanent_failure" \in WakeEnds
  BY DEF WakeEnds
<1> QED
  BY <1>1, <1>2, FinishEvolves, NextStepKeeps

\* The wake a broker got an answer for.
LEMMA CurrentExists ==
    ASSUME PushInv, NEW b \in Brokers, broker[b].stage \notin {"idle", "batch"}
    PROVE  broker[b].current \in Wakes /\ broker[b].current \in broker[b].batch
BY DEF PushInv, BrokerHolds

\* The outcome of an answer that is final.
LEMMA AnsweredKeeps ==
    ASSUME PushInv, NEW b \in Brokers, FinishAnswered(b)
    PROVE  PushInv' /\ WakesEvolve
<1> DEFINE w == broker[b].current
           s == IF broker[b].stage = "accepted" THEN "delivered" ELSE "permanent_failure"
<1>1. /\ pushNow' = pushNow
      /\ UNCHANGED <<identityHead, deviceRevoked, registration, mutated, mutation, refusedTokens>>
      /\ stops' = stops /\ NextOfBatch(b, w)
      /\ wake' = IF Permitted(b, w) THEN [wake EXCEPT ![w] = Finished(w, s)]
                 ELSE AfterRefusal(b, w)
      /\ broker[b].stage \in {"accepted", "failed"}
  BY DEF FinishAnswered
<1>2. s \in WakeEnds
  BY DEF WakeEnds
<1>3. w \in Wakes
  BY <1>1, CurrentExists
<1> HIDE DEF w, s
<1> QED
  BY <1>1, <1>2, <1>3, FinishEvolves, NextStepKeeps

\* An answer that asks to try again.
LEMMA TransientKeeps ==
    ASSUME PushInv, NEW b \in Brokers, FinishTransient(b)
    PROVE  PushInv' /\ WakesEvolve
<1> DEFINE w == broker[b].current
<1>1. /\ pushNow' = pushNow
      /\ UNCHANGED <<identityHead, deviceRevoked, registration, mutated, mutation, refusedTokens>>
      /\ stops' = stops /\ NextOfBatch(b, w) /\ broker[b].stage = "transient"
  BY DEF FinishTransient
<1>2. PICK delay \in RetryDelays :
        wake' = IF ~Permitted(b, w) THEN AfterRefusal(b, w)
                ELSE [wake EXCEPT ![w] =
                   IF NextAttempt(w, delay) <= pushNow THEN Finished(w, "expired")
                   ELSE [wake[w] EXCEPT !.state = "pending", !.claim = NoBroker,
                                        !.until = 0, !.retry = NextAttempt(w, delay)]]
  BY DEF FinishTransient
<1>3. w \in Wakes
  BY <1>1, CurrentExists
<1>4. CASE ~Permitted(b, w)
  <2>1. wake' = AfterRefusal(b, w)
    BY <1>2, <1>4
  <2> HIDE DEF w
  <2> QED
    BY <1>1, <1>3, <1>4, <2>1, RefusalEvolves, NextStepKeeps
<1>5. CASE Permitted(b, w)
  <2>1. wake[w].state = "claimed" /\ wake[w].state \in Unfinished /\ wake[w].expires > pushNow
    BY <1>5 DEF Permitted, Holds, Unfinished
  <2>2. pushNow \in Nat /\ wake[w].expires \in Nat /\ delay \in Nat
    BY <1>3, TypeForm DEF PushInv, WakeRow
  <2>3. NextAttempt(w, delay) \in Nat
    BY <2>1, <2>2 DEF NextAttempt
  <2>4. WakesEvolve
    <3>1. CASE NextAttempt(w, delay) <= pushNow
      <4>1. wake' = [wake EXCEPT ![w] = Finished(w, "expired")]
        BY <1>2, <1>5, <3>1
      <4> HIDE DEF w
      <4> QED
        BY <1>1, <1>3, <2>1, <4>1, OneEvolves, EndEvolves DEF WakeEnds
    <3>2. CASE ~(NextAttempt(w, delay) <= pushNow)
      <4> DEFINE t == NextAttempt(w, delay)
                 n == [wake[w] EXCEPT !.state = "pending", !.claim = NoBroker, !.until = 0,
                                      !.retry = t]
      <4>1. wake' = [wake EXCEPT ![w] = n]
        BY <1>2, <1>5, <3>2
      <4>2. t \in Nat /\ t > pushNow
        BY <2>2, <2>3, <3>2
      <4>3. n = Row("pending", wake[w].revision, NoBroker, 0, t, wake[w].tries,
                    wake[w].expires, wake[w].ended)
        <5> HIDE DEF t, w
        <5> QED
          BY <1>3, RetryForm
      <4>4. wake'[w] = n => Evolves(w)
        <5> HIDE DEF t, n, w
        <5> QED
          BY <2>1, <4>2, <4>3 DEF Evolves
      <4> HIDE DEF n, w
      <4> QED
        BY <1>1, <1>3, <4>1, <4>4, OneEvolves
    <3> QED
      BY <3>1, <3>2
  <2> HIDE DEF w
  <2> QED
    BY <1>1, <1>3, <2>4, NextStepKeeps
<1> QED
  BY <1>4, <1>5

\* The answer of the provider is noted; one that refuses the token goes on record.
LEMMA AnswersKeeps ==
    ASSUME PushInv, NEW b \in Brokers, ProviderAnswers(b)
    PROVE  PushInv' /\ WakesEvolve
<1> DEFINE w == broker[b].current
<1>1. PICK outcome \in {"accepted", "invalid", "failed", "transient"} :
        /\ broker' = [broker EXCEPT ![b].stage = outcome]
        /\ refusedTokens' = IF outcome = "invalid"
                            THEN refusedTokens \cup {<<WakeDevice[w], wake[w].revision>>}
                            ELSE refusedTokens
  BY DEF ProviderAnswers
<1>2. /\ pushNow' = pushNow /\ wake' = wake
      /\ UNCHANGED <<identityHead, deviceRevoked, registration, mutated, mutation>>
      /\ stops' = stops /\ broker[b].stage = "permitted"
  BY DEF ProviderAnswers
<1>3. w \in Wakes /\ w \in broker[b].batch
  BY <1>2, CurrentExists
<1>4. WakesEvolve
  BY <1>2, StillEvolves
<1>5. /\ refusedTokens \subseteq refusedTokens' /\ refusedTokens' \subseteq Registrants \X Revisions
      /\ stops' \in 0 .. MaxStops
  <2>1. WakeDevice[w] \in Registrants /\ wake[w].revision \in Revisions
    BY <1>3, TypeForm DEF PushInv, WakeRow
  <2>2. refusedTokens \subseteq Registrants \X Revisions /\ stops \in 0 .. MaxStops
    BY TypeForm DEF PushInv
  <2> HIDE DEF w
  <2> QED
    BY <1>1, <1>2, <2>1, <2>2
<1>6. broker \in [Brokers -> BrokerRow] /\ broker[b] \in BrokerRow /\ BrokerHolds(b)
  BY TypeForm DEF PushInv
<1> DEFINE n == [stage |-> outcome, batch |-> broker[b].batch, current |-> w]
<1>7. broker' = [broker EXCEPT ![b] = n]
  <2>1. [broker[b] EXCEPT !.stage = outcome] = n
    BY <1>6 DEF BrokerRow
  <2> HIDE DEF n
  <2> QED
    BY <1>1, <1>6, <2>1
<1>8. broker'[b] = n => BrokerHolds(b)' /\ broker'[b] \in BrokerRow
  <2>1. n \in BrokerRow
    BY <1>6 DEF BrokerRow
  <2>2. n.stage = outcome /\ n.batch = broker[b].batch /\ n.current = w
    OBVIOUS
  <2>3. \A v \in broker[b].batch : wake'[v].state # "new"
    BY <1>2, <1>6 DEF BrokerHolds
  <2>4. outcome = "invalid" => <<WakeDevice[w], wake'[w].revision>> \in refusedTokens'
    BY <1>1, <1>2
  <2> HIDE DEF n, w
  <2> QED
    BY <1>3, <2>1, <2>2, <2>3, <2>4 DEF BrokerHolds
<1>9. broker' \in [Brokers -> BrokerRow] /\ \A c \in Brokers : BrokerHolds(c)'
  <2> HIDE DEF n, w
  <2> QED
    BY <1>4, <1>5, <1>7, <1>8, BrokersKept
<1> QED
  BY <1>2, <1>4, <1>5, <1>9, BrokerStepKeeps

\* A cycle that ends early.
LEMMA StopKeeps ==
    ASSUME PushInv, NEW b \in Brokers, BrokerStops(b)
    PROVE  PushInv' /\ WakesEvolve
<1>1. /\ pushNow' = pushNow
      /\ UNCHANGED <<identityHead, deviceRevoked, registration, mutated, mutation, refusedTokens>>
      /\ stops < MaxStops /\ stops' = stops + 1
      /\ broker' = [broker EXCEPT ![b] = IdleBroker]
      /\ wake' = [w \in Wakes |->
            IF wake[w].claim = b THEN [wake[w] EXCEPT !.claim = Gone] ELSE wake[w]]
  BY DEF BrokerStops
<1>2. WakesEvolve
  <2>1. \A w \in Wakes : wake'[w] = wake[w] \/ wake'[w] = [wake[w] EXCEPT !.claim = Gone]
    BY <1>1
  <2>2. \A w \in Wakes : Evolves(w)
    BY <2>1, GoneForm DEF Evolves
  <2> QED
    BY <1>1, <2>2 DEF WakesEvolve
<1>3. broker'[b] = IdleBroker => BrokerHolds(b)' /\ broker'[b] \in BrokerRow
  BY <1>2, PlaceTaken
<1>4. broker' \in [Brokers -> BrokerRow] /\ \A c \in Brokers : BrokerHolds(c)'
  BY <1>1, <1>2, <1>3, BrokersKept
<1>5. /\ refusedTokens \subseteq refusedTokens' /\ refusedTokens' \subseteq Registrants \X Revisions
      /\ stops' \in 0 .. MaxStops
  BY <1>1, TypeForm DEF PushInv
<1> QED
  BY <1>1, <1>2, <1>4, <1>5, BrokerStepKeeps

\* Steps that touch wakes only.
LEMMA WakeStepKeeps ==
    ASSUME PushInv, WakesEvolve,
           UNCHANGED <<identityHead, deviceRevoked, registration, mutated, mutation, broker,
                       refusedTokens, stops>>
    PROVE  PushInv'
<1>1. /\ refusedTokens \subseteq refusedTokens' /\ refusedTokens' \subseteq Registrants \X Revisions
      /\ stops' \in 0 .. MaxStops /\ broker' \in [Brokers -> BrokerRow]
  BY TypeForm DEF PushInv
<1>2. \A c \in Brokers : BrokerHolds(c)'
  BY <1>1, PlaceKept
<1> QED
  BY <1>1, <1>2, BrokerStepKeeps

\* A wake is added for the registration as it is.
LEMMA EnqueueKeeps ==
    ASSUME PushInv, NEW w \in Wakes, EnqueueWake(w)
    PROVE  PushInv' /\ WakesEvolve
<1> DEFINE r == registration[WakeDevice[w]].revision
           n == [Unsent EXCEPT !.state = "pending", !.revision = r, !.retry = pushNow,
                               !.expires = pushNow + WakeTtl]
<1>1. /\ pushNow' = pushNow /\ wake[w].state = "new" /\ wake' = [wake EXCEPT ![w] = n]
      /\ UNCHANGED <<identityHead, deviceRevoked, registration, mutated, mutation, broker,
                     refusedTokens, stops>>
  BY DEF EnqueueWake
<1>2. r \in Revisions
  BY TypeForm DEF PushInv, RegistrationRow
<1>3. n = Row("pending", r, NoBroker, 0, pushNow, 0, pushNow + WakeTtl, 0)
  <2> DEFINE n1 == [Unsent EXCEPT !.state = "pending"]
             n2 == [n1 EXCEPT !.revision = r]
             n3 == [n2 EXCEPT !.retry = pushNow]
             n4 == [n3 EXCEPT !.expires = pushNow + WakeTtl]
  <2> HIDE DEF r
  <2>1. n2 = Row("pending", r, NoBroker, 0, 0, 0, 0, 0)
    <3>1. n1 = Row("pending", 0, NoBroker, 0, 0, 0, 0, 0)
      BY DEF Unsent, Row
    <3> HIDE DEF n1
    <3> QED
      BY <3>1 DEF Row
  <2>2. n3 = Row("pending", r, NoBroker, 0, pushNow, 0, 0, 0)
    <3> HIDE DEF n2
    <3> QED
      BY <2>1 DEF Row
  <2>3. n4 = Row("pending", r, NoBroker, 0, pushNow, 0, pushNow + WakeTtl, 0)
    <3> HIDE DEF n3
    <3> QED
      BY <2>2 DEF Row
  <2> QED
    BY <2>3, Zenon
<1>4. wake'[w] = n => Evolves(w)
  <2> HIDE DEF n, r
  <2> QED
    BY <1>1, <1>2, <1>3 DEF Evolves
<1>5. WakesEvolve
  <2> HIDE DEF n
  <2> QED
    BY <1>1, <1>4, OneEvolves
<1> QED
  BY <1>1, <1>5, WakeStepKeeps

\* Finished wakes are pruned.
LEMMA PruneKeeps ==
    ASSUME PushInv, PruneWakes
    PROVE  PushInv' /\ WakesEvolve
<1> DEFINE old == {w \in Wakes : wake[w].state \in WakeEnds
                                 /\ wake[w].ended + WakeRetention <= pushNow}
           n == [Unsent EXCEPT !.state = "pruned"]
<1>1. /\ pushNow' = pushNow
      /\ wake' = [w \in Wakes |-> IF w \in old THEN n ELSE wake[w]]
      /\ UNCHANGED <<identityHead, deviceRevoked, registration, mutated, mutation, broker,
                     refusedTokens, stops>>
  BY DEF PruneWakes
<1>2. n = Row("pruned", 0, NoBroker, 0, 0, 0, 0, 0)
  BY DEF Unsent, Row
<1>3. ASSUME NEW w \in Wakes PROVE Evolves(w)
  <2>1. wake'[w] = wake[w] \/ (wake[w].state \in WakeEnds /\ wake'[w] = n)
    BY <1>1
  <2> HIDE DEF n
  <2> QED
    BY <1>2, <2>1 DEF Evolves
<1>4. WakesEvolve
  BY <1>1, <1>3 DEF WakesEvolve
<1> QED
  BY <1>1, <1>4, WakeStepKeeps

-----------------------------------------------------------------------------
(* Registrations *)

\* The fields of the rows.
LEMMA TableTypes ==
    ASSUME PushInv
    PROVE  /\ \A d \in Registrants :
                 /\ registration[d].state \in {"none", "active", "suspended", "revoked"}
                 /\ registration[d].revision \in Revisions /\ registration[d].revision \in Nat
                 /\ registration[d].sealed \in Revisions
                 /\ identityHead[d] \in 1 .. MaxHeads /\ identityHead[d] \in Nat
           /\ \A q \in Mutations :
                 /\ MutationOf[q].device \in Registrants
                 /\ MutationOf[q].put \in BOOLEAN /\ MutationOf[q].expected \in Nat
                 /\ mutation[q] \in RequestRow
                 /\ mutation[q].next \in Nat /\ mutation[q].head \in Nat
                 /\ mutated[q] \in Nat
<1>1. /\ registration \in [Registrants -> RegistrationRow] /\ mutation \in [Mutations -> RequestRow]
      /\ mutated \in [Mutations -> Revisions] /\ identityHead \in [Registrants -> 1 .. MaxHeads]
  BY TypeForm DEF PushInv
<1>2. Revisions \subseteq Nat /\ Cardinality(Mutations) + 1 \in Nat
  BY RequestsCounted
<1>3. ASSUME NEW q \in Mutations
      PROVE  /\ mutation[q].next \in Revisions \cup {Cardinality(Mutations) + 1}
             /\ mutation[q].head \in 0 .. MaxHeads
  BY <1>1 DEF RequestRow
<1>4. ASSUME NEW q \in Mutations
      PROVE  mutation[q].next \in Nat /\ mutation[q].head \in Nat /\ mutation[q] \in RequestRow
             /\ mutated[q] \in Nat
  <2>1. mutation[q].next \in Nat
    BY <1>2, <1>3
  <2>2. mutation[q].head \in Nat
    BY <1>3
  <2> QED
    BY <1>1, <1>2, <2>1, <2>2
<1>5. \A q \in Mutations :
        /\ MutationOf[q].device \in Registrants
        /\ MutationOf[q].put \in BOOLEAN /\ MutationOf[q].expected \in Nat
  OBVIOUS
<1>6. ASSUME NEW d \in Registrants
      PROVE  /\ registration[d].state \in {"none", "active", "suspended", "revoked"}
             /\ registration[d].revision \in Revisions /\ registration[d].sealed \in Revisions
             /\ registration[d].revision \in Nat
             /\ identityHead[d] \in 1 .. MaxHeads /\ identityHead[d] \in Nat
  <2>1. registration[d] \in RegistrationRow /\ identityHead[d] \in 1 .. MaxHeads
    BY <1>1
  <2>2. registration[d].revision \in Revisions
    BY <2>1 DEF RegistrationRow
  <2>3. identityHead[d] \in Nat
    BY <2>1
  <2> QED
    BY <1>2, <2>1, <2>2, <2>3 DEF RegistrationRow
<1> QED
  BY <1>4, <1>5, <1>6

\* Steps of request handlers leave what brokers and wakes know.
LEMMA TableStepKeeps ==
    ASSUME PushInv, WakesEvolve,
           broker' \in [Brokers -> BrokerRow], \A c \in Brokers : BrokerHolds(c)',
           UNCHANGED <<refusedTokens, stops>>,
           identityHead' \in [Registrants -> 1 .. MaxHeads], deviceRevoked' \subseteq Registrants,
           registration' \in [Registrants -> RegistrationRow],
           mutated' \in [Mutations -> Revisions], mutation' \in [Mutations -> RequestRow],
           \A d \in Registrants : RevisionCounted(d)', \A q \in Mutations : MutationRead(q)',
           SuspendedWasRefused', MutationsSerial'
    PROVE  PushInv'
<1>1. wake' \in [Wakes -> WakeRow] /\ \A w \in Wakes : WakeTried(w)'
  BY WakesKept DEF WakeKept
<1>2. /\ pushNow' \in 0 .. PushMaxTime /\ stops' \in 0 .. MaxStops
      /\ refusedTokens' \subseteq Registrants \X Revisions
  BY TypeForm DEF PushInv, WakesEvolve
<1>3. PushTypeOK'
  BY <1>1, <1>2 DEF PushTypeOK, RegistrationRow, RequestRow, WakeRow, BrokerRow
<1> QED
  BY <1>1, <1>3 DEF PushInv

\* What one handler has read changes, and nothing else.
LEMMA HandlerStepKeeps ==
    ASSUME PushInv, NEW q \in Mutations, NEW n \in RequestRow,
           mutation' = [mutation EXCEPT ![q] = n],
           UNCHANGED <<pushNow, identityHead, deviceRevoked, registration, mutated, wake, broker,
                       refusedTokens, stops>>,
           mutation'[q] = n => MutationRead(q)'
    PROVE  PushInv' /\ WakesEvolve
<1>1. WakesEvolve
  BY StillEvolves
<1>2. /\ broker' \in [Brokers -> BrokerRow] /\ identityHead' \in [Registrants -> 1 .. MaxHeads]
      /\ deviceRevoked' \subseteq Registrants /\ registration' \in [Registrants -> RegistrationRow]
      /\ mutated' \in [Mutations -> Revisions] /\ mutation \in [Mutations -> RequestRow]
  BY TypeForm DEF PushInv
<1>3. \A c \in Brokers : BrokerHolds(c)'
  BY <1>1, PlaceKept
<1>4. /\ mutation' \in [Mutations -> RequestRow] /\ mutation'[q] = n
      /\ \A p \in Mutations \ {q} : mutation'[p] = mutation[p]
  BY <1>2
<1>5. \A p \in Mutations : MutationRead(p)'
  <2>1. \A p \in Mutations \ {q} : MutationRead(p)'
    BY <1>4 DEF PushInv, MutationRead
  <2> QED
    BY <1>4, <2>1
<1>6. \A d \in Registrants : RevisionCounted(d)'
  BY DEF PushInv, RevisionCounted, Applied
<1>7. SuspendedWasRefused' /\ MutationsSerial'
  BY DEF PushInv, SuspendedWasRefused, MutationsSerial
<1> QED
  BY <1>1, <1>2, <1>3, <1>4, <1>5, <1>6, <1>7, TableStepKeeps

\* A request is prepared for the revision it found.
LEMMA PrepareKeeps ==
    ASSUME PushInv, NEW q \in Mutations, PrepareMutation(q)
    PROVE  PushInv' /\ WakesEvolve
<1> DEFINE d == MutationOf[q].device
           next == IF LiveRegistration(d) THEN registration[d].revision + 1 ELSE 1
           n == [stage |-> "prepared", live |-> LiveRegistration(d), head |-> 0, next |-> next]
<1>1. /\ mutation' = [mutation EXCEPT ![q] = n]
      /\ UNCHANGED <<pushNow, identityHead, deviceRevoked, registration, mutated, wake, broker,
                     refusedTokens, stops>>
  BY DEF PrepareMutation
<1>2. d \in Registrants /\ registration[d].revision \in Revisions /\ identityHead[d] \in Nat
      /\ registration[d].revision \in Nat
  BY TableTypes
<1>3. LiveRegistration(d) \in BOOLEAN
  BY DEF LiveRegistration
<1>4. next \in Revisions \cup {Cardinality(Mutations) + 1} /\ next <= registration[d].revision + 1
  <2> HIDE DEF d
  <2> QED
    BY <1>2, RequestsCounted
<1>5. n \in RequestRow
  <2> HIDE DEF next, d
  <2>1. 0 \in 0 .. MaxHeads
    OBVIOUS
  <2> QED
    BY <1>3, <1>4, <2>1 DEF RequestRow
<1>6. mutation'[q] = n => MutationRead(q)'
  <2>1. n.stage = "prepared" /\ n.next = next /\ n.head = 0
    OBVIOUS
  <2>2. 0 <= identityHead[d]
    BY <1>2
  <2> HIDE DEF next, n
  <2> QED
    BY <1>1, <1>4, <2>1, <2>2 DEF MutationRead
<1> HIDE DEF n
<1> QED
  BY <1>1, <1>5, <1>6, HandlerStepKeeps

\* The identity is observed at its current head.
LEMMA ObserveKeeps ==
    ASSUME PushInv, NEW q \in Mutations, ObserveAndSeal(q)
    PROVE  PushInv' /\ WakesEvolve
<1> DEFINE d == MutationOf[q].device
           m == mutation[q]
           n == [stage |-> "sealed", live |-> m.live, next |-> m.next, head |-> identityHead[d]]
<1>1. /\ mutation' = [mutation EXCEPT ![q].stage = "sealed", ![q].head = identityHead[d]]
      /\ UNCHANGED <<pushNow, identityHead, deviceRevoked, registration, mutated, wake, broker,
                     refusedTokens, stops>>
      /\ m.stage = "prepared" /\ d \notin deviceRevoked
  BY DEF ObserveAndSeal
<1>2. mutation \in [Mutations -> RequestRow] /\ m \in RequestRow /\ MutationRead(q)
  BY TypeForm DEF PushInv
<1>3. d \in Registrants /\ identityHead[d] \in 1 .. MaxHeads /\ identityHead[d] \in Nat
  BY TableTypes
<1>4. mutation' = [mutation EXCEPT ![q] = n]
  <2> DEFINE m1 == [mutation EXCEPT ![q].stage = "sealed"]
             n1 == [stage |-> "sealed", live |-> m.live, next |-> m.next, head |-> m.head]
  <2>1. [m EXCEPT !.stage = "sealed"] = n1
    BY <1>2 DEF RequestRow
  <2>2. m1 = [mutation EXCEPT ![q] = n1]
    <3> HIDE DEF n1
    <3> QED
      BY <1>2, <2>1
  <2>3. m1[q] = n1 /\ DOMAIN m1 = Mutations
    <3> HIDE DEF n1, m1
    <3> QED
      BY <1>2, <2>2
  <2>4. mutation' = [m1 EXCEPT ![q].head = identityHead[d]]
    BY <1>1, Zenon
  <2>5. [n1 EXCEPT !.head = identityHead[d]] = n
    <3> HIDE DEF d, m
    <3> QED
      OBVIOUS
  <2>6. mutation' = [m1 EXCEPT ![q] = n]
    <3> HIDE DEF n1, m1, n
    <3> QED
      BY <2>3, <2>4, <2>5
  <2> HIDE DEF n1, m1, n
  <2> QED
    BY <1>2, <2>2, <2>6
<1>5. n \in RequestRow
  <2>1. identityHead[d] \in 0 .. MaxHeads
    BY <1>3
  <2> HIDE DEF d
  <2> QED
    BY <1>2, <2>1 DEF RequestRow
<1>6. mutation'[q] = n => MutationRead(q)'
  <2>1. n.stage = "sealed" /\ n.next = m.next /\ n.head = identityHead[d]
    OBVIOUS
  <2>2. m.next <= registration[d].revision + 1
    BY <1>1, <1>2 DEF MutationRead
  <2>3. identityHead[d] <= identityHead[d]
    BY <1>3
  <2> HIDE DEF n, m
  <2> QED
    BY <1>1, <2>1, <2>2, <2>3 DEF MutationRead
<1> HIDE DEF n
<1> QED
  BY <1>1, <1>4, <1>5, <1>6, HandlerStepKeeps

\* A handler that is done starts anew.
LEMMA FreshRow ==
    ASSUME PushInv
    PROVE  /\ Fresh \in RequestRow
           /\ \A q \in Mutations : mutation'[q] = Fresh /\ identityHead' = identityHead
                                      => MutationRead(q)'
<1>1. 0 \in 0 .. MaxHeads /\ 0 \in Revisions
  BY RequestsCounted
<1>2. Fresh \in RequestRow
  BY <1>1 DEF Fresh, RequestRow
<1>3. Fresh.stage = "new" /\ Fresh.head = 0
  BY DEF Fresh
<1>4. \A q \in Mutations : 0 <= identityHead[MutationOf[q].device]
  BY TableTypes
<1> QED
  BY <1>2, <1>3, <1>4 DEF MutationRead

\* A request that is refused.
LEMMA RefusedKeeps ==
    ASSUME PushInv, NEW q \in Mutations, MutationRefused(q)
    PROVE  PushInv' /\ WakesEvolve
<1>1. /\ mutation' = [mutation EXCEPT ![q] = Fresh]
      /\ UNCHANGED <<pushNow, identityHead, deviceRevoked, registration, mutated, wake, broker,
                     refusedTokens, stops>>
  BY DEF MutationRefused
<1> QED
  BY <1>1, FreshRow, HandlerStepKeeps

\* The identity log grows: heads that were observed are no longer current.
LEMMA IdentityKeeps ==
    ASSUME PushInv, NEW d \in Registrants, IdentityMoves(d)
    PROVE  PushInv' /\ WakesEvolve
<1>1. /\ identityHead[d] < MaxHeads /\ identityHead' = [identityHead EXCEPT ![d] = @ + 1]
      /\ deviceRevoked' \in {deviceRevoked, deviceRevoked \cup {d}}
      /\ UNCHANGED <<pushNow, registration, mutated, mutation, wake, broker, refusedTokens, stops>>
  BY DEF IdentityMoves
<1>2. WakesEvolve
  BY <1>1, StillEvolves
<1>3. /\ broker' \in [Brokers -> BrokerRow] /\ identityHead \in [Registrants -> 1 .. MaxHeads]
      /\ deviceRevoked \subseteq Registrants /\ registration' \in [Registrants -> RegistrationRow]
      /\ mutated' \in [Mutations -> Revisions] /\ mutation' \in [Mutations -> RequestRow]
  BY <1>1, TypeForm DEF PushInv
<1>4. \A c \in Brokers : BrokerHolds(c)'
  BY <1>1, <1>2, PlaceKept
<1>5. /\ identityHead' \in [Registrants -> 1 .. MaxHeads] /\ deviceRevoked' \subseteq Registrants
      /\ identityHead'[d] = identityHead[d] + 1
      /\ \A e \in Registrants \ {d} : identityHead'[e] = identityHead[e]
                                      /\ (e \in deviceRevoked' => e \in deviceRevoked)
  BY <1>1, <1>3
<1>6. ASSUME NEW q \in Mutations PROVE MutationRead(q)'
  <2> DEFINE e == MutationOf[q].device
  <2>1. e \in Registrants /\ mutation[q].head \in Nat /\ identityHead[e] \in Nat
    BY TableTypes
  <2>2. MutationRead(q)
    BY DEF PushInv
  <2>3. CASE e = d
    BY <1>1, <1>5, <2>1, <2>2, <2>3 DEF MutationRead
  <2>4. CASE e # d
    BY <1>1, <1>5, <2>1, <2>2, <2>4 DEF MutationRead
  <2> QED
    BY <2>3, <2>4
<1>7. \A e \in Registrants : RevisionCounted(e)'
  BY <1>1 DEF PushInv, RevisionCounted, Applied
<1>8. SuspendedWasRefused' /\ MutationsSerial'
  BY <1>1 DEF PushInv, SuspendedWasRefused, MutationsSerial
<1> QED
  BY <1>1, <1>2, <1>3, <1>4, <1>5, <1>6, <1>7, <1>8, TableStepKeeps

\* Time passes: attempts stay within the instants that have passed.
LEMMA TickKeeps ==
    ASSUME PushInv, PushTick
    PROVE  PushInv'
<1>1. /\ pushNow < PushMaxTime /\ pushNow' = pushNow + 1
      /\ UNCHANGED <<identityHead, deviceRevoked, registration, mutated, mutation, wake, broker,
                     refusedTokens, stops>>
  BY DEF PushTick
<1>2. pushNow \in Nat /\ pushNow' \in 0 .. PushMaxTime
  BY <1>1, TypeForm DEF PushInv
<1>3. PushTypeOK'
  BY <1>1, <1>2 DEF PushInv, PushTypeOK
<1>4. ASSUME NEW w \in Wakes PROVE WakeTried(w)'
  <2>1. WakeTried(w) /\ wake[w] \in WakeRow
    BY TypeForm DEF PushInv
  <2>2. wake[w].until \in Nat /\ wake[w].retry \in Nat /\ wake[w].expires \in Nat
        /\ wake[w].tries \in Nat
    <3>1. wake[w].tries \in 0 .. MaxTries
      BY <2>1 DEF WakeRow
    <3> QED
      BY <2>1, <3>1 DEF WakeRow
  <2> QED
    BY <1>1, <1>2, <2>1, <2>2 DEF WakeTried, Attempted
<1>5. \A b \in Brokers : BrokerHolds(b)'
  BY <1>1 DEF PushInv, BrokerHolds
<1>6. \A d \in Registrants : RevisionCounted(d)'
  BY <1>1 DEF PushInv, RevisionCounted, Applied
<1>7. \A q \in Mutations : MutationRead(q)'
  BY <1>1 DEF PushInv, MutationRead
<1>8. SuspendedWasRefused' /\ MutationsSerial'
  BY <1>1 DEF PushInv, SuspendedWasRefused, MutationsSerial
<1> QED
  BY <1>3, <1>4, <1>5, <1>6, <1>7, <1>8 DEF PushInv

\* A commit applies one more request to the registration of its device, so the revision it
\* makes is within the number of requests.
LEMMA CommitCounts ==
    ASSUME PushInv, NEW q \in Mutations, CommitMutation(q)
    PROVE  LET d == MutationOf[q].device
               r == registration[d].revision + 1
           IN /\ r \in Revisions /\ r \in Nat /\ r # 0
              /\ mutated' \in [Mutations -> Revisions] /\ mutated'[q] = r
              /\ \A p \in Mutations \ {q} : mutated'[p] = mutated[p]
              /\ r <= Cardinality(Applied(d)')
              /\ \A e \in Registrants \ {d} : Applied(e)' = Applied(e)
<1> DEFINE d == MutationOf[q].device
           r == registration[d].revision + 1
<1>1. mutated' = [mutated EXCEPT ![q] = r] /\ mutated[q] = 0
  BY DEF CommitMutation
<1>2. d \in Registrants /\ registration[d].revision \in Nat
  BY TableTypes
<1>3. mutated \in [Mutations -> Revisions]
  BY TypeForm DEF PushInv
<1>4. r \in Nat /\ r # 0
  <2> HIDE DEF d
  <2> QED
    BY <1>2
<1> HIDE DEF r, d
<1>5. mutated'[q] = r /\ \A p \in Mutations \ {q} : mutated'[p] = mutated[p]
  BY <1>1, <1>3
<1>6. Applied(d)' = Applied(d) \cup {q} /\ q \notin Applied(d)
  BY <1>1, <1>4, <1>5 DEF Applied, d
<1>7. \A e \in Registrants \ {d} : Applied(e)' = Applied(e)
  BY <1>5 DEF Applied, d
<1>8. /\ IsFiniteSet(Applied(d)) /\ IsFiniteSet(Applied(d)')
      /\ Cardinality(Applied(d)') <= Cardinality(Mutations)
      /\ Cardinality(Applied(d)) \in Nat /\ Cardinality(Applied(d)') \in Nat
  <2>1. Applied(d) \subseteq Mutations /\ Applied(d)' \subseteq Mutations
    BY DEF Applied
  <2> QED
    BY <2>1, FS_Subset, FS_CardinalityType
<1>9. Cardinality(Applied(d)') = Cardinality(Applied(d)) + 1
  BY <1>6, <1>8, FS_AddElement
<1>10. registration[d].revision <= Cardinality(Applied(d))
  BY <1>2 DEF PushInv, RevisionCounted
<1>11. r <= Cardinality(Applied(d)')
  BY <1>2, <1>8, <1>9, <1>10 DEF r
<1>12. r \in Revisions
  BY <1>4, <1>8, <1>11, RequestsCounted
<1>13. mutated' \in [Mutations -> Revisions]
  BY <1>1, <1>3, <1>12
<1> QED
  BY <1>4, <1>5, <1>7, <1>11, <1>12, <1>13 DEF r, d

\* The registration a commit leaves behind.
LEMMA CommitRegisters ==
    ASSUME PushInv, NEW q \in Mutations, CommitMutation(q)
    PROVE  LET d == MutationOf[q].device
           IN /\ registration' \in [Registrants -> RegistrationRow]
              /\ registration'[d].state \in {"active", "revoked"}
              /\ registration'[d].revision = registration[d].revision + 1
              /\ \A e \in Registrants \ {d} : registration'[e] = registration[e]
              /\ MutationOf[q].expected = registration[d].revision
<1> DEFINE d == MutationOf[q].device
           r == registration[d].revision + 1
<1>1. /\ d \in Registrants /\ registration \in [Registrants -> RegistrationRow]
      /\ mutation[q].next \in Nat /\ registration[d].revision \in Nat
      /\ registration[d].sealed \in Revisions
      /\ registration[d].state \in {"none", "active", "suspended", "revoked"}
      /\ MutationRead(q) /\ RevisionCounted(d)
  BY TypeForm, TableTypes DEF PushInv
<1>2. r \in Revisions
  BY CommitCounts
<1>3. mutation[q].next <= r
  BY <1>1 DEF MutationRead, CommitMutation
<1>4. mutation[q].next \in Revisions
  <2> HIDE DEF r
  <2> QED
    BY <1>1, <1>2, <1>3, RequestsCounted
<1>5. MutationOf[q].expected = registration[d].revision
  BY <1>1 DEF CommitMutation, RevisionMatches, RevisionCounted
<1> DEFINE n == IF MutationOf[q].put
                THEN [state |-> "active", revision |-> r, sealed |-> mutation[q].next]
                ELSE [state |-> "revoked", revision |-> r, sealed |-> registration[d].sealed]
<1>6. registration' = [registration EXCEPT ![d] = n]
  <2>1. CASE MutationOf[q].put
    BY <2>1 DEF CommitMutation
  <2>2. CASE ~MutationOf[q].put
    <3> DEFINE g1 == [registration EXCEPT ![d].state = "revoked"]
               n1 == [state |-> "revoked", revision |-> registration[d].revision,
                      sealed |-> registration[d].sealed]
    <3>1. registration' = [g1 EXCEPT ![d].revision = r]
      <4>1. registration' = [registration EXCEPT ![d].state = "revoked", ![d].revision = r]
        BY <2>2 DEF CommitMutation
      <4> QED
        BY <4>1, Zenon
    <3>2. [registration[d] EXCEPT !.state = "revoked"] = n1
      BY <1>1 DEF RegistrationRow
    <3>3. g1 = [registration EXCEPT ![d] = n1]
      <4> HIDE DEF n1
      <4> QED
        BY <1>1, <3>2
    <3>4. g1[d] = n1 /\ DOMAIN g1 = Registrants
      <4> HIDE DEF n1, g1
      <4> QED
        BY <1>1, <3>3
    <3>5. [n1 EXCEPT !.revision = r] = n
      <4> HIDE DEF d, r
      <4> QED
        BY <2>2
    <3>6. registration' = [g1 EXCEPT ![d] = n]
      <4> HIDE DEF n1, g1, n, r
      <4> QED
        BY <3>1, <3>4, <3>5
    <3> HIDE DEF n1, g1, n
    <3> QED
      BY <1>1, <3>3, <3>6
  <2> QED
    BY <2>1, <2>2
<1>7. n \in RegistrationRow /\ n.state \in {"active", "revoked"} /\ n.revision = r
  <2> HIDE DEF d, r
  <2> QED
    BY <1>1, <1>2, <1>4 DEF RegistrationRow
<1> HIDE DEF n
<1>8. /\ registration' \in [Registrants -> RegistrationRow] /\ registration'[d] = n
      /\ \A e \in Registrants \ {d} : registration'[e] = registration[e]
  BY <1>1, <1>6, <1>7
<1> QED
  BY <1>5, <1>7, <1>8

\* A commit keeps the tables sound: it is applied to the revision its client expects, which
\* no other request was applied to.
LEMMA CommitKeeps ==
    ASSUME PushInv, NEW q \in Mutations, CommitMutation(q)
    PROVE  PushInv' /\ WakesEvolve
<1> DEFINE d == MutationOf[q].device
           r == registration[d].revision + 1
<1>1. /\ mutation' = [mutation EXCEPT ![q] = Fresh] /\ pushNow' = pushNow
      /\ UNCHANGED <<identityHead, deviceRevoked, broker, refusedTokens, stops>>
      /\ wake' = wake \/ wake' = EndedFor(d, registration[d].revision, "revoked")
      /\ mutated[q] = 0
  BY DEF CommitMutation
<1>2. WakesEvolve
  <2>1. "revoked" \in WakeEnds
    BY DEF WakeEnds
  <2> QED
    BY <1>1, <2>1, StillEvolves, EndedEvolves
<1>3. /\ broker' \in [Brokers -> BrokerRow] /\ identityHead' \in [Registrants -> 1 .. MaxHeads]
      /\ deviceRevoked' \subseteq Registrants /\ mutation \in [Mutations -> RequestRow]
  BY <1>1, TypeForm DEF PushInv
<1>4. \A c \in Brokers : BrokerHolds(c)'
  BY <1>1, <1>2, PlaceKept
<1>5. /\ r \in Revisions /\ r \in Nat /\ r # 0
      /\ mutated' \in [Mutations -> Revisions] /\ mutated'[q] = r
      /\ \A p \in Mutations \ {q} : mutated'[p] = mutated[p]
      /\ r <= Cardinality(Applied(d)')
      /\ \A e \in Registrants \ {d} : Applied(e)' = Applied(e)
  BY CommitCounts
<1>6. /\ registration' \in [Registrants -> RegistrationRow]
      /\ registration'[d].state \in {"active", "revoked"}
      /\ registration'[d].revision = r
      /\ \A e \in Registrants \ {d} : registration'[e] = registration[e]
      /\ MutationOf[q].expected = registration[d].revision
  BY CommitRegisters
<1>7. mutation' \in [Mutations -> RequestRow] /\ mutation'[q] = Fresh
      /\ \A p \in Mutations \ {q} : mutation'[p] = mutation[p]
  BY <1>1, <1>3, FreshRow
<1>8. d \in Registrants /\ registration[d].revision \in Nat
  BY TableTypes
<1>9. \A p \in Mutations : MutationOf[p].device = d => mutated[p] <= registration[d].revision
  BY <1>8 DEF PushInv, RevisionCounted
<1>10. \A p \in Mutations : mutated[p] \in Nat /\ MutationOf[p].device \in Registrants
  BY TableTypes
<1>11. ASSUME NEW e \in Registrants PROVE RevisionCounted(e)'
  <2>1. CASE e = d
    <3>1. ASSUME NEW p \in Mutations, MutationOf[p].device = d PROVE mutated'[p] <= r
      <4>1. CASE p = q
        BY <1>5, <4>1
      <4>2. CASE p # q
        <5>1. mutated'[p] = mutated[p] /\ mutated[p] <= registration[d].revision
          BY <1>5, <1>9, <3>1, <4>2
        <5> HIDE DEF d
        <5> QED
          BY <1>8, <1>10, <5>1
      <4> QED
        BY <4>1, <4>2
    <3>2. r <= Cardinality(Applied(e)') /\ registration'[e].revision = r
          /\ registration'[e].state # "none"
      BY <1>5, <1>6, <2>1
    <3> HIDE DEF r, d
    <3> QED
      BY <2>1, <3>1, <3>2 DEF RevisionCounted
  <2>2. CASE e # d
    <3>1. Applied(e)' = Applied(e) /\ registration'[e] = registration[e] /\ RevisionCounted(e)
      BY <1>5, <1>6, <2>2 DEF PushInv
    <3>2. \A p \in Mutations : MutationOf[p].device = e => mutated'[p] = mutated[p]
      BY <1>5, <2>2
    <3> QED
      BY <3>1, <3>2 DEF RevisionCounted
  <2> QED
    BY <2>1, <2>2
<1>12. ASSUME NEW p \in Mutations PROVE MutationRead(p)'
  <2>1. CASE p = q
    BY <1>1, <1>7, <2>1, FreshRow
  <2>2. CASE p # q
    <3> DEFINE e == MutationOf[p].device
    <3>1. MutationRead(p) /\ mutation'[p] = mutation[p] /\ e \in Registrants
          /\ mutation[p].next \in Nat /\ registration[e].revision \in Nat
      BY <1>7, <1>10, <2>2, TableTypes DEF PushInv
    <3>2. registration'[e].revision = registration[e].revision
          \/ registration'[e].revision = registration[e].revision + 1
      BY <1>6, <3>1
    <3>3. mutation'[p].stage # "new" => mutation'[p].next <= registration'[e].revision + 1
      <4>1. mutation[p].stage # "new" => mutation[p].next <= registration[e].revision + 1
        BY <3>1 DEF MutationRead
      <4> HIDE DEF e
      <4> QED
        BY <3>1, <3>2, <4>1
    <3> QED
      BY <1>1, <3>1, <3>3 DEF MutationRead
  <2> QED
    BY <2>1, <2>2
<1>13. SuspendedWasRefused'
  <2>1. SuspendedWasRefused
    BY DEF PushInv
  <2> HIDE DEF d, r
  <2> QED
    BY <1>1, <1>6, <2>1 DEF SuspendedWasRefused
<1>14. MutationsSerial'
  <2>1. ASSUME NEW p \in Mutations, mutated'[p] # 0
        PROVE  /\ mutated'[p] = MutationOf[p].expected + 1
               /\ \A o \in Mutations \ {p} :
                     MutationOf[o].device = MutationOf[p].device => mutated'[o] # mutated'[p]
    <3>1. \A o \in Mutations \ {q} :
             MutationOf[o].device = d => mutated'[o] <= registration[d].revision
                                         /\ mutated'[o] \in Nat
      BY <1>5, <1>9, <1>10
    <3>2. \A o \in Mutations \ {q} : MutationOf[o].device = d => mutated'[o] # r
      <4> HIDE DEF d
      <4> QED
        BY <1>8, <3>1
    <3>3. CASE p = q
      BY <1>5, <1>6, <3>2, <3>3
    <3>4. CASE p # q
      <4>1. mutated'[p] = mutated[p] /\ mutated[p] # 0
        BY <1>5, <2>1, <3>4
      <4>2. /\ mutated[p] = MutationOf[p].expected + 1
            /\ \A o \in Mutations \ {p} :
                  MutationOf[o].device = MutationOf[p].device => mutated[o] # mutated[p]
        BY <4>1 DEF PushInv, MutationsSerial
      <4>3. ASSUME NEW o \in Mutations \ {p}, MutationOf[o].device = MutationOf[p].device
            PROVE  mutated'[o] # mutated'[p]
        <5>1. CASE o = q
          BY <1>5, <3>2, <3>4, <4>3, <5>1
        <5>2. CASE o # q
          BY <1>5, <4>1, <4>2, <4>3, <5>2
        <5> QED
          BY <5>1, <5>2
      <4> QED
        BY <4>1, <4>2, <4>3
    <3> QED
      BY <3>3, <3>4
  <2> QED
    BY <2>1 DEF MutationsSerial
<1> QED
  BY <1>1, <1>2, <1>3, <1>4, <1>5, <1>6, <1>7, <1>11, <1>12, <1>13, <1>14, TableStepKeeps

\* A token that the provider refused suspends the registration only while the wake is of its
\* revision, and that revision is on record as refused.
LEMMA InvalidKeeps ==
    ASSUME PushInv, NEW b \in Brokers, FinishInvalidToken(b)
    PROVE  PushInv' /\ WakesEvolve
<1> DEFINE w == broker[b].current
           d == WakeDevice[w]
<1>1. /\ broker[b].stage = "invalid" /\ NextOfBatch(b, w) /\ pushNow' = pushNow
      /\ UNCHANGED <<identityHead, deviceRevoked, mutated, mutation, refusedTokens, stops>>
  BY DEF FinishInvalidToken
<1>2. w \in Wakes /\ d \in Registrants
  BY <1>1, CurrentExists
<1>3. CASE ~Suspends(b, w)
  <2>1. UNCHANGED <<registration, wake>>
    BY <1>3 DEF FinishInvalidToken
  <2>2. WakesEvolve
    BY <1>1, <2>1, StillEvolves
  <2> HIDE DEF w
  <2> QED
    BY <1>1, <1>2, <2>1, <2>2, NextStepKeeps
<1>4. CASE Suspends(b, w)
  <2>1. /\ registration' = [registration EXCEPT ![d].state = "suspended"]
        /\ wake' = EndedFor(d, wake[w].revision, "permanent_failure")
    BY <1>4 DEF FinishInvalidToken
  <2>2. WakesEvolve
    <3>1. "permanent_failure" \in WakeEnds
      BY DEF WakeEnds
    <3> QED
      BY <1>1, <2>1, <3>1, EndedEvolves
  <2>3. broker' \in [Brokers -> BrokerRow] /\ \A c \in Brokers : BrokerHolds(c)'
    <3> HIDE DEF w
    <3> QED
      BY <1>1, <1>2, <2>2, NextKept
  <2>4. /\ registration \in [Registrants -> RegistrationRow]
        /\ identityHead' \in [Registrants -> 1 .. MaxHeads] /\ deviceRevoked' \subseteq Registrants
        /\ mutated' \in [Mutations -> Revisions] /\ mutation' \in [Mutations -> RequestRow]
    BY <1>1, TypeForm DEF PushInv
  <2> DEFINE n == [state |-> "suspended", revision |-> registration[d].revision,
                   sealed |-> registration[d].sealed]
  <2>5. registration' = [registration EXCEPT ![d] = n]
    <3>1. [registration[d] EXCEPT !.state = "suspended"] = n
      BY <1>2, <2>4, SMTT(40) DEF RegistrationRow
    <3> HIDE DEF n, d
    <3> QED
      BY <1>2, <2>1, <2>4, <3>1
  <2>6. n \in RegistrationRow /\ n.state = "suspended" /\ n.revision = registration[d].revision
    <3>1. registration[d] \in RegistrationRow
      BY <1>2, <2>4
    <3> HIDE DEF d
    <3> QED
      BY <3>1 DEF RegistrationRow
  <2>7. /\ registration' \in [Registrants -> RegistrationRow] /\ registration'[d] = n
        /\ \A e \in Registrants \ {d} : registration'[e] = registration[e]
    <3> HIDE DEF n, d
    <3> QED
      BY <1>2, <2>4, <2>5, <2>6
  <2>8. \A e \in Registrants : registration'[e].revision = registration[e].revision
                               /\ (registration'[e].state = "none" => registration[e].state = "none")
    <3> HIDE DEF n, d
    <3> QED
      BY <2>6, <2>7
  <2>9. \A e \in Registrants : RevisionCounted(e)'
    BY <1>1, <2>8, ZenonT(60) DEF PushInv, RevisionCounted, Applied
  <2>10. \A q \in Mutations : MutationRead(q)'
    <3>1. \A q \in Mutations : MutationOf[q].device \in Registrants /\ MutationRead(q)
      BY TableTypes DEF PushInv
    <3> QED
      BY <1>1, <2>8, <3>1 DEF MutationRead
  <2>11. SuspendedWasRefused'
    <3>1. <<d, registration[d].revision>> \in refusedTokens
      BY <1>1, <1>4 DEF Suspends, PushInv, BrokerHolds, Unfinished
    <3> HIDE DEF n, d
    <3> QED
      BY <1>1, <2>6, <2>7, <3>1 DEF PushInv, SuspendedWasRefused
  <2>12. MutationsSerial'
    BY <1>1 DEF PushInv, MutationsSerial
  <2> QED
    BY <1>1, <2>2, <2>3, <2>4, <2>7, <2>9, <2>10, <2>11, <2>12, TableStepKeeps
<1> QED
  BY <1>3, <1>4

-----------------------------------------------------------------------------
(* The theorems *)

\* The invariant holds when nothing is registered.
LEMMA PushStarts == PushInit => PushInv
<1> SUFFICES ASSUME PushInit PROVE PushInv
  OBVIOUS
<1>1. 0 \in Revisions /\ Revisions \subseteq Nat /\ 1 \in 1 .. MaxHeads /\ 0 \in 0 .. MaxHeads
      /\ 0 \in 0 .. MaxTries /\ 0 \in 0 .. PushMaxTime /\ 0 \in 0 .. MaxStops
  BY RequestsCounted DEF MaxTries
<1>2. Unregistered \in RegistrationRow /\ Fresh \in RequestRow /\ IdleBroker \in BrokerRow
  BY <1>1 DEF Unregistered, Fresh, IdleBroker, RegistrationRow, RequestRow, BrokerRow
<1>3. Unsent \in WakeRow
  BY <1>1 DEF Unsent, WakeRow
<1>4. PushTypeOK
  BY <1>1, <1>2, <1>3 DEF PushInit, PushTypeOK, RegistrationRow, RequestRow, WakeRow, BrokerRow
<1>5. \A w \in Wakes : WakeTried(w)
  BY DEF PushInit, WakeTried, Unsent
<1>6. \A b \in Brokers : BrokerHolds(b)
  BY DEF PushInit, BrokerHolds, IdleBroker
<1>7. ASSUME NEW d \in Registrants PROVE RevisionCounted(d)
  <2>1. Applied(d) = {}
    BY DEF PushInit, Applied
  <2>2. Cardinality(Applied(d)) = 0
    BY <2>1, FS_EmptySet
  <2>3. registration[d].revision = 0
    BY DEF PushInit, Unregistered
  <2>4. ASSUME NEW q \in Mutations PROVE mutated[q] <= 0
    BY DEF PushInit
  <2> QED
    BY <2>2, <2>3, <2>4 DEF RevisionCounted
<1>8. ASSUME NEW q \in Mutations PROVE MutationRead(q)
  <2>1. mutation[q].stage = "new" /\ mutation[q].head = 0
    BY DEF PushInit, Fresh
  <2>2. 0 <= identityHead[MutationOf[q].device]
    <3>1. MutationOf[q].device \in Registrants
      OBVIOUS
    <3> QED
      BY <3>1 DEF PushInit
  <2> QED
    BY <2>1, <2>2 DEF MutationRead
<1>9. SuspendedWasRefused /\ MutationsSerial
  BY DEF PushInit, SuspendedWasRefused, MutationsSerial, Unregistered
<1> QED
  BY <1>4, <1>5, <1>6, <1>7, <1>8, <1>9 DEF PushInv

\* Every step but the clock's is one of the ways a wake evolves, and keeps the invariant.
LEMMA PushStep ==
    ASSUME PushInv, PushNext
    PROVE  PushInv' /\ (WakesEvolve \/ wake' = wake)
<1>1. ASSUME NEW q \in Mutations,
             PrepareMutation(q) \/ ObserveAndSeal(q) \/ CommitMutation(q) \/ MutationRefused(q)
      PROVE  PushInv' /\ WakesEvolve
  BY <1>1, PrepareKeeps, ObserveKeeps, CommitKeeps, RefusedKeeps
<1>2. ASSUME NEW b \in Brokers,
             \/ ClaimWakes(b)
             \/ \E w \in Wakes : AuthorizeSend(b, w) \/ DecryptFails(b, w)
             \/ ProviderAnswers(b) \/ FinishAnswered(b) \/ FinishTransient(b)
             \/ FinishInvalidToken(b) \/ BrokerStops(b)
      PROVE  PushInv' /\ WakesEvolve
  BY <1>2, ClaimKeeps, AuthorizeKeeps, DecryptKeeps, AnswersKeeps, AnsweredKeeps, TransientKeeps,
     InvalidKeeps, StopKeeps
<1>3. CASE PushTick
  BY <1>3, TickKeeps DEF PushTick
<1> QED
  BY <1>1, <1>2, <1>3, IdentityKeeps, EnqueueKeeps, PruneKeeps DEF PushNext

\* A step that changes nothing.
LEMMA PushStutter == PushInv /\ UNCHANGED pushVars => PushInv'
<1> SUFFICES ASSUME PushInv, UNCHANGED pushVars PROVE PushInv'
  OBVIOUS
<1>1. UNCHANGED <<pushNow, identityHead, deviceRevoked, registration, mutated, mutation, wake,
                  broker, refusedTokens, stops>>
  BY DEF pushVars
<1>2. WakesEvolve
  BY <1>1, StillEvolves
<1> QED
  BY <1>1, <1>2, WakeStepKeeps

\* The invariant of opaque push: every request that was applied made a revision of its own,
\* handlers and brokers know nothing that is ahead of the tables, and a wake was attempted at
\* most once in every instant of its lifetime, for any requests, brokers and answers
\* (opaque_push_commit_put, claim_opaque_push_deliveries, authorize_opaque_push_send).
THEOREM PushSafety == PushSpec => []PushInv
<1>1. PushInv /\ [PushNext]_pushVars => PushInv'
  BY PushStep, PushStutter
<1> QED
  BY <1>1, PushStarts, PTL DEF PushSpec

\* Registrations are sound however requests and answers interleave: every mutation was applied
\* to the revision its client expected and no two to the same one, and a registration is
\* suspended only when the token of that very revision was refused (register_typed,
\* finish_opaque_push_invalid_token).
THEOREM PushRegistrations == PushSpec => []RegistrationsSound
<1>1. PushInv => RegistrationsSound
  BY DEF PushInv, RegistrationsSound
<1> QED
  BY <1>1, PushSafety, PTL

\* A revision is made only by a commit, which found the head it had observed.
LEMMA RevisionsCommitted ==
    ASSUME PushInv, PushNext, NEW d \in Registrants,
           registration'[d].revision > registration[d].revision
    PROVE  d \notin deviceRevoked
<1>1. registration[d].revision \in Nat /\ registration \in [Registrants -> RegistrationRow]
  BY TableTypes, TypeForm DEF PushInv
<1>2. CASE registration' = registration
  BY <1>1, <1>2
<1>3. ASSUME NEW q \in Mutations, CommitMutation(q) PROVE d \notin deviceRevoked
  <2>1. CASE d = MutationOf[q].device
    <3>1. mutation[q].stage = "sealed" /\ mutation[q].head = identityHead[d]
      BY <1>3, <2>1 DEF CommitMutation, HeadUnchanged
    <3> QED
      BY <2>1, <3>1 DEF PushInv, MutationRead
  <2>2. CASE d # MutationOf[q].device
    BY <1>1, <1>3, <2>2, CommitRegisters
  <2> QED
    BY <2>1, <2>2
<1>4. ASSUME NEW b \in Brokers, FinishInvalidToken(b) PROVE d \notin deviceRevoked
  <2> DEFINE e == WakeDevice[broker[b].current]
  <2>1. registration' = registration
        \/ registration' = [registration EXCEPT ![e].state = "suspended"]
    BY <1>4 DEF FinishInvalidToken
  <2>2. broker[b].current \in Wakes
    BY <1>4, CurrentExists DEF FinishInvalidToken
  <2>3. e \in Registrants
    BY <2>2
  <2>4. CASE registration' = [registration EXCEPT ![e].state = "suspended"]
    <3>1. registration'[d] = registration[d]
          \/ registration'[d] = [registration[d] EXCEPT !.state = "suspended"]
      <4> HIDE DEF e
      <4> QED
        BY <1>1, <2>3, <2>4
    <3>2. [registration[d] EXCEPT !.state = "suspended"].revision = registration[d].revision
      BY <1>1 DEF RegistrationRow
    <3>3. registration'[d].revision = registration[d].revision
      BY <3>1, <3>2, Zenon
    <3>4. ~(registration'[d].revision > registration[d].revision)
      BY <1>1, <3>3
    <3> QED
      BY <3>4
  <2> QED
    BY <1>2, <2>1, <2>4
<1>5. \/ registration' = registration
      \/ \E q \in Mutations : CommitMutation(q)
      \/ \E b \in Brokers : FinishInvalidToken(b)
  BY DEF PushNext, PrepareMutation, ObserveAndSeal, MutationRefused, IdentityMoves, EnqueueWake,
         ClaimWakes, AuthorizeSend, DecryptFails, ProviderAnswers, FinishAnswered, FinishTransient,
         BrokerStops, PruneWakes, PushTick
<1> QED
  BY <1>2, <1>3, <1>4, <1>5

\* No handler or broker acts on what it read before the identity log or a claim moved on: a
\* token becomes active only while its device is listed, and the outcome of a wake is final
\* (opaque_push_commit_put, authorize_opaque_push_send).
THEOREM PushFenced == PushSpec => PushStepsFenced
<1>1. ASSUME PushInv, PushNext PROVE RegistersListed /\ KeepsOutcomes
  <2>1. RegistersListed
    BY <1>1, RevisionsCommitted DEF RegistersListed
  <2>2. KeepsOutcomes
    <3>1. CASE WakesEvolve
      BY <1>1, <3>1, WakesKept DEF WakeKept, KeepsOutcomes
    <3>2. CASE wake' = wake
      BY <3>2 DEF KeepsOutcomes
    <3> QED
      BY <1>1, <3>1, <3>2, PushStep
  <2> QED
    BY <2>1, <2>2
<1>2. PushInv /\ [PushNext]_pushVars => [RegistersListed /\ KeepsOutcomes]_pushVars
  BY <1>1
<1> QED
  BY <1>2, PushSafety, PTL DEF PushSpec, PushStepsFenced
=============================================================================
