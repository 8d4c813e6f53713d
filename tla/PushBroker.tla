----------------------------- MODULE PushBroker -----------------------------
(***************************************************************************)
(* Opaque push: devices register a sealed provider token under a revision, *)
(* the mailbox adds a wake for an envelope, and brokers claim wakes for a  *)
(* while, check them again, call the provider and record the outcome       *)
(* (crates/dtx-opaque-push, dtx-opaque-push-postgres and the functions of  *)
(* schema messaging in migration 202607240020).                            *)
(*                                                                         *)
(* Every function of the schema is one transaction under the provider lock *)
(* of the device and is one step here; between two of them a broker waits  *)
(* for the database or for the provider.  The identity log and the         *)
(* provider are external.                                                  *)
(***************************************************************************)
EXTENDS Integers, FiniteSets

CONSTANTS
    Registrants,
    Mutations,      \* requests to register or revoke, each with its idempotency key
    MutationOf,     \* [device, put, expected revision] of a request
    Wakes,
    WakeDevice,     \* the device behind the mailbox of a wake
    Brokers,
    WakeTtl,        \* DELIVERY_TTL_SECONDS
    WakeLease,      \* LEASE_SECONDS
    WakeRetention,  \* terminal rows are kept that long
    ClaimBatch,     \* MAX_CLAIM_BATCH
    RetryDelays,    \* delays the provider asks for
    MaxHeads,       \* bound: entries of the identity log
    MaxStops,       \* bound: broker cycles that end early
    PushMaxTime     \* bound: last instant of the database clock

ASSUME PushConstants ==
    /\ IsFiniteSet(Mutations)
    /\ MutationOf \in [Mutations -> [device : Registrants, put : BOOLEAN, expected : Nat]]
    /\ WakeDevice \in [Wakes -> Registrants]
    /\ WakeTtl \in Nat \ {0} /\ WakeLease \in Nat \ {0} /\ WakeRetention \in Nat
    /\ ClaimBatch \in Nat \ {0} /\ RetryDelays \subseteq Nat \ {0}
    /\ MaxHeads \in Nat \ {0} /\ MaxStops \in Nat /\ PushMaxTime \in Nat

VARIABLES
    pushNow,
    identityHead,   \* length of the identity log of each device's identity
    deviceRevoked,  \* devices the identity log has revoked
    registration,   \* opaque_push_registrations
    mutated,        \* opaque_push_idempotency_claims: the revision each request made
    mutation,       \* what a request handler has read so far
    wake,           \* opaque_push_deliveries
    broker,         \* one process_once per broker
    refusedTokens,  \* history: token revisions the provider called invalid
    stops

pushVars == <<pushNow, identityHead, deviceRevoked, registration, mutated, mutation, wake,
              broker, refusedTokens, stops>>

NoBroker == "none"
Gone     == "gone"      \* a claim token no process holds any more
WakeEnds == {"delivered", "permanent_failure", "expired", "revoked"}
Unfinished == {"pending", "claimed"}

Unregistered == [state |-> "none", revision |-> 0, sealed |-> 0]
Unsent == [state |-> "new", revision |-> 0, claim |-> NoBroker, until |-> 0, retry |-> 0,
           tries |-> 0, expires |-> 0, ended |-> 0]
Fresh  == [stage |-> "new", live |-> FALSE, next |-> 0, head |-> 0]
IdleBroker == [stage |-> "idle", batch |-> {}, current |-> NoBroker]

Revisions == 0 .. Cardinality(Mutations)
\* A wake is tried at most once in every instant of its lifetime.
MaxTries  == WakeTtl

PushTypeOK ==
    /\ pushNow \in 0 .. PushMaxTime
    /\ identityHead \in [Registrants -> 1 .. MaxHeads]
    /\ deviceRevoked \subseteq Registrants
    /\ registration \in [Registrants -> [state : {"none", "active", "suspended", "revoked"},
                                         revision : Revisions, sealed : Revisions]]
    /\ mutated \in [Mutations -> Revisions]
    /\ mutation \in [Mutations -> [stage : {"new", "prepared", "sealed"}, live : BOOLEAN,
                                   next : Revisions \cup {Cardinality(Mutations) + 1},
                                   head : 0 .. MaxHeads]]
    /\ wake \in [Wakes -> [state : WakeEnds \cup Unfinished \cup {"new", "pruned"},
                           revision : Revisions, claim : Brokers \cup {NoBroker, Gone},
                           until : Nat, retry : Nat, tries : 0 .. MaxTries, expires : Nat,
                           ended : Nat]]
    /\ broker \in [Brokers -> [stage : {"idle", "batch", "permitted", "accepted", "invalid",
                                        "failed", "transient"},
                               batch : SUBSET Wakes, current : Wakes \cup {NoBroker}]]
    /\ refusedTokens \subseteq Registrants \X Revisions
    /\ stops \in 0 .. MaxStops

PushInit ==
    /\ pushNow = 0
    /\ identityHead = [d \in Registrants |-> 1]
    /\ deviceRevoked = {}
    /\ registration = [d \in Registrants |-> Unregistered]
    /\ mutated = [q \in Mutations |-> 0]
    /\ mutation = [q \in Mutations |-> Fresh]
    /\ wake = [w \in Wakes |-> Unsent]
    /\ broker = [b \in Brokers |-> IdleBroker]
    /\ refusedTokens = {}
    /\ stops = 0

-----------------------------------------------------------------------------
(* Registration: prepare, observe the identity, seal the token, commit.     *)

\* A registration that a request may still change.
LiveRegistration(d) == registration[d].state \in {"active", "suspended"}

\* opaque_push_prepare_mutation: a request that was applied gets its receipt again.
PrepareMutation(q) ==
    LET d == MutationOf[q].device
    IN /\ mutation[q].stage = "new"
       /\ mutated[q] = 0
       /\ mutation' = [mutation EXCEPT ![q] =
             [stage |-> "prepared", live |-> LiveRegistration(d), head |-> 0,
              next |-> IF LiveRegistration(d) THEN registration[d].revision + 1 ELSE 1]]
       /\ UNCHANGED <<pushNow, identityHead, deviceRevoked, registration, mutated, wake, broker,
                      refusedTokens, stops>>

\* observe authenticates the device at the head it reads; then the token is sealed
\* for the revision that was prepared.
ObserveAndSeal(q) ==
    LET d == MutationOf[q].device
    IN /\ mutation[q].stage = "prepared"
       /\ d \notin deviceRevoked
       /\ mutation' = [mutation EXCEPT ![q].stage = "sealed", ![q].head = identityHead[d]]
       /\ UNCHANGED <<pushNow, identityHead, deviceRevoked, registration, mutated, wake, broker,
                      refusedTokens, stops>>

\* The commit compares the head the request observed with the current one.
HeadUnchecked(q) == TRUE
HeadUnchanged(q) == mutation[q].head = identityHead[MutationOf[q].device]

\* The revision the client expects, and the registration the request was prepared for.
RevisionMatches(q) ==
    LET d == MutationOf[q].device
    IN IF LiveRegistration(d)
       THEN (MutationOf[q].put => mutation[q].live) /\ MutationOf[q].expected = registration[d].revision
       ELSE MutationOf[q].put /\ registration[d].state = "none" /\ MutationOf[q].expected = 0

\* Wakes of a registration that are not finished take a terminal state together.
Finished(w, state) ==
    [wake[w] EXCEPT !.state = state, !.claim = NoBroker, !.until = 0, !.ended = pushNow]
EndedFor(d, revision, state) ==
    [w \in Wakes |->
        IF /\ WakeDevice[w] = d /\ wake[w].revision = revision
           /\ wake[w].state \in Unfinished
        THEN Finished(w, state) ELSE wake[w]]

\* opaque_push_commit_put and opaque_push_commit_delete.
CommitMutation(q) ==
    LET d == MutationOf[q].device
        r == registration[d].revision + 1
    IN /\ mutation[q].stage = "sealed"
       /\ mutated[q] = 0
       /\ HeadUnchanged(q)
       /\ RevisionMatches(q)
       /\ mutated' = [mutated EXCEPT ![q] = r]
       /\ mutation' = [mutation EXCEPT ![q] = Fresh]
       /\ IF MutationOf[q].put
          THEN /\ registration' = [registration EXCEPT ![d] =
                      [state |-> "active", revision |-> r, sealed |-> mutation[q].next]]
               /\ UNCHANGED wake
          ELSE /\ registration' = [registration EXCEPT ![d].state = "revoked",
                                                       ![d].revision = r]
               /\ wake' = EndedFor(d, registration[d].revision, "revoked")
       /\ UNCHANGED <<pushNow, identityHead, deviceRevoked, broker, refusedTokens, stops>>

\* The handler answers with a conflict, or it dies; the client may send it again.
MutationRefused(q) ==
    /\ mutation[q].stage # "new"
    /\ \/ mutation[q].stage = "prepared" /\ MutationOf[q].device \in deviceRevoked
       \/ mutation[q].stage = "sealed" /\ (~HeadUnchanged(q) \/ ~RevisionMatches(q))
    /\ mutation' = [mutation EXCEPT ![q] = Fresh]
    /\ UNCHANGED <<pushNow, identityHead, deviceRevoked, registration, mutated, wake, broker,
                   refusedTokens, stops>>

\* The identity log grows; the entry may revoke the device.
IdentityMoves(d) ==
    /\ identityHead[d] < MaxHeads
    /\ identityHead' = [identityHead EXCEPT ![d] = @ + 1]
    /\ deviceRevoked' \in {deviceRevoked, deviceRevoked \cup {d}}
    /\ UNCHANGED <<pushNow, registration, mutated, mutation, wake, broker, refusedTokens, stops>>

-----------------------------------------------------------------------------
(* Wakes. *)

\* enqueue_opaque_push_intent, in the transaction of the mailbox.
EnqueueWake(w) ==
    LET d == WakeDevice[w]
    IN /\ wake[w].state = "new"
       /\ registration[d].state = "active"
       /\ wake' = [wake EXCEPT ![w] =
             [Unsent EXCEPT !.state = "pending", !.revision = registration[d].revision,
                            !.retry = pushNow, !.expires = pushNow + WakeTtl]]
       /\ UNCHANGED <<pushNow, identityHead, deviceRevoked, registration, mutated, mutation, broker,
                      refusedTokens, stops>>

\* The first statement of a claim: what has run out of time, whoever holds it.
Overdue(w) == wake[w].state \in Unfinished /\ wake[w].expires <= pushNow

\* What a claim may take: due wakes and claims that lapsed.
Takeable(w) ==
    /\ wake[w].expires > pushNow
    /\ \/ wake[w].state = "pending" /\ wake[w].retry <= pushNow
       \/ wake[w].state = "claimed" /\ wake[w].until <= pushNow

\* Rows a claim returns: the registration is still the one the wake was made for.
Current(w) ==
    LET reg == registration[WakeDevice[w]]
    IN reg.state = "active" /\ reg.revision = wake[w].revision

\* claim_opaque_push_deliveries.  A returned token that is sealed for another revision
\* fails the whole call, and the rows stay claimed.
ClaimWakes(b) ==
    \E rows \in SUBSET {w \in Wakes : Takeable(w)} :
        LET due      == {w \in Wakes : Takeable(w)}
            returned == {w \in rows : Current(w)}
            broken   == \E w \in returned :
                           registration[WakeDevice[w]].sealed # wake[w].revision
        IN /\ broker[b].stage = "idle"
           /\ Cardinality(rows) <= ClaimBatch
           /\ Cardinality(rows) = ClaimBatch \/ rows = due
           /\ rows # {} \/ \E w \in Wakes : Overdue(w)
           /\ wake' = [w \in Wakes |->
                 IF Overdue(w) THEN Finished(w, "expired")
                 ELSE IF w \in rows
                 THEN [wake[w] EXCEPT !.state = "claimed", !.claim = b,
                                      !.until = pushNow + WakeLease, !.tries = @ + 1]
                 ELSE IF wake[w].claim = b THEN [wake[w] EXCEPT !.claim = Gone]
                 ELSE wake[w]]
           /\ broker' = [broker EXCEPT ![b] =
                 IF returned = {} \/ broken THEN IdleBroker
                 ELSE [stage |-> "batch", batch |-> returned, current |-> NoBroker]]
           /\ UNCHANGED <<pushNow, identityHead, deviceRevoked, registration, mutated, mutation,
                          refusedTokens, stops>>

\* The broker is done with its current wake; the cycle ends with the batch.
NextOfBatch(b, w) ==
    broker' = [broker EXCEPT ![b] =
        IF broker[b].batch = {w} THEN IdleBroker
        ELSE [stage |-> "batch", batch |-> broker[b].batch \ {w}, current |-> NoBroker]]

\* authorize_opaque_push_send: whether a row is still this claim's.
Holds(b, w) ==
    /\ wake[w].state = "claimed" /\ wake[w].claim = b
    /\ wake[w].revision = registration[WakeDevice[w]].revision

Permitted(b, w) ==
    /\ Holds(b, w)
    /\ wake[w].expires > pushNow
    /\ registration[WakeDevice[w]].state = "active"
    /\ wake[w].until > pushNow

\* What the check leaves behind when it does not give a permit.
AfterRefusal(b, w) ==
    IF ~Holds(b, w) THEN wake
    ELSE [wake EXCEPT ![w] =
            IF wake[w].expires <= pushNow THEN Finished(w, "expired")
            ELSE IF registration[WakeDevice[w]].state # "active" THEN Finished(w, "revoked")
            ELSE [wake[w] EXCEPT !.state = "pending", !.claim = NoBroker, !.until = 0]]

\* The token is opened and the send is authorised, or the wake is passed over.
AuthorizeSend(b, w) ==
    /\ broker[b].stage = "batch" /\ w \in broker[b].batch
    /\ \/ /\ Permitted(b, w)
          /\ broker' = [broker EXCEPT ![b].stage = "permitted", ![b].current = w]
          /\ UNCHANGED wake
       \/ /\ ~Permitted(b, w)
          /\ wake' = AfterRefusal(b, w)
          /\ NextOfBatch(b, w)
    /\ UNCHANGED <<pushNow, identityHead, deviceRevoked, registration, mutated, mutation,
                   refusedTokens, stops>>

\* The key service cannot open the token: recorded as a permanent failure.
DecryptFails(b, w) ==
    /\ stops < MaxStops /\ stops' = stops + 1
    /\ broker[b].stage = "batch" /\ w \in broker[b].batch
    /\ wake' = IF Permitted(b, w)
               THEN [wake EXCEPT ![w] = Finished(w, "permanent_failure")]
               ELSE AfterRefusal(b, w)
    /\ NextOfBatch(b, w)
    /\ UNCHANGED <<pushNow, identityHead, deviceRevoked, registration, mutated, mutation,
                   refusedTokens>>

\* The provider answers: it took the wake, the token is invalid, it refuses the
\* message, or it asks to try again.
ProviderAnswers(b) ==
    LET w == broker[b].current
    IN /\ broker[b].stage = "permitted"
       /\ \E outcome \in {"accepted", "invalid", "failed", "transient"} :
             /\ broker' = [broker EXCEPT ![b].stage = outcome]
             /\ refusedTokens' = IF outcome = "invalid"
                                 THEN refusedTokens \cup {<<WakeDevice[w], wake[w].revision>>}
                                 ELSE refusedTokens
       /\ UNCHANGED <<pushNow, identityHead, deviceRevoked, registration, mutated, mutation,
                      wake, stops>>

\* finish_opaque_push_accepted and finish_opaque_push_permanent_failure.
FinishAnswered(b) ==
    LET w == broker[b].current
        state == IF broker[b].stage = "accepted" THEN "delivered" ELSE "permanent_failure"
    IN /\ broker[b].stage \in {"accepted", "failed"}
       /\ wake' = IF Permitted(b, w) THEN [wake EXCEPT ![w] = Finished(w, state)]
                  ELSE AfterRefusal(b, w)
       /\ NextOfBatch(b, w)
       /\ UNCHANGED <<pushNow, identityHead, deviceRevoked, registration, mutated, mutation,
                      refusedTokens, stops>>

\* The next attempt comes after now and before the wake expires.
NextAttempt(w, delay) ==
    IF pushNow + delay < wake[w].expires THEN pushNow + delay ELSE wake[w].expires - 1

\* finish_opaque_push_transient.
FinishTransient(b) ==
    LET w == broker[b].current
    IN /\ broker[b].stage = "transient"
       /\ \E delay \in RetryDelays :
             wake' = IF ~Permitted(b, w) THEN AfterRefusal(b, w)
                     ELSE [wake EXCEPT ![w] =
                        IF NextAttempt(w, delay) <= pushNow THEN Finished(w, "expired")
                        ELSE [wake[w] EXCEPT !.state = "pending", !.claim = NoBroker,
                                             !.until = 0, !.retry = NextAttempt(w, delay)]]
       /\ NextOfBatch(b, w)
       /\ UNCHANGED <<pushNow, identityHead, deviceRevoked, registration, mutated, mutation,
                      refusedTokens, stops>>

\* finish_opaque_push_invalid_token suspends the registration the token belongs to.
SuspendsAnyRevision(b, w) == wake[w].state = "claimed" /\ wake[w].claim = b
Suspends(b, w) ==
    /\ wake[w].state = "claimed" /\ wake[w].claim = b
    /\ wake[w].until > pushNow /\ wake[w].expires > pushNow
    /\ registration[WakeDevice[w]].state = "active"
    /\ registration[WakeDevice[w]].revision = wake[w].revision

FinishInvalidToken(b) ==
    LET w == broker[b].current
        d == WakeDevice[w]
    IN /\ broker[b].stage = "invalid"
       /\ IF Suspends(b, w)
          THEN /\ registration' = [registration EXCEPT ![d].state = "suspended"]
               /\ wake' = EndedFor(d, wake[w].revision, "permanent_failure")
          ELSE UNCHANGED <<registration, wake>>
       /\ NextOfBatch(b, w)
       /\ UNCHANGED <<pushNow, identityHead, deviceRevoked, mutated, mutation, refusedTokens, stops>>

\* A cycle ends early: a database error, or the process dies.
BrokerStops(b) ==
    /\ stops < MaxStops /\ stops' = stops + 1
    /\ broker[b].stage # "idle"
    /\ broker' = [broker EXCEPT ![b] = IdleBroker]
    /\ wake' = [w \in Wakes |->
          IF wake[w].claim = b THEN [wake[w] EXCEPT !.claim = Gone] ELSE wake[w]]
    /\ UNCHANGED <<pushNow, identityHead, deviceRevoked, registration, mutated, mutation,
                   refusedTokens>>

\* prune_opaque_push_terminal.
PruneWakes ==
    LET old == {w \in Wakes : wake[w].state \in WakeEnds
                              /\ wake[w].ended + WakeRetention <= pushNow}
    IN /\ old # {}
       /\ wake' = [w \in Wakes |-> IF w \in old THEN [Unsent EXCEPT !.state = "pruned"]
                                   ELSE wake[w]]
       /\ UNCHANGED <<pushNow, identityHead, deviceRevoked, registration, mutated, mutation, broker,
                      refusedTokens, stops>>

PushTick ==
    /\ pushNow < PushMaxTime
    /\ pushNow' = pushNow + 1
    /\ UNCHANGED <<identityHead, deviceRevoked, registration, mutated, mutation, wake, broker,
                   refusedTokens, stops>>

PushNext ==
    \/ \E q \in Mutations :
          \/ PrepareMutation(q) \/ ObserveAndSeal(q) \/ CommitMutation(q) \/ MutationRefused(q)
    \/ \E d \in Registrants : IdentityMoves(d)
    \/ \E w \in Wakes : EnqueueWake(w)
    \/ \E b \in Brokers :
          \/ ClaimWakes(b)
          \/ \E w \in Wakes : AuthorizeSend(b, w) \/ DecryptFails(b, w)
          \/ ProviderAnswers(b) \/ FinishAnswered(b) \/ FinishTransient(b)
          \/ FinishInvalidToken(b) \/ BrokerStops(b)
    \/ PruneWakes
    \/ PushTick

PushSpec == PushInit /\ [][PushNext]_pushVars

-----------------------------------------------------------------------------
(* Properties. *)

\* A registration is suspended only when the provider called the token of that very
\* revision invalid: a late answer about a replaced token leaves the new one alone
\* (finish_opaque_push_invalid_token).
SuspendedWasRefused ==
    \A d \in Registrants :
        registration[d].state = "suspended" => <<d, registration[d].revision>> \in refusedTokens

\* Every mutation was applied to the revision its client expected and no two to the same
\* one, although requests are prepared, sealed and committed side by side
\* (opaque_push_commit_put, opaque_push_commit_delete).
MutationsSerial ==
    \A q \in Mutations : mutated[q] # 0 =>
        /\ mutated[q] = MutationOf[q].expected + 1
        /\ \A p \in Mutations \ {q} :
              MutationOf[p].device = MutationOf[q].device => mutated[p] # mutated[q]

\* A token becomes active only while the identity log still lists its device, although
\* the log may move between the observation and the commit (register_typed).
RegistersListed ==
    \A d \in Registrants :
        registration'[d].revision > registration[d].revision => d \notin deviceRevoked

\* The outcome of a wake is final until it is pruned: a broker that lost its claim to
\* time, to another broker or to a revocation changes nothing (authorize_opaque_push_send).
KeepsOutcomes ==
    \A w \in Wakes : wake[w].state \in WakeEnds =>
        wake'[w].state \in {wake[w].state, "pruned"}

\* No handler or broker acts on what it read before the identity log or a claim moved on.
PushStepsFenced == [][RegistersListed /\ KeepsOutcomes]_pushVars

\* What the two tables of registrations promise together.
RegistrationsSound == PushTypeOK /\ SuspendedWasRefused /\ MutationsSerial
=============================================================================
