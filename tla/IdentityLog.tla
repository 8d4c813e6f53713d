---------------------------- MODULE IdentityLog ----------------------------
(***************************************************************************)
(* The log of one identity: the reducer of dtx-identity-log, and the       *)
(* repository of dtx-identity-persistence that appends signed events,      *)
(* enrolls and revokes devices and opens device sessions.                  *)
(*                                                                         *)
(* A client reads the log, signs an event for the head it saw and sends it *)
(* whenever it likes, so events arrive late, out of order and repeatedly.  *)
(* Every handler is one transaction under the identity's advisory lock and *)
(* is one action.  An event has one idempotency key; repeating it reads    *)
(* the stored receipt and changes nothing, and a refused command is rolled *)
(* back with its receipt, so neither is an action.                         *)
(*                                                                         *)
(* Signatures are abstract: an event carries the key it is signed with,    *)
(* and a device stands for its two keys.  The hash of an event is its      *)
(* name.                                                                   *)
(***************************************************************************)
EXTENDS Naturals, Sequences, FiniteSets

CONSTANTS
    IdDevices,      \* devices that may be enrolled
    Drafts,         \* events a client may sign
    Intents,        \* what clients sign: [kind, signer, dev, root, rec]
    Cards,          \* creation keys of enrollment cards
    CardDevice,     \* the device of each card
    CardTtl,        \* life of an open card
    CardRetention,  \* time an approved card is kept
    ChallengeTtl, SessionTtl,
    IdMaxTime       \* bound: the clock

EventKinds == {"genesis", "add", "revoke", "rotate_root", "rotate_recovery", "restore", "relay"}

ASSUME IdentityAssumption ==
    /\ CardDevice \in [Cards -> IdDevices]
    /\ CardTtl \in Nat \ {0} /\ CardRetention \in Nat \ {0}
    /\ ChallengeTtl \in Nat \ {0} /\ SessionTtl \in Nat /\ ChallengeTtl <= SessionTtl
    /\ \A i \in Intents : i.kind \in EventKinds /\ (i.kind \in {"add", "revoke"} => i.dev \in IdDevices)
    /\ IdMaxTime \in Nat

VARIABLES
    events,     \* the signed event behind each name
    idLog,      \* log_entries: names in sequence
    idState,    \* log_heads.state; "none" before genesis
    receipts,   \* command_receipts.state of the command of each event
    evidence,   \* fork_evidence, and the route that brought it
    cards,      \* device_enrollment_challenges
    challenge,  \* device_session_challenges: expiry of a device's challenge and of its session
    session,    \* device_sessions: expiry of a device's session
    authors,    \* history: the device whose session submitted an event
    idNow

identityVars == <<events, idLog, idState, receipts, evidence, cards, challenge,
                  session, authors, idNow>>

Nothing == "nothing"
NoCard  == [state |-> "none", expires |-> 0, keep |-> 0, event |-> Nothing]
NoChallenge == [expires |-> 0, session |-> 0]
Unsigned    == [kind |-> "none", signer |-> Nothing, dev |-> Nothing, root |-> Nothing,
                rec |-> Nothing, seq |-> 0, prev |-> Nothing]
NoEvidence  == [event |-> Nothing, via |-> Nothing]

IdentityTypeOK ==
    /\ idLog \in Seq(Drafts) /\ idNow \in 0..IdMaxTime
    /\ idState \in {"none", "active", "forked"}
    /\ receipts \in [Drafts -> {"none", "committed", "forked"}]
    /\ \A x \in Drafts :
          (receipts[x] = "committed") = (\E n \in 1..Len(idLog) : idLog[n] = x)
    /\ \A c \in Cards : cards[c].state \in {"none", "open", "approved", "cancelled"}
    /\ session \in [IdDevices -> Nat]

IdentityInit ==
    /\ events = [x \in Drafts |-> Unsigned]
    /\ idLog = <<>>
    /\ idState = "none"
    /\ receipts = [x \in Drafts |-> "none"]
    /\ evidence = NoEvidence
    /\ cards = [c \in Cards |-> NoCard]
    /\ challenge = [d \in IdDevices |-> NoChallenge]
    /\ session = [d \in IdDevices |-> 0]
    /\ authors = [x \in Drafts |-> Nothing]
    /\ idNow = 0

-----------------------------------------------------------------------------
(* The reducer. *)

\* A device id is never enrolled twice, whatever became of it.
NeverEnrolled(p, d) == p.dev[d] = "none"

\* A new root or recovery key is nobody's: neither a current one nor the key of a device
\* that was ever enrolled.
Successor(p, k) ==
    /\ k # p.root /\ k # p.recovery
    /\ \A d \in IdDevices : p.dev[d] # "none" => k # d

Authorized(p, e) ==
    CASE e.kind = "add" ->
            /\ e.signer = p.root \/ (e.signer \in IdDevices /\ p.dev[e.signer] = "active")
            /\ e.root = p.root
            /\ e.dev # p.root /\ e.dev # p.recovery
            /\ NeverEnrolled(p, e.dev)
      [] e.kind = "revoke" -> e.signer = p.root /\ p.dev[e.dev] = "active"
      [] e.kind = "rotate_root" -> e.signer = p.root /\ Successor(p, e.root)
      [] e.kind = "rotate_recovery" -> e.signer = p.root /\ Successor(p, e.rec)
      [] e.kind = "restore" ->
            /\ e.signer = p.recovery
            /\ Successor(p, e.root) /\ Successor(p, e.rec) /\ e.root # e.rec
      [] e.kind = "relay" -> e.signer = p.root
      [] OTHER -> FALSE

Genesis(e) == [root |-> e.root, recovery |-> e.rec, dev |-> [d \in IdDevices |-> "none"]]

Reduce(p, e) ==
    CASE e.kind = "add" -> [p EXCEPT !.dev[e.dev] = "active"]
      [] e.kind = "revoke" -> [p EXCEPT !.dev[e.dev] = "revoked"]
      [] e.kind = "rotate_root" -> [p EXCEPT !.root = e.root]
      [] e.kind = "rotate_recovery" -> [p EXCEPT !.recovery = e.rec]
      [] e.kind = "restore" ->
            [root |-> e.root, recovery |-> e.rec,
             dev |-> [d \in IdDevices |-> IF p.dev[d] = "none" THEN "none" ELSE "revoked"]]
      [] OTHER -> p

\* The projection of n signed events, n > 0: each is applied to the one before it.
Project(signed, n) ==
    LET proj[i \in 1..n] ==
            IF i = 1 THEN Genesis(signed[1]) ELSE Reduce(proj[i - 1], signed[i])
    IN  proj[n]

\* The projection of the first n entries of the log.
ProjectionAt(n) == Project([i \in 1..n |-> events[idLog[i]]], n)

Projection == ProjectionAt(Len(idLog))

\* Whether an event is the valid successor of the first n entries.
Follows(n, e) ==
    /\ e.seq = n + 1
    /\ IF n = 0 THEN e.kind = "genesis"
       ELSE e.prev = idLog[n] /\ Authorized(ProjectionAt(n), e)

-----------------------------------------------------------------------------
(* Appending. *)

Sign(x, i) ==
    /\ events[x] = Unsigned
    /\ events' = [events EXCEPT ![x] =
          [kind |-> i.kind, signer |-> i.signer, dev |-> i.dev, root |-> i.root, rec |-> i.rec,
           seq |-> IF i.kind = "genesis" THEN 1 ELSE Len(idLog) + 1,
           prev |-> IF i.kind = "genesis" \/ idLog = <<>> THEN Nothing ELSE idLog[Len(idLog)]]]
    /\ UNCHANGED <<idLog, idState, receipts, evidence, cards, challenge, session,
                   authors, idNow>>

\* Another event stands at the sequence of this one, which follows from the same
\* entries just as well.
Diverges(x) ==
    LET e == events[x]
    IN  /\ e.seq <= Len(idLog) /\ idLog[e.seq] # x
        /\ Follows(e.seq - 1, e)

\* A verified divergence is looked for before the expected head is compared: it
\* freezes the log, whoever signed first.
AppendVerified(x, via, who) ==
    /\ events[x] # Unsigned
    /\ receipts[x] = "none"
    /\ idState # "forked"
    /\ \/ /\ idState = "active" /\ Diverges(x)
          /\ idState' = "forked"
          /\ evidence' = [event |-> x, via |-> via]
          /\ receipts' = [receipts EXCEPT ![x] = "forked"]
          /\ UNCHANGED idLog
       \/ /\ ~(idState = "active" /\ Diverges(x))
          /\ Follows(Len(idLog), events[x])
          /\ idLog' = Append(idLog, x)
          /\ idState' = "active"
          /\ receipts' = [receipts EXCEPT ![x] = "committed"]
          /\ UNCHANGED evidence
    /\ authors' = [authors EXCEPT ![x] = who]

\* append_bootstrap.  A client binding brings the genesis and the first device over routes
\* of its own (client_binding.rs), whose binding row only adds conditions to these two.
Bootstrap(x) ==
    /\ AppendVerified(x, "bootstrap", Nothing)
    /\ events[x].kind = "genesis"
    /\ UNCHANGED <<events, cards, challenge, session, idNow>>

AppendInitialDevice(x) ==
    /\ AppendVerified(x, "initial", Nothing)
    /\ events[x].kind = "add" /\ events[x].seq = 2
    /\ UNCHANGED <<events, cards, challenge, session, idNow>>

\* The repository's plain append; no route takes rotations, restores and relays.
AppendEvent(x) ==
    /\ AppendVerified(x, "append", Nothing)
    /\ events[x].kind \in {"rotate_root", "rotate_recovery", "restore", "relay"}
    /\ UNCHANGED <<events, cards, challenge, session, idNow>>

-----------------------------------------------------------------------------
(* Device sessions. *)

Active(d) == idState = "active" /\ Projection.dev[d] = "active"

SessionOnly(d) == idState = "active" /\ idNow < session[d]

\* authenticate_in_transaction: the session and the device behind it.
Authenticated(d) == idNow < session[d] /\ Active(d)

\* The latest challenge and session of a device stand for all of them: an older one
\* expires earlier.
IssueChallenge(d) ==
    /\ Active(d)
    /\ challenge' = [challenge EXCEPT ![d] =
          [expires |-> idNow + ChallengeTtl, session |-> idNow + SessionTtl]]
    /\ UNCHANGED <<events, idLog, idState, receipts, evidence, cards, session, authors, idNow>>

CompleteChallenge(d) ==
    /\ Active(d)
    /\ idNow < challenge[d].expires
    /\ session' = [session EXCEPT ![d] = challenge[d].session]
    /\ challenge' = [challenge EXCEPT ![d] = NoChallenge]
    /\ UNCHANGED <<events, idLog, idState, receipts, evidence, cards, authors, idNow>>

\* revoke_device: another device's session brings a root-signed revocation.
RevokeDevice(x, who) ==
    /\ Authenticated(who)
    /\ events[x].kind = "revoke"
    /\ events[x].seq > 1
    /\ events[x].dev # who
    /\ AppendVerified(x, "revoke", who)
    /\ UNCHANGED <<events, cards, challenge, session, idNow>>

-----------------------------------------------------------------------------
(* Enrollment cards. *)

CreateCard(c) ==
    /\ idState = "active"
    /\ cards[c].state = "none"
    /\ cards' = [cards EXCEPT ![c] = [state |-> "open", expires |-> idNow + CardTtl,
                                      keep |-> idNow + CardTtl, event |-> Nothing]]
    /\ UNCHANGED <<events, idLog, idState, receipts, evidence, challenge, session,
                   authors, idNow>>

HeadUnread(e) == TRUE

\* The head named by the request and by the event is the current one.
HeadNamed(e) == e.seq = Len(idLog) + 1

\* approve: an active device's session consumes the open card and appends the add.
ApproveCard(c, x, who) ==
    LET e == events[x] IN
    /\ cards[c].state = "open" /\ idNow < cards[c].expires
    /\ Authenticated(who)
    /\ e.kind = "add" /\ e.dev = CardDevice[c]
    /\ HeadNamed(e)
    /\ e.signer = Projection.root
    /\ AppendVerified(x, "approve", who)
    /\ cards' = IF idState' = "forked" THEN cards
                ELSE [cards EXCEPT ![c].state = "approved", ![c].event = x,
                                   ![c].keep = idNow + CardRetention]
    /\ UNCHANGED <<events, challenge, session, idNow>>

CancelCard(c) ==
    /\ cards[c].state = "open" /\ idNow < cards[c].expires
    /\ cards' = [cards EXCEPT ![c].state = "cancelled"]
    /\ UNCHANGED <<events, idLog, idState, receipts, evidence, challenge, session,
                   authors, idNow>>

\* A pruned card may be created again under the same key.
PruneCards ==
    LET due == {c \in Cards : cards[c].state # "none" /\ cards[c].keep <= idNow} IN
    /\ due # {}
    /\ cards' = [c \in Cards |-> IF c \in due THEN NoCard ELSE cards[c]]
    /\ UNCHANGED <<events, idLog, idState, receipts, evidence, challenge, session,
                   authors, idNow>>

IdentityTick ==
    /\ idNow < IdMaxTime
    /\ idNow' = idNow + 1
    /\ UNCHANGED <<events, idLog, idState, receipts, evidence, cards, challenge, session,
                   authors>>

IdentityNext ==
    \/ \E x \in Drafts :
          \/ \E i \in Intents : Sign(x, i)
          \/ Bootstrap(x) \/ AppendInitialDevice(x) \/ AppendEvent(x)
          \/ \E d \in IdDevices :
                RevokeDevice(x, d) \/ \E c \in Cards : ApproveCard(c, x, d)
    \/ \E d \in IdDevices : IssueChallenge(d) \/ CompleteChallenge(d)
    \/ \E c \in Cards : CreateCard(c) \/ CancelCard(c)
    \/ PruneCards \/ IdentityTick

IdentitySpec == IdentityInit /\ [][IdentityNext]_identityVars

-----------------------------------------------------------------------------
(* Properties. *)

\* A log is frozen only on proof: the recorded event follows from the same entries as
\* the canonical one at its sequence, and the two differ (is_verified_divergence).  An
\* approval never brings that proof, because approve compares the head before it
\* appends: a card scanned late cannot freeze the identity.  A revocation can, see
\* StaleRevokeRejected.
ForkJustified ==
    idState = "forked" =>
        LET e == events[evidence.event]
        IN  /\ e.seq \in 1..Len(idLog)
            /\ idLog[e.seq] # evidence.event
            /\ Follows(e.seq - 1, e)
            /\ evidence.via # "approve"

\* What repository_impl.rs says of revoke_device: it rejects stale heads.  A root-signed
\* revocation that arrives after the log moved on is turned away and freezes nothing, as a
\* late approval is.
StaleRevokeRejected == idState = "forked" => evidence.via # "revoke"

\* Whoever changed the log through a session was an active device when the change was
\* made, although the session outlives a revocation or a recovery that came between
\* (authenticate_in_transaction), and nobody revoked the device it was using.
InitiatorWasActive ==
    \A n \in 2..Len(idLog) :
        LET who == authors[idLog[n]]
        IN  who # Nothing =>
               /\ ProjectionAt(n - 1).dev[who] = "active"
               /\ events[idLog[n]].kind = "revoke" => events[idLog[n]].dev # who

\* A device enters the log once in its life, through one event, and an approved card
\* names the event that enrolled its device, also after a card was pruned and created
\* again under the same key (DeviceAlreadyExists, mark_challenge_approved).
EnrolledOnce ==
    /\ \A m, n \in 1..Len(idLog) :
          (/\ events[idLog[m]].kind = "add" /\ events[idLog[n]].kind = "add"
           /\ events[idLog[m]].dev = events[idLog[n]].dev) => m = n
    /\ \A c \in Cards :
          cards[c].state = "approved" =>
              /\ receipts[cards[c].event] = "committed"
              /\ events[cards[c].event].dev = CardDevice[c]

\* What the devices of the log may rely on: its receipts and cards match it, a device
\* enters once, and only active devices change it through a session.
DevicesSound == IdentityTypeOK /\ EnrolledOnce /\ InitiatorWasActive
=============================================================================
