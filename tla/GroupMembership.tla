-------------------------- MODULE GroupMembership --------------------------
(***************************************************************************)
(* One group as its PostgreSQL rows: the policy of dtx-group-policy, the   *)
(* join workflows of dtx-membership-command with their sequencer outbox,   *)
(* and the MLS commit chain of dtx-group-persistence.                      *)
(*                                                                         *)
(* Every handler is one transaction that locks the policy head, loads the  *)
(* rows, validates them, applies the reducers and writes rows back, so an  *)
(* action is a whole handler.  What the program keeps in two places stays  *)
(* in two places: the policy's join records and the saga's workflows.      *)
(* Rows are upserted and never deleted, except the member row of a         *)
(* removal: a reservation the reducer drops keeps its row.                 *)
(*                                                                         *)
(* Every policy change names the revision its author read and is refused   *)
(* when that is not the current one, so a change that applies applies to   *)
(* the current revision.  A refused control command or join request leaves *)
(* only its own receipt and is left out; a refused approval ends the       *)
(* workflow and is the action RefuseApproval.  Repeats of a command read   *)
(* its receipt and change nothing.  Invitations are open to whoever holds  *)
(* them; those addressed to one identity only admit fewer requests.        *)
(***************************************************************************)
EXTENDS Naturals, Sequences, FiniteSets

CONSTANTS
    Owner,          \* the identity that created the group
    Persons,        \* the other identities
    Leafs,          \* devices that may hold an MLS leaf
    Holder,         \* the identity of each device
    Invitations,    \* invitation ids
    Requests,       \* join request ids
    GroupWorkers,   \* workers that lease sequencer actions
    MaxAdmins,      \* additional administrators of a group (5 in the code)
    MaxUses,        \* uses an invitation may be issued with
    InviteLife,     \* time until an invitation expires
    OutboxLease,    \* time a sequencer action is leased for
    MaxRevision, MaxEpoch, MaxClaims, GroupMaxTime   \* bounds

ASSUME GroupAssumption ==
    /\ Owner \notin Persons
    /\ Holder \in [Leafs -> Persons \cup {Owner}]
    /\ IsFiniteSet(Requests) /\ "nobody" \notin Requests
    /\ MaxAdmins \in Nat \ {0} /\ MaxUses \in Nat \ {0}
    /\ InviteLife \in Nat \ {0} /\ OutboxLease \in Nat \ {0}
    /\ MaxRevision \in Nat \ {0} /\ MaxEpoch \in Nat /\ MaxClaims \in Nat
    /\ GroupMaxTime \in Nat

VARIABLES
    revision,   \* policy_heads.policy_revision; 0 before the group exists
    terms,      \* admin_terms: authorization generation and whether it is active
    members,    \* members
    invites,    \* invites
    joins,      \* join_records: the policy's view of each request
    flows,      \* membership_workflows: the saga's view of each request
    outbox,     \* sequencer_outbox, one row per approved request
    commits,    \* mls_commit_intents in epoch order; the MLS head is the last
    leaves,     \* mls_device_members.state of each device
    groupNow,   \* the database clock
    claims,     \* the leased action each worker carries
    remote      \* external: what became of the submits of each request

groupVars == <<revision, terms, members, invites, joins, flows, outbox,
               commits, leaves, groupNow, claims, remote>>

Identities == Persons \cup {Owner}
Nobody == "nobody"
NoClaim == [req |-> Nobody, tok |-> 0, action |-> "none", answer |-> "none"]

NoInvite == [state |-> "none", issuer |-> Nobody, gen |-> 0, max |-> 0,
             used |-> 0, reserved |-> 0, expires |-> 0]
NoJoin == [state |-> "none", who |-> Nobody, invite |-> Nobody,
           by |-> Nobody, gen |-> 0]
NoFlow == [state |-> "none", dev |-> Nobody, head |-> 0]
NoRow == [state |-> "none", action |-> "none", tok |-> 0,
          leased |-> "none", until |-> 0, tries |-> 0]

\* No submit has been handed out.  `missed': a lookup found nothing since the last one was.
NotSubmitted == [state |-> "none", missed |-> FALSE]

GroupTypeOK ==
    /\ revision \in 0..MaxRevision
    /\ terms \in [Persons -> [gen : Nat, active : BOOLEAN]]
    /\ members \subseteq Identities
    /\ \A i \in Invitations :
          /\ invites[i].state \in {"none", "open", "revoked"}
          /\ invites[i].used + invites[i].reserved <= invites[i].max
    /\ \A r \in Requests :
          /\ joins[r].state \in {"none", "pending", "reserved", "approved"}
          /\ flows[r].state \in {"none", "pending_approval", "pending_commit",
                                 "reconciling", "committed", "rejected"}
          /\ outbox[r].state \in {"none", "active", "completed"}
          /\ remote[r].state \in {"none", "sent", "committed", "rejected"}
    /\ leaves \in [Leafs -> {"none", "pending", "active", "removed"}]
    /\ groupNow \in 0..GroupMaxTime

GroupInit ==
    /\ revision = 0
    /\ terms = [p \in Persons |-> [gen |-> 0, active |-> FALSE]]
    /\ members = {}
    /\ invites = [i \in Invitations |-> NoInvite]
    /\ joins = [r \in Requests |-> NoJoin]
    /\ flows = [r \in Requests |-> NoFlow]
    /\ outbox = [r \in Requests |-> NoRow]
    /\ commits = <<>>
    /\ leaves = [d \in Leafs |-> "none"]
    /\ groupNow = 0
    /\ claims = [w \in GroupWorkers |-> NoClaim]
    /\ remote = [r \in Requests |-> NotSubmitted]

-----------------------------------------------------------------------------
(* The policy. *)

Admins == {p \in Persons : terms[p].active}
epoch == Len(commits)

JoinsIn(state) == {r \in Requests : joins[r].state = state}

JoinsOf(i, state) == {r \in JoinsIn(state) : joins[r].invite = i}

\* The generation under which an identity acts now: 0 for the owner.
Authority(a) == IF a = Owner THEN 0 ELSE terms[a].gen

MayApprove(a) == a = Owner \/ a \in Admins

\* The term an invitation or a reservation was made under is still the
\* current one: revoking and granting again starts another generation.
TermCurrent(a, gen) ==
    \/ a = Owner
    \/ a \in Admins /\ terms[a].gen = gen

ActiveCandidates == {joins[r].who : r \in JoinsIn("pending") \cup JoinsIn("reserved")}

\* Whether the rows are an image the aggregate can be rebuilt from.
LoadsPolicy ==
    /\ revision > 0
    /\ Owner \in members
    /\ Cardinality(Admins) <= MaxAdmins
    /\ Admins \subseteq members
    /\ \A i \in Invitations :
          /\ invites[i].used + invites[i].reserved <= invites[i].max
          /\ invites[i].reserved = Cardinality(JoinsOf(i, "reserved"))
          /\ invites[i].used = Cardinality(JoinsOf(i, "approved"))
    /\ members \cap ActiveCandidates = {}
    /\ Cardinality(ActiveCandidates)
          = Cardinality(JoinsIn("pending") \cup JoinsIn("reserved"))
    /\ \A r \in JoinsIn("approved") : joins[r].who \in members

OccupiedByMembers(invite) == invite.used

\* One reservation occupies a use as an admission does.
Occupied(invite) == invite.used + invite.reserved

InviteUsable(i) ==
    /\ invites[i].state = "open"
    /\ groupNow < invites[i].expires
    /\ TermCurrent(invites[i].issuer, invites[i].gen)
    /\ Occupied(invites[i]) < invites[i].max

NextRevision ==
    /\ LoadsPolicy
    /\ revision < MaxRevision
    /\ revision' = revision + 1

CreateGroup ==
    /\ revision = 0
    /\ revision' = 1
    /\ members' = {Owner}
    /\ UNCHANGED <<terms, invites, joins, flows, outbox, commits, leaves,
                   groupNow, claims, remote>>

\* An administrator becomes a member in the same step.
GrantAdmin(p) ==
    /\ NextRevision
    /\ p \notin Admins
    /\ Cardinality(Admins) < MaxAdmins
    /\ terms' = [terms EXCEPT ![p] = [gen |-> @.gen + 1, active |-> TRUE]]
    /\ members' = members \cup {p}
    /\ UNCHANGED <<invites, joins, flows, outbox, commits, leaves,
                   groupNow, claims, remote>>

RevokeAdmin(p) ==
    /\ NextRevision
    /\ p \in Admins
    /\ terms' = [terms EXCEPT ![p].active = FALSE]
    /\ UNCHANGED <<members, invites, joins, flows, outbox, commits, leaves,
                   groupNow, claims, remote>>

IssueInvite(a, i) ==
    /\ NextRevision
    /\ MayApprove(a)
    /\ invites[i].state = "none"
    /\ invites' = [invites EXCEPT ![i] =
          [state |-> "open", issuer |-> a, gen |-> Authority(a),
           max |-> MaxUses, used |-> 0, reserved |-> 0,
           expires |-> groupNow + InviteLife]]
    /\ UNCHANGED <<terms, members, joins, flows, outbox, commits, leaves,
                   groupNow, claims, remote>>

RevokeInvite(i) ==
    /\ NextRevision
    /\ invites[i].state = "open"
    /\ invites' = [invites EXCEPT ![i].state = "revoked"]
    /\ UNCHANGED <<terms, members, joins, flows, outbox, commits, leaves,
                   groupNow, claims, remote>>

-----------------------------------------------------------------------------
(* Join requests and approvals. *)

RequestJoin(d, r, i) ==
    LET p == Holder[d] IN
    /\ NextRevision
    /\ flows[r].state = "none"
    /\ p \notin members
    /\ joins[r].state = "none"
    /\ p \notin ActiveCandidates
    /\ InviteUsable(i)
    /\ joins' = [joins EXCEPT ![r] =
          [state |-> "pending", who |-> p, invite |-> i, by |-> Nobody, gen |-> 0]]
    /\ flows' = [flows EXCEPT ![r] =
          [state |-> "pending_approval", dev |-> d, head |-> 0]]
    /\ UNCHANGED <<terms, members, invites, outbox, commits, leaves,
                   groupNow, claims, remote>>

\* What the reservation of a request needs of the policy.
Reservable(a, r) ==
    /\ MayApprove(a)
    /\ joins[r].state = "pending"
    /\ joins[r].who \notin members
    /\ InviteUsable(joins[r].invite)

\* The approval reserves one use and queues the submit; the head it names is
\* not compared with anything until the commit is submitted.
ApproveJoin(a, r, head) ==
    LET i == joins[r].invite IN
    /\ NextRevision
    /\ flows[r].state = "pending_approval"
    /\ Reservable(a, r)
    /\ joins' = [joins EXCEPT ![r].state = "reserved", ![r].by = a,
                              ![r].gen = Authority(a)]
    /\ invites' = [invites EXCEPT ![i].reserved = @ + 1]
    /\ flows' = [flows EXCEPT ![r].state = "pending_commit", ![r].head = head]
    /\ outbox' = [outbox EXCEPT ![r].state = "active", ![r].action = "submit"]
    /\ UNCHANGED <<terms, members, commits, leaves, groupNow, claims, remote>>

\* An approval the policy refuses (its author read an older revision, may not
\* approve, or the invitation is no longer usable) rejects the workflow for
\* good; only the saga's rows are written.
RefuseApproval(r) ==
    /\ LoadsPolicy
    /\ flows[r].state = "pending_approval"
    /\ flows' = [flows EXCEPT ![r].state = "rejected"]
    /\ UNCHANGED <<revision, terms, members, invites, joins, outbox, commits,
                   leaves, groupNow, claims, remote>>

\* A verified commit turns the reservation into a member and a used
\* invitation, whatever became of the invitation meanwhile.
Finalize(r) ==
    LET i == joins[r].invite IN
    /\ NextRevision
    /\ joins[r].state = "reserved"
    /\ joins[r].who \notin members
    /\ joins' = [joins EXCEPT ![r].state = "approved"]
    /\ invites' = [invites EXCEPT ![i].reserved = @ - 1, ![i].used = @ + 1]
    /\ members' = members \cup {joins[r].who}
    /\ flows' = [flows EXCEPT ![r].state = "committed"]
    /\ outbox' = [outbox EXCEPT ![r] =
          [NoRow EXCEPT !.state = "completed", !.action = outbox[r].action]]

\* The reducer drops the reservation and gives the use back; the upsert leaves
\* the reserved row of the request where it is.
Release(r) ==
    LET i == joins[r].invite IN
    /\ NextRevision
    /\ joins[r].state = "reserved"
    /\ invites' = [invites EXCEPT ![i].reserved = @ - 1]
    /\ flows' = [flows EXCEPT ![r].state = "rejected"]
    /\ outbox' = [outbox EXCEPT ![r] =
          [NoRow EXCEPT !.state = "completed", !.action = outbox[r].action]]
    /\ UNCHANGED <<members, joins>>

-----------------------------------------------------------------------------
(* The sequencer outbox: lease, call, resolve.  The lease is checked when the *)
(* worker comes back and nowhere before, so a submit that was handed out may  *)
(* reach the Sequencer at any later time, also when its worker is long gone.  *)

Claimable(r) ==
    /\ outbox[r].state = "active"
    /\ outbox[r].until <= groupNow
    /\ LoadsPolicy

\* The row is moved to `query' before the submit leaves: a worker that dies
\* after it can only be followed by a lookup.
RowAction(leased) == "query"

PrepareAction(w, r) ==
    LET act == outbox[r].action
        tok == outbox[r].tries + 1
    IN
    /\ Claimable(r)
    /\ tok <= MaxClaims
    /\ act = "submit" => TermCurrent(joins[r].by, joins[r].gen)
    /\ outbox' = [outbox EXCEPT ![r] =
          [state |-> "active", action |-> RowAction(act), tok |-> tok,
           leased |-> act, until |-> groupNow + OutboxLease, tries |-> tok]]
    /\ flows' = [flows EXCEPT ![r].state =
                    IF act = "submit" THEN "reconciling" ELSE @]
    /\ claims' = [claims EXCEPT ![w] =
          [req |-> r, tok |-> tok, action |-> act, answer |-> "none"]]
    /\ remote' = [remote EXCEPT ![r] =
          IF act = "submit"
            THEN [state |-> IF @.state = "none" THEN "sent" ELSE @.state, missed |-> FALSE]
            ELSE @]
    /\ UNCHANGED <<revision, terms, members, invites, joins, commits, leaves,
                   groupNow>>

PrepareRevokedAny(r) ==
    /\ Claimable(r)
    /\ ~TermCurrent(joins[r].by, joins[r].gen)
    /\ Release(r)
    /\ UNCHANGED <<terms, commits, leaves, groupNow, claims, remote>>

\* The administrator who reserved has lost that term before anything was
\* sent: the intent is rejected locally.
PrepareRevoked(r) ==
    /\ Claimable(r)
    /\ outbox[r].action = "submit"
    /\ ~TermCurrent(joins[r].by, joins[r].gen)
    /\ Release(r)
    /\ UNCHANGED <<terms, commits, leaves, groupNow, claims, remote>>

\* External: a submit that was sent arrives and is decided; the Sequencer knows the
\* command by its id and digest, so repeats of it change nothing.
SequencerDecides(r) ==
    /\ remote[r].state = "sent"
    /\ \E done \in {"committed", "rejected"} :
          remote' = [remote EXCEPT ![r].state = done]
    /\ UNCHANGED <<revision, terms, members, invites, joins, flows, outbox,
                   commits, leaves, groupNow, claims>>

\* External: a call returns with what was decided, or a lookup with nothing, or
\* its answer is lost.
SequencerAnswers(w) ==
    LET c == claims[w]
        decided == {remote[c.req].state} \cap {"committed", "rejected"}
    IN
    /\ c.req # Nobody
    /\ c.answer = "none"
    /\ \E answer \in {"unknown"} \cup decided
                     \cup (IF c.action = "query" /\ decided = {} THEN {"absent"} ELSE {}) :
          /\ claims' = [claims EXCEPT ![w].answer = answer]
          /\ remote' = [remote EXCEPT ![c.req].missed = @ \/ answer = "absent"]
    /\ UNCHANGED <<revision, terms, members, invites, joins, flows, outbox,
                   commits, leaves, groupNow>>

\* The row still carries the worker's token and the lease has not run out.
LeaseHeld(c) ==
    /\ outbox[c.req].state = "active"
    /\ outbox[c.req].tok = c.tok
    /\ groupNow < outbox[c.req].until

ResolveAction(w) ==
    LET c == claims[w]
        r == c.req
        Rearm(action, state) ==
            /\ outbox' = [outbox EXCEPT ![r] =
                  [NoRow EXCEPT !.state = "active", !.action = action,
                                !.tries = outbox[r].tries]]
            /\ flows' = [flows EXCEPT ![r].state = state]
            /\ UNCHANGED <<revision, members, invites, joins>>
    IN
    /\ r # Nobody
    /\ c.answer # "none"
    /\ LoadsPolicy
    /\ LeaseHeld(c)
    /\ flows[r].state \in {"pending_commit", "reconciling"}
    /\ \/ c.answer = "committed" /\ Finalize(r)
       \/ c.answer = "rejected" /\ Release(r)
       \/ c.answer = "unknown" /\ Rearm("query", "reconciling")
       \/ c.answer = "absent" /\ flows[r].state = "reconciling"
            /\ Rearm("submit", "pending_commit")
    /\ claims' = [claims EXCEPT ![w] = NoClaim]
    /\ UNCHANGED <<terms, commits, leaves, groupNow, remote>>

-----------------------------------------------------------------------------
(* The MLS sequencer.  A commit names the epoch and head it extends and is    *)
(* refused unless they are current, so it extends the current ones.           *)

Append1(kind, d, r) ==
    /\ epoch < MaxEpoch
    /\ commits' = Append(commits, [kind |-> kind, dev |-> d, req |-> r])

ActiveLeaves(p) == {d \in Leafs : Holder[d] = p /\ leaves[d] = "active"}

LiveLeaves(p) == {d \in Leafs : Holder[d] = p /\ leaves[d] \in {"pending", "active"}}

MlsBootstrap(d) ==
    /\ revision > 0
    /\ Holder[d] = Owner
    /\ epoch = 0
    /\ \A e \in Leafs : leaves[e] = "none"
    /\ Append1("bootstrap", d, Nobody)
    /\ leaves' = [leaves EXCEPT ![d] = "pending"]
    /\ UNCHANGED <<revision, terms, members, invites, joins, flows, outbox,
                   groupNow, claims, remote>>

InFlight(r) == flows[r].state \in {"pending_commit", "reconciling"}

\* Only an approval whose row asks for a submit may be committed here.
Undispatched(r) == flows[r].state = "pending_commit"

\* The commit of an approved join: the leaf, the commit and the member are
\* written together, against the head the approval named.
MlsJoin(r) ==
    LET d == flows[r].dev IN
    /\ Undispatched(r)
    /\ flows[r].head = epoch /\ epoch > 0
    /\ leaves[d] = "none"
    /\ Append1("join", d, r)
    /\ leaves' = [leaves EXCEPT ![d] = "pending"]
    /\ Finalize(r)
    /\ UNCHANGED <<terms, groupNow, claims, remote>>

\* Another device of a member, vouched for by one of its active leaves.
MlsAddDevice(d) ==
    /\ epoch > 0
    /\ Holder[d] \in members
    /\ leaves[d] = "none"
    /\ ActiveLeaves(Holder[d]) # {}
    /\ Append1("add", d, Nobody)
    /\ leaves' = [leaves EXCEPT ![d] = "pending"]
    /\ UNCHANGED <<revision, terms, members, invites, joins, flows, outbox,
                   groupNow, claims, remote>>

\* A member's other device takes a revoked one out.  That the identity log
\* revoked it is the identity service's fact.
MlsRemoveDevice(d) ==
    /\ Holder[d] \in members
    /\ leaves[d] = "active"
    /\ ActiveLeaves(Holder[d]) \ {d} # {}
    /\ Append1("drop", d, Nobody)
    /\ leaves' = [leaves EXCEPT ![d] = "removed"]
    /\ UNCHANGED <<revision, terms, members, invites, joins, flows, outbox,
                   groupNow, claims, remote>>

AnyLeaf(p, d) == d \in LiveLeaves(p)

\* The one commit of a removal takes one leaf out, so it must be the only one.
OnlyLeaf(p, d) == LiveLeaves(p) = {d}

\* The owner removes a member: policy row, term, leaf and commit together.
MlsRemoveMember(d) ==
    LET p == Holder[d] IN
    /\ p # Owner
    /\ p \in members
    /\ leaves[d] = "active"
    /\ OnlyLeaf(p, d)
    /\ ActiveLeaves(Owner) # {}
    /\ NextRevision
    /\ Append1("remove", d, Nobody)
    /\ members' = members \ {p}
    /\ terms' = [terms EXCEPT ![p].active = FALSE]
    /\ leaves' = [leaves EXCEPT ![d] = "removed"]
    /\ UNCHANGED <<invites, joins, flows, outbox, groupNow, claims, remote>>

ConfirmLeaf(d) ==
    /\ leaves[d] = "pending"
    /\ leaves' = [leaves EXCEPT ![d] = "active"]
    /\ UNCHANGED <<revision, terms, members, invites, joins, flows, outbox,
                   commits, groupNow, claims, remote>>

GroupTick ==
    /\ groupNow < GroupMaxTime
    /\ groupNow' = groupNow + 1
    /\ UNCHANGED <<revision, terms, members, invites, joins, flows, outbox,
                   commits, leaves, claims, remote>>

PolicyNext ==
    \/ CreateGroup
    \/ \E p \in Persons : GrantAdmin(p) \/ RevokeAdmin(p)
    \/ \E i \in Invitations :
          \/ RevokeInvite(i)
          \/ \E a \in Identities : IssueInvite(a, i)

SagaNext ==
    \/ \E r \in Requests :
          \/ \E d \in Leafs, i \in Invitations : RequestJoin(d, r, i)
          \/ \E a \in Identities, head \in 0..epoch : ApproveJoin(a, r, head)
          \/ RefuseApproval(r)

OutboxNext ==
    \/ \E r \in Requests :
          \/ PrepareRevoked(r) \/ SequencerDecides(r)
          \/ \E w \in GroupWorkers : PrepareAction(w, r)
    \/ \E w \in GroupWorkers : SequencerAnswers(w) \/ ResolveAction(w)
    \/ GroupTick

MlsNext ==
    \/ \E r \in Requests : MlsJoin(r)
    \/ \E d \in Leafs :
          \/ MlsBootstrap(d) \/ MlsAddDevice(d) \/ MlsRemoveDevice(d)
          \/ MlsRemoveMember(d) \/ ConfirmLeaf(d)

GroupNext == PolicyNext \/ SagaNext \/ OutboxNext \/ MlsNext

GroupSpec == GroupInit /\ [][GroupNext]_groupVars

-----------------------------------------------------------------------------
(* Properties. *)

\* An invitation admits no more candidates than it was issued for, counting
\* the approvals under way: the reservation taken at approval is what keeps two
\* commits that return late from both using the last place.
AdmissionsBounded ==
    \A i \in Invitations :
       /\ Cardinality(JoinsOf(i, "approved")) = invites[i].used
       /\ Cardinality(JoinsOf(i, "approved")) + invites[i].reserved <= invites[i].max

\* The policy's join record, the workflow and the outbox row of a request tell
\* one story although three tables are written by seven handlers: a commit in
\* flight has its reservation and an active row whose action says whether
\* anything was sent, and a committed workflow has its approved record.
SagaAligned ==
    \A r \in Requests :
       /\ flows[r].state = "pending_approval" => joins[r].state = "pending"
       /\ InFlight(r) <=> outbox[r].state = "active"
       /\ InFlight(r) =>
            /\ joins[r].state = "reserved"
            /\ outbox[r].action = IF Undispatched(r) THEN "submit" ELSE "query"
       /\ flows[r].state = "committed" <=> joins[r].state = "approved"

CommitsOf(r) == {e \in 1..epoch : commits[e].req = r}

\* Nobody becomes a member through a request that neither the MLS chain nor the
\* Sequencer committed, and the chain commits a request at most once.
AdmittedByCommit ==
    \A r \in Requests :
       /\ Cardinality(CommitsOf(r)) <= 1
       /\ joins[r].state = "approved" => CommitsOf(r) # {} \/ remote[r].state = "committed"

\* A request whose submit was handed out is rejected here without the Sequencer's
\* rejection, or committed by the MLS chain, only after a lookup that came after its
\* last submit found it absent: a lost answer, a worker that returns after its lease
\* and an old lookup never settle it (prepare_next_action, resolve_action).
UncertainUntilLookup ==
    \A r \in Requests :
       \/ remote[r].state = "none" \/ remote[r].missed
       \/ CommitsOf(r) = {} /\ (flows[r].state = "rejected" => remote[r].state = "rejected")

\* "Persists a definitive local policy rejection before any Sequencer effect", for a
\* "never-dispatched submit intent" (book.rs, 439-449): what was rejected here the
\* Sequencer never commits.
RejectionDefinite ==
    \A r \in Requests : flows[r].state = "rejected" => remote[r].state # "committed"

\* Whoever holds a live MLS leaf is a member of the group: a removal leaves no
\* second leaf of the removed identity behind.
LeafHasMember ==
    \A d \in Leafs : leaves[d] \in {"pending", "active"} => Holder[d] \in members

\* The policy a handler wrote can be loaded by the next handler.
ImageLoads == revision > 0 => LoadsPolicy

\* The three tables of a join and the counters of its invitation agree.
JoinTablesAgree == GroupTypeOK /\ AdmissionsBounded /\ SagaAligned

\* What the group did about a request and what it may know of the Sequencer agree.
OutcomeAgrees == AdmittedByCommit /\ UncertainUntilLookup
=============================================================================
