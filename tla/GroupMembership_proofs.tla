----------------------- MODULE GroupMembership_proofs -----------------------
(***************************************************************************)
(* Proofs about a group for any identities, devices, invitations, requests *)
(* and workers: the tables of a join tell one story, a request is admitted *)
(* once whoever commits it, and live leaves belong to members.             *)
(***************************************************************************)
EXTENDS GroupMembership, TLAPS, FiniteSetTheorems

USE GroupAssumption

-----------------------------------------------------------------------------
(* The inductive invariant *)

Actions == {"none", "submit", "query"}
Decisions == {"none", "sent", "committed", "rejected"}
Answers == {"none", "unknown", "absent", "committed", "rejected"}

TermRow   == [gen : Nat, active : BOOLEAN]
InviteRow == [state : {"none", "open", "revoked"}, issuer : Identities \cup {Nobody}, gen : Nat,
              max : Nat, used : Nat, reserved : Nat, expires : Nat]
JoinRow   == [state : {"none", "pending", "reserved", "approved"},
              who : Identities \cup {Nobody}, invite : Invitations \cup {Nobody},
              by : Identities \cup {Nobody}, gen : Nat]
FlowRow   == [state : {"none", "pending_approval", "pending_commit", "reconciling", "committed",
                       "rejected"},
              dev : Leafs \cup {Nobody}, head : Nat]
OutboxRow == [state : {"none", "active", "completed"}, action : Actions, tok : Nat,
              leased : Actions, until : Nat, tries : Nat]
ClaimRow  == [req : Requests \cup {Nobody}, tok : Nat, action : Actions,
              answer : Answers]
RemoteRow == [state : Decisions, missed : BOOLEAN]
CommitKinds == {"bootstrap", "join", "add", "drop", "remove"}
CommitRow == [kind : CommitKinds, dev : Leafs, req : Requests \cup {Nobody}]

GroupRows ==
    /\ revision \in 0..MaxRevision
    /\ terms \in [Persons -> TermRow]
    /\ members \subseteq Identities
    /\ invites \in [Invitations -> InviteRow]
    /\ joins \in [Requests -> JoinRow]
    /\ flows \in [Requests -> FlowRow]
    /\ outbox \in [Requests -> OutboxRow]
    /\ commits \in Seq(CommitRow)
    /\ leaves \in [Leafs -> {"none", "pending", "active", "removed"}]
    /\ groupNow \in 0..GroupMaxTime
    /\ claims \in [GroupWorkers -> ClaimRow]
    /\ remote \in [Requests -> RemoteRow]

\* The group exists exactly when it has members, and then its owner is one.
GroupExists ==
    /\ revision = 0 => members = {}
    /\ revision > 0 => Owner \in members

\* An invitation counts the requests it admitted and has places for those under way.
InviteCounts(i) ==
    /\ invites[i].used + invites[i].reserved <= invites[i].max
    /\ invites[i].used = Cardinality(JoinsOf(i, "approved"))

\* What is known of a request that was made.
RequestMade(r) ==
    joins[r].state # "none" =>
        /\ joins[r].invite \in Invitations /\ invites[joins[r].invite].state # "none"
        /\ flows[r].dev \in Leafs /\ joins[r].who = Holder[flows[r].dev]

\* The three tables of a request.
RequestAligned(r) ==
    /\ flows[r].state = "pending_approval" => joins[r].state = "pending"
    /\ InFlight(r) <=> outbox[r].state = "active"
    /\ InFlight(r) =>
         /\ joins[r].state = "reserved"
         /\ outbox[r].action = IF Undispatched(r) THEN "submit" ELSE "query"
    /\ flows[r].state = "committed" <=> joins[r].state = "approved"

\* A row is leased only while something may have been sent for it.
RowLeased(r) ==
    /\ flows[r].state \in {"none", "pending_approval"} => outbox[r].state = "none"
    /\ flows[r].state # "reconciling" => outbox[r].tok = 0

\* What a worker carries: its token is one the row has handed out, a current token stands for
\* the action the row was leased for, and an answer is what the Sequencer decided; that a lookup
\* found nothing is still so when it was made under the current token, whatever arrives later.
ClaimKnown(w) ==
    LET c == claims[w] IN
    c.req # Nobody =>
        /\ c.tok > 0 /\ outbox[c.req].state # "none"
        /\ outbox[c.req].state = "active" => c.tok <= outbox[c.req].tries
        /\ c.tok = outbox[c.req].tok => c.action = outbox[c.req].leased
        /\ c.answer \in {"committed", "rejected"} => remote[c.req].state = c.answer
        /\ c.answer = "absent" =>
              /\ c.action = "query"
              /\ c.tok = outbox[c.req].tok => remote[c.req].missed

\* No submit of the request was handed out since it was last known to be absent.
Absent(r) == remote[r].state = "none" \/ remote[r].missed

\* Who settled a request: the MLS chain or a local rejection only while it is absent, the
\* Sequencer otherwise, and one of them for a workflow that is committed.
Decided(r) ==
    /\ flows[r].state \in {"none", "pending_approval"} => remote[r].state = "none"
    /\ flows[r].state = "pending_commit" => Absent(r)
    /\ flows[r].state # "committed" => CommitsOf(r) = {}
    /\ flows[r].state = "committed" =>
          \/ Cardinality(CommitsOf(r)) = 1 /\ Absent(r)
          \/ CommitsOf(r) = {} /\ remote[r].state = "committed"
    /\ flows[r].state = "rejected" => Absent(r) \/ remote[r].state = "rejected"

GroupInv ==
    /\ GroupRows
    /\ GroupExists
    /\ \A i \in Invitations : InviteCounts(i)
    /\ \A r \in Requests : RequestMade(r) /\ RequestAligned(r) /\ RowLeased(r) /\ Decided(r)
    /\ \A w \in GroupWorkers : ClaimKnown(w)
    /\ LeafHasMember

-----------------------------------------------------------------------------
(* Rows and their fields *)

\* The fields of the rows of a request.
LEMMA RequestFields ==
    ASSUME GroupInv, NEW r \in Requests
    PROVE  /\ joins[r] \in JoinRow /\ flows[r] \in FlowRow /\ outbox[r] \in OutboxRow
           /\ remote[r] \in RemoteRow /\ remote[r].state \in Decisions
           /\ joins[r].state \in {"none", "pending", "reserved", "approved"}
           /\ flows[r].state \in {"none", "pending_approval", "pending_commit", "reconciling",
                                  "committed", "rejected"}
           /\ outbox[r].state \in {"none", "active", "completed"} /\ outbox[r].action \in Actions
           /\ outbox[r].tok \in Nat /\ outbox[r].tries \in Nat
           /\ RequestMade(r) /\ RequestAligned(r) /\ RowLeased(r) /\ Decided(r)
<1>1. joins[r] \in JoinRow /\ flows[r] \in FlowRow /\ outbox[r] \in OutboxRow
      /\ remote[r] \in RemoteRow
  BY DEF GroupInv, GroupRows
<1> QED
  BY <1>1 DEF GroupInv, JoinRow, FlowRow, OutboxRow, RemoteRow

\* The fields of an invitation.
LEMMA InviteFields ==
    ASSUME GroupInv, NEW i \in Invitations
    PROVE  /\ invites[i] \in InviteRow /\ InviteCounts(i)
           /\ invites[i].state \in {"none", "open", "revoked"}
           /\ invites[i].used \in Nat /\ invites[i].reserved \in Nat /\ invites[i].max \in Nat
BY DEF GroupInv, GroupRows, InviteRow

\* The fields of what a worker carries.
LEMMA ClaimFields ==
    ASSUME GroupInv, NEW w \in GroupWorkers
    PROVE  /\ claims[w] \in ClaimRow /\ ClaimKnown(w)
           /\ claims[w].req \in Requests \cup {Nobody} /\ claims[w].tok \in Nat
           /\ claims[w].action \in Actions
           /\ claims[w].answer \in Answers
BY DEF GroupInv, GroupRows, ClaimRow

\* Sets of requests are finite, whatever selects them.
LEMMA JoinsFinite ==
    ASSUME NEW i, NEW state
    PROVE  /\ IsFiniteSet(JoinsOf(i, state)) /\ Cardinality(JoinsOf(i, state)) \in Nat
           /\ JoinsOf(i, state) = {r \in Requests : joins[r].state = state /\ joins[r].invite = i}
<1>1. JoinsOf(i, state) = {r \in Requests : joins[r].state = state /\ joins[r].invite = i}
  BY DEF JoinsOf, JoinsIn
<1>2. JoinsOf(i, state) \subseteq Requests
  BY <1>1
<1> QED
  BY <1>1, <1>2, FS_Subset, FS_CardinalityType

\* A policy that loads has counted a reservation before it is finalised or released.
LEMMA ReservationCounted ==
    ASSUME GroupInv, LoadsPolicy, NEW r \in Requests, joins[r].state = "reserved"
    PROVE  /\ joins[r].invite \in Invitations
           /\ invites[joins[r].invite].reserved - 1 \in Nat
<1> DEFINE i == joins[r].invite
<1>1. i \in Invitations
  BY RequestFields DEF RequestMade
<1>2. r \in JoinsOf(i, "reserved")
  BY DEF JoinsOf, JoinsIn
<1>3. IsFiniteSet(JoinsOf(i, "reserved")) /\ Cardinality(JoinsOf(i, "reserved")) \in Nat
  BY JoinsFinite
<1>4. Cardinality(JoinsOf(i, "reserved")) # 0
  BY <1>2, <1>3, FS_EmptySet
<1>5. invites[i].reserved = Cardinality(JoinsOf(i, "reserved"))
  BY <1>1 DEF LoadsPolicy
<1>6. invites[i].reserved - 1 \in Nat
  <2> HIDE DEF i
  <2> QED
    BY <1>3, <1>4, <1>5
<1> QED
  BY <1>1, <1>6

-----------------------------------------------------------------------------
(* What a step leaves of the other requests *)

\* Everything recorded of a request stays.
Untouched(r) ==
    /\ joins'[r] = joins[r] /\ flows'[r] = flows[r] /\ outbox'[r] = outbox[r]
    /\ remote'[r] = remote[r] /\ CommitsOf(r)' = CommitsOf(r)

\* Invitations that were issued stay issued.
InvitesStay == \A i \in Invitations : invites[i].state # "none" => invites'[i].state # "none"

RequestSound(r) == RequestMade(r) /\ RequestAligned(r) /\ RowLeased(r) /\ Decided(r)

\* A request nothing is written about keeps its story.
LEMMA UntouchedSound ==
    ASSUME GroupInv, NEW r \in Requests, Untouched(r), InvitesStay
    PROVE  RequestSound(r)'
<1>1. RequestSound(r)
  BY DEF GroupInv, RequestSound
<1>2. RequestMade(r)'
  BY <1>1 DEF Untouched, InvitesStay, RequestSound, RequestMade
<1>3. RequestAligned(r)' /\ RowLeased(r)'
  BY <1>1 DEF Untouched, RequestSound, RequestAligned, RowLeased, InFlight, Undispatched
<1>4. Decided(r)'
  BY <1>1 DEF Untouched, RequestSound, Decided, Absent
<1> QED
  BY <1>2, <1>3, <1>4 DEF RequestSound

\* A worker that keeps its claim on such a request keeps what it knows.
LEMMA UntouchedClaim ==
    ASSUME GroupInv, NEW w \in GroupWorkers, claims'[w] = claims[w],
           claims[w].req # Nobody => Untouched(claims[w].req)
    PROVE  ClaimKnown(w)'
BY ClaimFields DEF Untouched, ClaimKnown

\* The commits of a request depend on the chain only.
LEMMA ChainKept ==
    ASSUME commits' = commits, NEW r
    PROVE  CommitsOf(r)' = CommitsOf(r)
BY DEF CommitsOf, epoch

\* An appended commit is one of its request and of no other.
LEMMA ChainGrows ==
    ASSUME GroupInv, NEW kind, NEW d, NEW q, Append1(kind, d, q)
    PROVE  /\ \A r : r # q => CommitsOf(r)' = CommitsOf(r)
           /\ CommitsOf(q)' = CommitsOf(q) \cup {epoch + 1}
           /\ (kind \in CommitKinds /\ d \in Leafs /\ q \in Requests \cup {Nobody}) =>
                 commits' \in Seq(CommitRow)
<1> DEFINE c == [kind |-> kind, dev |-> d, req |-> q]
<1>1. commits \in Seq(CommitRow) /\ commits' = Append(commits, c)
  BY DEF GroupInv, GroupRows, Append1
<1>2. c.req = q
  OBVIOUS
<1>3. (kind \in CommitKinds /\ d \in Leafs /\ q \in Requests \cup {Nobody}) => c \in CommitRow
  BY DEF CommitRow
<1> HIDE DEF c
<1>4. /\ Len(commits) \in Nat /\ Len(commits') = Len(commits) + 1
      /\ commits'[Len(commits) + 1] = c
      /\ \A e \in 1..Len(commits) : commits'[e] = commits[e]
  BY <1>1
<1>5. ASSUME NEW r
      PROVE  CommitsOf(r)' = CommitsOf(r) \cup (IF r = q THEN {epoch + 1} ELSE {})
  <2>1. CommitsOf(r)' = {e \in 1..(Len(commits) + 1) : commits'[e].req = r}
    BY <1>4 DEF CommitsOf, epoch
  <2>2. CommitsOf(r) = {e \in 1..Len(commits) : commits[e].req = r}
    BY DEF CommitsOf, epoch
  <2>3. 1..(Len(commits) + 1) = (1..Len(commits)) \cup {Len(commits) + 1}
    BY <1>4
  <2>4. commits'[Len(commits) + 1].req = q
    BY <1>2, <1>4
  <2> QED
    BY <1>4, <2>1, <2>2, <2>3, <2>4 DEF epoch
<1>6. c \in CommitRow => commits' \in Seq(CommitRow)
  BY <1>1
<1> QED
  BY <1>3, <1>5, <1>6

\* A step that writes about one request at most.
LEMMA OneRequestKeeps ==
    ASSUME GroupInv, NEW q, \A r \in Requests \ {q} : Untouched(r), InvitesStay,
           q \in Requests => RequestSound(q)',
           GroupRows', GroupExists', \A i \in Invitations : InviteCounts(i)', LeafHasMember',
           \A w \in GroupWorkers : ClaimKnown(w)'
    PROVE  GroupInv'
<1>1. \A r \in Requests : RequestSound(r)'
  BY UntouchedSound
<1> QED
  BY <1>1 DEF GroupInv, RequestSound

\* A step that writes about no request.
LEMMA QuietKeeps ==
    ASSUME GroupInv, UNCHANGED <<joins, flows, outbox, claims, remote>>,
           \A r \in Requests : CommitsOf(r)' = CommitsOf(r), InvitesStay,
           GroupRows', GroupExists', \A i \in Invitations : InviteCounts(i)', LeafHasMember'
    PROVE  GroupInv'
<1>1. \A r \in Requests : Untouched(r)
  BY DEF Untouched
<1>2. ASSUME NEW w \in GroupWorkers PROVE ClaimKnown(w)'
  BY <1>1, ClaimFields, UntouchedClaim
<1>3. \A r \in Requests : RequestSound(r)'
  BY <1>1, UntouchedSound
<1> QED
  BY <1>2, <1>3 DEF GroupInv, RequestSound

\* The requests an invitation admitted stay the same.
LEMMA CountsKept ==
    ASSUME GroupInv, NEW i \in Invitations, invites'[i].used = invites[i].used,
           invites'[i].used + invites'[i].reserved <= invites'[i].max,
           \A r \in Requests :
              (joins'[r].state = "approved" /\ joins'[r].invite = i)
                 <=> (joins[r].state = "approved" /\ joins[r].invite = i)
    PROVE  InviteCounts(i)'
<1>1. JoinsOf(i, "approved")' = JoinsOf(i, "approved")
  BY DEF JoinsOf, JoinsIn
<1> QED
  BY <1>1 DEF GroupInv, InviteCounts

\* No invitation changes and no request is admitted.
LEMMA InvitesKept ==
    ASSUME GroupInv, invites' = invites, joins' = joins
    PROVE  InvitesStay /\ \A i \in Invitations : InviteCounts(i)'
BY CountsKept DEF GroupInv, InviteCounts, InvitesStay

\* Leaves and members stay.
LEMMA LeavesKept ==
    ASSUME GroupInv, leaves' = leaves, members \subseteq members'
    PROVE  LeafHasMember'
BY DEF GroupInv, LeafHasMember

-----------------------------------------------------------------------------
(* The policy *)

\* The group begins with its owner.
LEMMA CreateKeeps == ASSUME GroupInv, CreateGroup PROVE GroupInv'
<1>1. /\ revision = 0 /\ revision' = 1 /\ members' = {Owner}
      /\ UNCHANGED <<terms, invites, joins, flows, outbox, commits, leaves, groupNow, claims, remote>>
  BY DEF CreateGroup
<1>2. members = {} /\ GroupRows
  BY <1>1 DEF GroupInv, GroupExists
<1>3. GroupRows'
  BY <1>1, <1>2 DEF GroupRows, Identities
<1>4. GroupExists' /\ LeafHasMember'
  BY <1>1, <1>2, LeavesKept DEF GroupExists
<1>5. \A r \in Requests : CommitsOf(r)' = CommitsOf(r)
  BY <1>1, ChainKept
<1> QED
  BY <1>1, <1>3, <1>4, <1>5, InvitesKept, QuietKeeps

\* What a change of the policy does to the revision.
LEMMA RevisionGrows ==
    ASSUME GroupInv, NextRevision
    PROVE  /\ LoadsPolicy /\ revision' \in 0..MaxRevision /\ revision' > 0
           /\ revision > 0 /\ Owner \in members
BY DEF GroupInv, GroupRows, NextRevision, LoadsPolicy

\* An administrator is appointed.
LEMMA GrantKeeps == ASSUME GroupInv, NEW p \in Persons, GrantAdmin(p) PROVE GroupInv'
<1>1. /\ NextRevision /\ members' = members \cup {p}
      /\ terms' = [terms EXCEPT ![p] = [gen |-> @.gen + 1, active |-> TRUE]]
      /\ UNCHANGED <<invites, joins, flows, outbox, commits, leaves, groupNow, claims, remote>>
  BY DEF GrantAdmin
<1>2. GroupRows /\ revision' \in 0..MaxRevision /\ revision' > 0 /\ Owner \in members
  BY <1>1, RevisionGrows DEF GroupInv
<1>3. terms' \in [Persons -> TermRow]
  <2>1. terms \in [Persons -> TermRow] /\ terms[p].gen \in Nat
    BY <1>2 DEF GroupRows, TermRow
  <2>2. [gen |-> terms[p].gen + 1, active |-> TRUE] \in TermRow
    BY <2>1 DEF TermRow
  <2> QED
    BY <1>1, <2>1, <2>2
<1>4. GroupRows'
  BY <1>1, <1>2, <1>3 DEF GroupRows, Identities
<1>5. GroupExists' /\ LeafHasMember'
  BY <1>1, <1>2, LeavesKept DEF GroupExists
<1>6. \A r \in Requests : CommitsOf(r)' = CommitsOf(r)
  BY <1>1, ChainKept
<1> QED
  BY <1>1, <1>4, <1>5, <1>6, InvitesKept, QuietKeeps

\* The term of a person ends.
LEMMA TermEnds ==
    ASSUME GroupInv, NEW p \in Persons, terms' = [terms EXCEPT ![p].active = FALSE]
    PROVE  terms' \in [Persons -> TermRow]
<1>1. terms \in [Persons -> TermRow] /\ terms[p] \in TermRow
  BY DEF GroupInv, GroupRows
<1>2. [terms[p] EXCEPT !.active = FALSE] \in TermRow
  BY <1>1 DEF TermRow
<1> QED
  BY <1>1, <1>2

\* An administrator loses the term.
LEMMA RevokeKeeps == ASSUME GroupInv, NEW p \in Persons, RevokeAdmin(p) PROVE GroupInv'
<1>1. /\ NextRevision /\ terms' = [terms EXCEPT ![p].active = FALSE]
      /\ UNCHANGED <<members, invites, joins, flows, outbox, commits, leaves, groupNow, claims,
                     remote>>
  BY DEF RevokeAdmin
<1>2. GroupRows /\ revision' \in 0..MaxRevision /\ revision' > 0 /\ Owner \in members
  BY <1>1, RevisionGrows DEF GroupInv
<1>3. terms' \in [Persons -> TermRow]
  BY <1>1, TermEnds
<1>4. GroupRows'
  BY <1>1, <1>2, <1>3 DEF GroupRows
<1>5. GroupExists' /\ LeafHasMember'
  BY <1>1, <1>2, LeavesKept DEF GroupExists
<1>6. \A r \in Requests : CommitsOf(r)' = CommitsOf(r)
  BY <1>1, ChainKept
<1> QED
  BY <1>1, <1>4, <1>5, <1>6, InvitesKept, QuietKeeps

\* A new invitation has admitted nobody: no request can have named it before.
LEMMA IssueKeeps ==
    ASSUME GroupInv, NEW a \in Identities, NEW i \in Invitations, IssueInvite(a, i)
    PROVE  GroupInv'
<1> DEFINE n == [state |-> "open", issuer |-> a, gen |-> Authority(a), max |-> MaxUses,
                 used |-> 0, reserved |-> 0, expires |-> groupNow + InviteLife]
<1>1. /\ NextRevision /\ invites[i].state = "none" /\ invites' = [invites EXCEPT ![i] = n]
      /\ UNCHANGED <<terms, members, joins, flows, outbox, commits, leaves, groupNow, claims,
                     remote>>
  BY DEF IssueInvite
<1>2. GroupRows /\ revision' \in 0..MaxRevision /\ revision' > 0 /\ Owner \in members
  BY <1>1, RevisionGrows DEF GroupInv
<1>3. Authority(a) \in Nat
  BY <1>2 DEF GroupRows, TermRow, Authority, Identities
<1>4. n \in InviteRow /\ n.state = "open" /\ n.used = 0 /\ n.reserved = 0 /\ n.max = MaxUses
  <2>1. groupNow + InviteLife \in Nat
    BY <1>2 DEF GroupRows
  <2> QED
    BY <1>3, <2>1 DEF InviteRow
<1> HIDE DEF n
<1>5. /\ invites \in [Invitations -> InviteRow] /\ invites' \in [Invitations -> InviteRow]
      /\ invites'[i] = n /\ \A j \in Invitations \ {i} : invites'[j] = invites[j]
  BY <1>1, <1>2, <1>4 DEF GroupRows
<1>6. GroupRows'
  BY <1>1, <1>2, <1>5 DEF GroupRows
<1>7. GroupExists' /\ LeafHasMember'
  BY <1>1, <1>2, LeavesKept DEF GroupExists
<1>8. InvitesStay
  BY <1>4, <1>5 DEF InvitesStay
<1>9. ASSUME NEW j \in Invitations PROVE InviteCounts(j)'
  <2>1. JoinsOf(i, "approved") = {}
    <3>1. \A r \in Requests : ~(joins[r].state = "approved" /\ joins[r].invite = i)
      BY <1>1 DEF GroupInv, RequestMade
    <3> QED
      BY <3>1 DEF JoinsOf, JoinsIn
  <2>2. Cardinality(JoinsOf(i, "approved")) = 0
    BY <2>1, FS_EmptySet
  <2>3. InviteCounts(i) /\ invites[i].used = 0
    BY <2>2, InviteFields DEF InviteCounts
  <2>4. CASE j = i
    <3>1. invites'[i].used = invites[i].used
          /\ invites'[i].used + invites'[i].reserved <= invites'[i].max
      BY <1>4, <1>5, <2>3
    <3> QED
      BY <1>1, <2>4, <3>1, CountsKept
  <2>5. CASE j # i
    BY <1>1, <1>5, <2>5, CountsKept, InviteFields DEF InviteCounts
  <2> QED
    BY <2>4, <2>5
<1>10. \A r \in Requests : CommitsOf(r)' = CommitsOf(r)
  BY <1>1, ChainKept
<1> QED
  BY <1>1, <1>6, <1>7, <1>8, <1>9, <1>10, QuietKeeps

\* An invitation is withdrawn; its counters stay.
LEMMA RevokeInviteKeeps ==
    ASSUME GroupInv, NEW i \in Invitations, RevokeInvite(i)
    PROVE  GroupInv'
<1>1. /\ NextRevision /\ invites' = [invites EXCEPT ![i].state = "revoked"]
      /\ UNCHANGED <<terms, members, joins, flows, outbox, commits, leaves, groupNow, claims,
                     remote>>
  BY DEF RevokeInvite
<1>2. GroupRows /\ revision' \in 0..MaxRevision /\ revision' > 0 /\ Owner \in members
  BY <1>1, RevisionGrows DEF GroupInv
<1>3. invites \in [Invitations -> InviteRow] /\ invites[i] \in InviteRow
  BY <1>2 DEF GroupRows
<1> DEFINE n == [invites[i] EXCEPT !.state = "revoked"]
<1>4. n \in InviteRow /\ n.state = "revoked" /\ n.used = invites[i].used
      /\ n.reserved = invites[i].reserved /\ n.max = invites[i].max
  BY <1>3 DEF InviteRow
<1>5. invites' \in [Invitations -> InviteRow] /\ invites'[i] = n
      /\ \A j \in Invitations \ {i} : invites'[j] = invites[j]
  <2>1. invites' = [invites EXCEPT ![i] = n]
    BY <1>1
  <2> HIDE DEF n
  <2> QED
    BY <1>3, <1>4, <2>1
<1> HIDE DEF n
<1>6. GroupRows'
  BY <1>1, <1>2, <1>5 DEF GroupRows
<1>7. GroupExists' /\ LeafHasMember'
  BY <1>1, <1>2, LeavesKept DEF GroupExists
<1>8. InvitesStay
  BY <1>4, <1>5 DEF InvitesStay
<1>9. ASSUME NEW j \in Invitations PROVE InviteCounts(j)'
  <2>1. invites'[j].used = invites[j].used /\ invites'[j].reserved = invites[j].reserved
        /\ invites'[j].max = invites[j].max
    BY <1>4, <1>5
  <2> QED
    BY <1>1, <2>1, CountsKept, InviteFields DEF InviteCounts
<1>10. \A r \in Requests : CommitsOf(r)' = CommitsOf(r)
  BY <1>1, ChainKept
<1> QED
  BY <1>1, <1>6, <1>7, <1>8, <1>9, <1>10, QuietKeeps

-----------------------------------------------------------------------------
(* Requests and approvals *)

\* Nobody carries a request that was not approved yet.
LEMMA NoClaimYet ==
    ASSUME GroupInv, NEW q \in Requests, flows[q].state \in {"none", "pending_approval"},
           NEW w \in GroupWorkers
    PROVE  claims[w].req # q
BY RequestFields, ClaimFields DEF ClaimKnown, RowLeased, Nobody

\* Claims on other requests are kept.
LEMMA OtherClaimsKept ==
    ASSUME GroupInv, NEW q \in Requests, flows[q].state \in {"none", "pending_approval"},
           claims' = claims, \A r \in Requests \ {q} : Untouched(r)
    PROVE  \A w \in GroupWorkers : ClaimKnown(w)'
<1>1. ASSUME NEW w \in GroupWorkers PROVE ClaimKnown(w)'
  BY NoClaimYet, ClaimFields, UntouchedClaim
<1> QED
  BY <1>1

\* A request is made with an invitation that admits one more.
LEMMA RequestKeeps ==
    ASSUME GroupInv, NEW d \in Leafs, NEW q \in Requests, NEW i \in Invitations,
           RequestJoin(d, q, i)
    PROVE  GroupInv'
<1> DEFINE j == [state |-> "pending", who |-> Holder[d], invite |-> i, by |-> Nobody, gen |-> 0]
           f == [state |-> "pending_approval", dev |-> d, head |-> 0]
<1>1. /\ NextRevision /\ flows[q].state = "none" /\ joins[q].state = "none" /\ InviteUsable(i)
      /\ joins' = [joins EXCEPT ![q] = j] /\ flows' = [flows EXCEPT ![q] = f]
      /\ UNCHANGED <<terms, members, invites, outbox, commits, leaves, groupNow, claims, remote>>
  BY DEF RequestJoin
<1>2. GroupRows /\ revision' \in 0..MaxRevision /\ revision' > 0 /\ Owner \in members
  BY <1>1, RevisionGrows DEF GroupInv
<1>3. j \in JoinRow /\ j.state = "pending" /\ j.invite = i /\ j.who = Holder[d]
  BY DEF JoinRow, Identities
<1>4. f \in FlowRow /\ f.state = "pending_approval" /\ f.dev = d
  BY DEF FlowRow
<1> HIDE DEF j, f
<1>5. /\ joins' \in [Requests -> JoinRow] /\ joins'[q] = j
      /\ flows' \in [Requests -> FlowRow] /\ flows'[q] = f
      /\ \A r \in Requests \ {q} : joins'[r] = joins[r] /\ flows'[r] = flows[r]
  BY <1>1, <1>2, <1>3, <1>4 DEF GroupRows
<1>6. GroupRows'
  BY <1>1, <1>2, <1>5 DEF GroupRows
<1>7. GroupExists' /\ LeafHasMember'
  BY <1>1, <1>2, LeavesKept DEF GroupExists
<1>8. \A r : CommitsOf(r)' = CommitsOf(r)
  BY <1>1, ChainKept
<1>9. \A r \in Requests \ {q} : Untouched(r)
  BY <1>1, <1>5, <1>8 DEF Untouched
<1>10. InvitesStay
  BY <1>1 DEF InvitesStay
<1>11. ASSUME NEW k \in Invitations PROVE InviteCounts(k)'
  BY <1>1, <1>3, <1>5, CountsKept, InviteFields DEF InviteCounts
<1>12. RequestSound(q)'
  <2>1. outbox[q].state = "none" /\ outbox[q].tok = 0 /\ remote[q].state = "none" /\ CommitsOf(q) = {}
    BY <1>1, RequestFields DEF RowLeased, Decided
  <2>2. invites[i].state # "none"
    BY <1>1 DEF InviteUsable
  <2>3. RequestMade(q)'
    BY <1>1, <1>3, <1>4, <1>5, <2>2 DEF RequestMade
  <2>4. RequestAligned(q)'
    BY <1>1, <1>3, <1>4, <1>5, <2>1 DEF RequestAligned, InFlight
  <2>5. RowLeased(q)' /\ Decided(q)'
    BY <1>1, <1>4, <1>5, <1>8, <2>1 DEF RowLeased, Decided, Absent
  <2> QED
    BY <2>3, <2>4, <2>5 DEF RequestSound
<1>13. \A w \in GroupWorkers : ClaimKnown(w)'
  BY <1>1, <1>9, OtherClaimsKept
<1> QED
  BY <1>6, <1>7, <1>9, <1>10, <1>11, <1>12, <1>13, OneRequestKeeps

\* An approval takes one of the places that are left and queues the submit.
LEMMA ApproveKeeps ==
    ASSUME GroupInv, NEW a \in Identities, NEW q \in Requests, NEW h \in 0..epoch,
           ApproveJoin(a, q, h)
    PROVE  GroupInv'
<1> DEFINE i == joins[q].invite
           j == [state |-> "reserved", who |-> joins[q].who, invite |-> i, by |-> a,
                 gen |-> Authority(a)]
           f == [state |-> "pending_commit", dev |-> flows[q].dev, head |-> h]
           o == [state |-> "active", action |-> "submit", tok |-> outbox[q].tok,
                 leased |-> outbox[q].leased, until |-> outbox[q].until, tries |-> outbox[q].tries]
           v == [invites[i] EXCEPT !.reserved = @ + 1]
<1>1. /\ NextRevision /\ flows[q].state = "pending_approval" /\ joins[q].state = "pending"
      /\ InviteUsable(i)
      /\ joins' = [joins EXCEPT ![q].state = "reserved", ![q].by = a, ![q].gen = Authority(a)]
      /\ invites' = [invites EXCEPT ![i].reserved = @ + 1]
      /\ flows' = [flows EXCEPT ![q].state = "pending_commit", ![q].head = h]
      /\ outbox' = [outbox EXCEPT ![q].state = "active", ![q].action = "submit"]
      /\ UNCHANGED <<terms, members, commits, leaves, groupNow, claims, remote>>
  BY DEF ApproveJoin, Reservable
<1>2. GroupRows /\ revision' \in 0..MaxRevision /\ revision' > 0 /\ Owner \in members
  BY <1>1, RevisionGrows DEF GroupInv
<1>3. /\ joins \in [Requests -> JoinRow] /\ flows \in [Requests -> FlowRow]
      /\ outbox \in [Requests -> OutboxRow] /\ invites \in [Invitations -> InviteRow]
  BY <1>2 DEF GroupRows
<1>4. Authority(a) \in Nat /\ h \in Nat
  <2>1. Len(commits) \in Nat
    BY <1>2 DEF GroupRows
  <2> QED
    BY <1>2, <2>1 DEF GroupRows, TermRow, Authority, Identities, epoch
<1>5. i \in Invitations
  BY <1>1, RequestFields DEF RequestMade
<1>6. joins'[q] = j /\ joins' = [r \in Requests |-> joins'[r]]
      /\ \A r \in Requests \ {q} : joins'[r] = joins[r]
  <2>1. joins'[q] = j
    BY <1>1, <1>3, ZenonT(60) DEF JoinRow
  <2> QED
    BY <1>1, <1>3, <2>1
<1>7. flows'[q] = f /\ flows' = [r \in Requests |-> flows'[r]]
      /\ \A r \in Requests \ {q} : flows'[r] = flows[r]
  <2>1. flows'[q] = f
    BY <1>1, <1>3, Zenon DEF FlowRow
  <2> QED
    BY <1>1, <1>3, <2>1
<1>8. outbox'[q] = o /\ outbox' = [r \in Requests |-> outbox'[r]]
      /\ \A r \in Requests \ {q} : outbox'[r] = outbox[r]
  <2>1. outbox'[q] = o
    BY <1>1, <1>3, ZenonT(60) DEF OutboxRow
  <2> QED
    BY <1>1, <1>3, <2>1
<1>9. invites'[i] = v /\ invites' = [k \in Invitations |-> invites'[k]]
      /\ \A k \in Invitations \ {i} : invites'[k] = invites[k]
  BY <1>1, <1>3, <1>5
<1>10. /\ j \in JoinRow /\ j.state = "reserved" /\ j.who = joins[q].who /\ j.invite = i
  <2>1. joins[q] \in JoinRow
    BY <1>3
  <2> QED
    BY <1>4, <1>5, <2>1 DEF JoinRow
<1>11. f \in FlowRow /\ f.state = "pending_commit" /\ f.dev = flows[q].dev
  <2>1. flows[q] \in FlowRow
    BY <1>3
  <2> QED
    BY <1>4, <2>1 DEF FlowRow
<1>12. /\ o \in OutboxRow /\ o.state = "active" /\ o.action = "submit" /\ o.tok = outbox[q].tok
  <2>1. outbox[q] \in OutboxRow
    BY <1>3
  <2> QED
    BY <2>1 DEF OutboxRow, Actions
<1>13. /\ v \in InviteRow /\ v.state = invites[i].state /\ v.used = invites[i].used
       /\ v.reserved = invites[i].reserved + 1 /\ v.max = invites[i].max
  <2>1. invites[i] \in InviteRow /\ invites[i].reserved + 1 \in Nat
    BY <1>5, InviteFields
  <2> HIDE DEF i
  <2> QED
    BY <2>1 DEF InviteRow
<1> HIDE DEF j, f, o, v, i
<1>14. GroupRows'
  <2>1. /\ joins' \in [Requests -> JoinRow] /\ flows' \in [Requests -> FlowRow]
        /\ outbox' \in [Requests -> OutboxRow] /\ invites' \in [Invitations -> InviteRow]
    BY <1>3, <1>6, <1>7, <1>8, <1>9, <1>10, <1>11, <1>12, <1>13
  <2> QED
    BY <1>1, <1>2, <2>1 DEF GroupRows
<1>15. GroupExists' /\ LeafHasMember'
  BY <1>1, <1>2, LeavesKept DEF GroupExists
<1>16. \A r : CommitsOf(r)' = CommitsOf(r)
  BY <1>1, ChainKept
<1>17. \A r \in Requests \ {q} : Untouched(r)
  BY <1>1, <1>6, <1>7, <1>8, <1>16 DEF Untouched
<1>18. InvitesStay
  BY <1>9, <1>13 DEF InvitesStay
<1>19. ASSUME NEW k \in Invitations PROVE InviteCounts(k)'
  <2>1. invites'[k].used = invites[k].used
        /\ invites'[k].used + invites'[k].reserved <= invites'[k].max
    <3>1. CASE k = i
      <4>1. invites[i].used + invites[i].reserved < invites[i].max
        BY <1>1 DEF InviteUsable, Occupied
      <4> QED
        BY <1>5, <1>9, <1>13, <3>1, <4>1, InviteFields
    <3>2. CASE k # i
      BY <1>9, <3>2, InviteFields DEF InviteCounts
    <3> QED
      BY <3>1, <3>2
  <2>2. \A r \in Requests :
          (joins'[r].state = "approved" /\ joins'[r].invite = k)
             <=> (joins[r].state = "approved" /\ joins[r].invite = k)
    BY <1>1, <1>6, <1>10
  <2> QED
    BY <2>1, <2>2, CountsKept
<1>20. RequestSound(q)'
  <2>1. outbox[q].tok = 0 /\ remote[q].state = "none" /\ CommitsOf(q) = {}
    BY <1>1, RequestFields DEF RowLeased, Decided
  <2>2. RequestMade(q)'
    <3>1. /\ i \in Invitations /\ invites[i].state # "none"
          /\ flows[q].dev \in Leafs /\ joins[q].who = Holder[flows[q].dev]
      BY <1>1, RequestFields DEF RequestMade, i
    <3> QED
      BY <1>6, <1>7, <1>10, <1>11, <1>18, <3>1 DEF RequestMade, InvitesStay
  <2>3. RequestAligned(q)'
    BY <1>6, <1>7, <1>8, <1>10, <1>11, <1>12 DEF RequestAligned, InFlight, Undispatched
  <2>4. RowLeased(q)' /\ Decided(q)'
    BY <1>1, <1>7, <1>8, <1>11, <1>12, <1>16, <2>1 DEF RowLeased, Decided, Absent
  <2> QED
    BY <2>2, <2>3, <2>4 DEF RequestSound
<1>21. \A w \in GroupWorkers : ClaimKnown(w)'
  BY <1>1, <1>17, OtherClaimsKept
<1> QED
  BY <1>14, <1>15, <1>17, <1>18, <1>19, <1>20, <1>21, OneRequestKeeps

\* The state of one workflow changes.
LEMMA FlowMoves ==
    ASSUME GroupInv, NEW q \in Requests,
           NEW s \in {"pending_commit", "reconciling", "committed", "rejected"},
           flows' = [flows EXCEPT ![q].state = s]
    PROVE  /\ flows' \in [Requests -> FlowRow]
           /\ flows'[q].state = s /\ flows'[q].dev = flows[q].dev
           /\ \A r \in Requests \ {q} : flows'[r] = flows[r]
<1>1. flows \in [Requests -> FlowRow] /\ flows[q] \in FlowRow
  BY DEF GroupInv, GroupRows
<1> DEFINE f == [flows[q] EXCEPT !.state = s]
<1>2. f \in FlowRow /\ f.state = s /\ f.dev = flows[q].dev
  BY <1>1 DEF FlowRow
<1>3. flows' = [flows EXCEPT ![q] = f]
  OBVIOUS
<1> HIDE DEF f
<1> QED
  BY <1>1, <1>2, <1>3

\* An approval that is refused ends the workflow.
LEMMA RefuseKeeps ==
    ASSUME GroupInv, NEW q \in Requests, RefuseApproval(q)
    PROVE  GroupInv'
<1>1. /\ flows[q].state = "pending_approval" /\ flows' = [flows EXCEPT ![q].state = "rejected"]
      /\ UNCHANGED <<revision, terms, members, invites, joins, outbox, commits, leaves, groupNow,
                     claims, remote>>
  BY DEF RefuseApproval
<1>2. /\ flows' \in [Requests -> FlowRow] /\ flows'[q].state = "rejected"
      /\ flows'[q].dev = flows[q].dev /\ \A r \in Requests \ {q} : flows'[r] = flows[r]
  BY <1>1, FlowMoves
<1>3. GroupRows' /\ GroupExists' /\ LeafHasMember'
  BY <1>1, <1>2, LeavesKept DEF GroupInv, GroupRows, GroupExists
<1>4. \A r : CommitsOf(r)' = CommitsOf(r)
  BY <1>1, ChainKept
<1>5. \A r \in Requests \ {q} : Untouched(r)
  BY <1>1, <1>2, <1>4 DEF Untouched
<1>6. RequestSound(q)'
  <2>1. /\ outbox[q].state = "none" /\ outbox[q].tok = 0 /\ remote[q].state = "none"
        /\ CommitsOf(q) = {} /\ joins[q].state = "pending" /\ RequestMade(q)
    BY <1>1, RequestFields DEF RowLeased, Decided, RequestAligned
  <2>2. RequestMade(q)'
    BY <1>1, <1>2, <2>1 DEF RequestMade
  <2>3. RequestAligned(q)' /\ RowLeased(q)' /\ Decided(q)'
    BY <1>1, <1>2, <1>4, <2>1 DEF RequestAligned, InFlight, RowLeased, Decided, Absent
  <2> QED
    BY <2>2, <2>3 DEF RequestSound
<1>7. \A w \in GroupWorkers : ClaimKnown(w)'
  BY <1>1, <1>5, OtherClaimsKept
<1> QED
  BY <1>1, <1>3, <1>5, <1>6, <1>7, InvitesKept, OneRequestKeeps

-----------------------------------------------------------------------------
(* Admission and release *)

\* The row of a request that is settled.
LEMMA RowSettled ==
    ASSUME GroupInv, NEW q \in Requests,
           outbox' = [outbox EXCEPT ![q] =
              [NoRow EXCEPT !.state = "completed", !.action = outbox[q].action]]
    PROVE  /\ outbox' \in [Requests -> OutboxRow]
           /\ outbox'[q].state = "completed" /\ outbox'[q].tok = 0
           /\ \A r \in Requests \ {q} : outbox'[r] = outbox[r]
<1> DEFINE o == [NoRow EXCEPT !.state = "completed", !.action = outbox[q].action]
           n == [state |-> "completed", action |-> outbox[q].action, tok |-> 0,
                 leased |-> "none", until |-> 0, tries |-> 0]
<1>1. outbox \in [Requests -> OutboxRow] /\ outbox[q].action \in Actions
  BY RequestFields DEF GroupInv, GroupRows
<1>2. o = n
  <2> DEFINE o1 == [NoRow EXCEPT !.state = "completed"]
             n1 == [state |-> "completed", action |-> "none", tok |-> 0, leased |-> "none",
                    until |-> 0, tries |-> 0]
  <2>1. o1 = n1
    BY DEF NoRow
  <2>2. o = [o1 EXCEPT !.action = outbox[q].action]
    BY Zenon
  <2>3. [n1 EXCEPT !.action = outbox[q].action] = n
    OBVIOUS
  <2> HIDE DEF o1, n1, o, n
  <2> QED
    BY <2>1, <2>2, <2>3
<1>3. n \in OutboxRow /\ n.state = "completed" /\ n.tok = 0
  BY <1>1 DEF OutboxRow, Actions
<1> HIDE DEF n, o
<1> QED
  BY <1>1, <1>2, <1>3 DEF o

\* A claim on a request whose row leases nothing any more.
LEMMA ClaimOutlived ==
    ASSUME GroupInv, NEW w \in GroupWorkers, NEW q \in Requests, claims'[w] = claims[w],
           claims[w].req = q, remote'[q] = remote[q],
           outbox'[q].state # "none", outbox'[q].tok = 0,
           outbox'[q].state = "active" =>
              outbox[q].state = "active" /\ outbox'[q].tries = outbox[q].tries
    PROVE  ClaimKnown(w)'
<1>1. claims[w].tok \in Nat /\ ClaimKnown(w) /\ q # Nobody
  BY ClaimFields DEF Nobody
<1> QED
  BY <1>1 DEF ClaimKnown

\* All claims after a request was settled or armed again.
LEMMA ClaimsOutlived ==
    ASSUME GroupInv, NEW q \in Requests, remote' = remote,
           \A r \in Requests \ {q} : Untouched(r),
           \A w \in GroupWorkers : claims'[w] = claims[w] \/ claims'[w] = NoClaim,
           outbox'[q].state # "none", outbox'[q].tok = 0,
           outbox'[q].state = "active" =>
              outbox[q].state = "active" /\ outbox'[q].tries = outbox[q].tries
    PROVE  \A w \in GroupWorkers : ClaimKnown(w)'
<1>1. ASSUME NEW w \in GroupWorkers PROVE ClaimKnown(w)'
  <2>1. CASE claims'[w] = NoClaim
    BY <2>1 DEF ClaimKnown, NoClaim
  <2>2. CASE claims'[w] = claims[w] /\ claims[w].req = q
    BY <2>2, ClaimOutlived
  <2>3. CASE claims'[w] = claims[w] /\ claims[w].req # q
    BY <2>3, ClaimFields, UntouchedClaim
  <2> QED
    BY <2>1, <2>2, <2>3
<1> QED
  BY <1>1

\* The types of a claim that is given up.
LEMMA NoClaimRow == NoClaim \in ClaimRow
BY DEF NoClaim, ClaimRow, Actions, Answers

\* An admission turns a reserved place into a used one.
LEMMA FinalizeKeeps ==
    ASSUME GroupInv, NEW q \in Requests, Finalize(q), InFlight(q),
           UNCHANGED <<terms, groupNow, remote>>,
           claims' \in [GroupWorkers -> ClaimRow],
           \A w \in GroupWorkers : claims'[w] = claims[w] \/ claims'[w] = NoClaim,
           commits' \in Seq(CommitRow), leaves' \in [Leafs -> {"none", "pending", "active", "removed"}],
           \A r \in Requests \ {q} : CommitsOf(r)' = CommitsOf(r),
           \/ Cardinality(CommitsOf(q)') = 1 /\ Absent(q)
           \/ CommitsOf(q)' = {} /\ remote[q].state = "committed",
           \A d \in Leafs : d # flows[q].dev => leaves'[d] = leaves[d]
    PROVE  GroupInv'
<1> DEFINE i == joins[q].invite
           j == [joins[q] EXCEPT !.state = "approved"]
           v == [state |-> invites[i].state, issuer |-> invites[i].issuer, gen |-> invites[i].gen,
                 max |-> invites[i].max, used |-> invites[i].used + 1,
                 reserved |-> invites[i].reserved - 1, expires |-> invites[i].expires]
<1>1. /\ NextRevision /\ joins[q].state = "reserved"
      /\ joins' = [joins EXCEPT ![q].state = "approved"]
      /\ invites' = [invites EXCEPT ![i].reserved = @ - 1, ![i].used = @ + 1]
      /\ members' = members \cup {joins[q].who}
      /\ flows' = [flows EXCEPT ![q].state = "committed"]
      /\ outbox' = [outbox EXCEPT ![q] =
            [NoRow EXCEPT !.state = "completed", !.action = outbox[q].action]]
  BY DEF Finalize
<1>2. GroupRows /\ revision' \in 0..MaxRevision /\ revision' > 0 /\ Owner \in members /\ LoadsPolicy
  BY <1>1, RevisionGrows DEF GroupInv
<1>3. joins \in [Requests -> JoinRow] /\ invites \in [Invitations -> InviteRow]
  BY <1>2 DEF GroupRows
<1>4. i \in Invitations /\ invites[i].reserved - 1 \in Nat
  BY <1>1, <1>2, ReservationCounted
<1>5. /\ flows[q].dev \in Leafs /\ joins[q].who = Holder[flows[q].dev]
      /\ invites[i].state # "none"
  BY <1>1, RequestFields DEF RequestMade
<1>6. /\ flows' \in [Requests -> FlowRow] /\ flows'[q].state = "committed"
      /\ flows'[q].dev = flows[q].dev /\ \A r \in Requests \ {q} : flows'[r] = flows[r]
  BY <1>1, FlowMoves
<1>7. /\ outbox' \in [Requests -> OutboxRow] /\ outbox'[q].state = "completed"
      /\ outbox'[q].tok = 0 /\ \A r \in Requests \ {q} : outbox'[r] = outbox[r]
  BY <1>1, RowSettled
<1>8. j \in JoinRow /\ j.state = "approved" /\ j.invite = i /\ j.who = joins[q].who
  <2>1. joins[q] \in JoinRow
    BY <1>3
  <2> QED
    BY <2>1 DEF JoinRow
<1>9. /\ joins' \in [Requests -> JoinRow] /\ joins'[q] = j
      /\ \A r \in Requests \ {q} : joins'[r] = joins[r]
  <2>1. joins' = [joins EXCEPT ![q] = j]
    BY <1>1
  <2> HIDE DEF j
  <2> QED
    BY <1>3, <1>8, <2>1
<1>10. invites'[i] = v /\ invites' = [k \in Invitations |-> invites'[k]]
       /\ \A k \in Invitations \ {i} : invites'[k] = invites[k]
  <2> DEFINE x == invites[i].reserved - 1
             g == [invites EXCEPT ![i].reserved = x]
             u == [state |-> invites[i].state, issuer |-> invites[i].issuer, gen |-> invites[i].gen,
                   max |-> invites[i].max, used |-> invites[i].used, reserved |-> x,
                   expires |-> invites[i].expires]
  <2> HIDE DEF i
  <2>0. g[i] = u
    <3> HIDE DEF x
    <3>1. invites[i] \in InviteRow
      BY <1>3, <1>4
    <3>2. [invites[i] EXCEPT !.reserved = x] = u
      BY <3>1, SMTT(40) DEF InviteRow
    <3> HIDE DEF u
    <3> QED
      BY <1>3, <1>4, <3>2
  <2>2. invites' = [g EXCEPT ![i].used = g[i].used + 1] /\ DOMAIN g = Invitations
    BY <1>1, <1>3, Zenon
  <2>3. invites'[i] = [g[i] EXCEPT !.used = g[i].used + 1]
    <3> HIDE DEF g, x, u
    <3> QED
      BY <1>4, <2>2
  <2>4. u.used = invites[i].used /\ [u EXCEPT !.used = invites[i].used + 1] = v
    OBVIOUS
  <2>1. invites'[i] = v
    <3> HIDE DEF g, u, v, x
    <3> QED
      BY <2>0, <2>3, <2>4, Zenon
  <2> QED
    BY <1>1, <1>3, <1>4, <2>1
<1>11. /\ v \in InviteRow /\ v.state = invites[i].state /\ v.used = invites[i].used + 1
       /\ v.reserved = invites[i].reserved - 1 /\ v.max = invites[i].max
  <2>1. invites[i] \in InviteRow /\ invites[i].used + 1 \in Nat
    BY <1>4, InviteFields
  <2> HIDE DEF i
  <2> QED
    BY <1>4, <2>1 DEF InviteRow
<1> HIDE DEF i, j, v
<1>12. GroupRows'
  <2>1. invites' \in [Invitations -> InviteRow]
    BY <1>3, <1>10, <1>11
  <2>2. members' \subseteq Identities
    BY <1>1, <1>2, <1>5 DEF GroupRows, Identities
  <2> QED
    BY <1>2, <1>6, <1>7, <1>9, <2>1, <2>2 DEF GroupRows
<1>13. GroupExists' /\ LeafHasMember'
  <2>1. LeafHasMember
    BY DEF GroupInv
  <2> QED
    BY <1>1, <1>2, <1>5, <2>1 DEF GroupExists, LeafHasMember
<1>14. \A r \in Requests \ {q} : Untouched(r)
  BY <1>6, <1>7, <1>9 DEF Untouched
<1>15. InvitesStay
  BY <1>10, <1>11 DEF InvitesStay
<1>16. ASSUME NEW k \in Invitations PROVE InviteCounts(k)'
  <2>1. CASE k # i
    <3>1. \A r \in Requests :
            (joins'[r].state = "approved" /\ joins'[r].invite = k)
               <=> (joins[r].state = "approved" /\ joins[r].invite = k)
      BY <1>1, <1>8, <1>9, <2>1
    <3> QED
      BY <1>10, <2>1, <3>1, CountsKept, InviteFields DEF InviteCounts
  <2>2. CASE k = i
    <3>1. JoinsOf(k, "approved")' = JoinsOf(k, "approved") \cup {q}
      BY <1>8, <1>9, <2>2 DEF JoinsOf, JoinsIn
    <3>2. q \notin JoinsOf(k, "approved") /\ IsFiniteSet(JoinsOf(k, "approved"))
      BY <1>1, JoinsFinite
    <3>3. Cardinality(JoinsOf(k, "approved")') = Cardinality(JoinsOf(k, "approved")) + 1
      BY <3>1, <3>2, FS_AddElement
    <3>4. InviteCounts(k)
      BY <1>4, InviteFields
    <3>5. (invites[i].used + 1) + (invites[i].reserved - 1) <= invites[i].max
      BY <1>4, <2>2, <3>4, InviteFields DEF InviteCounts
    <3> QED
      BY <1>10, <1>11, <2>2, <3>3, <3>4, <3>5 DEF InviteCounts
  <2> QED
    BY <2>1, <2>2
<1>17. RequestSound(q)'
  <2>1. RequestMade(q)'
    BY <1>4, <1>5, <1>6, <1>8, <1>9, <1>15 DEF RequestMade, InvitesStay
  <2>2. RequestAligned(q)' /\ RowLeased(q)'
    BY <1>6, <1>7, <1>8, <1>9 DEF RequestAligned, RowLeased, InFlight
  <2>3. Decided(q)'
    BY <1>6 DEF Decided, Absent
  <2> QED
    BY <2>1, <2>2, <2>3 DEF RequestSound
<1>18. \A w \in GroupWorkers : ClaimKnown(w)'
  BY <1>7, <1>14, ClaimsOutlived
<1> QED
  BY <1>12, <1>13, <1>14, <1>15, <1>16, <1>17, <1>18, OneRequestKeeps

\* A release gives the place back and ends the workflow.
LEMMA ReleaseKeeps ==
    ASSUME GroupInv, NEW q \in Requests, Release(q), InFlight(q),
           Absent(q) \/ remote[q].state = "rejected",
           UNCHANGED <<terms, commits, leaves, groupNow, remote>>,
           claims' \in [GroupWorkers -> ClaimRow],
           \A w \in GroupWorkers : claims'[w] = claims[w] \/ claims'[w] = NoClaim
    PROVE  GroupInv'
<1> DEFINE i == joins[q].invite
           v == [invites[i] EXCEPT !.reserved = @ - 1]
<1>1. /\ NextRevision /\ joins[q].state = "reserved" /\ UNCHANGED <<members, joins>>
      /\ invites' = [invites EXCEPT ![i].reserved = @ - 1]
      /\ flows' = [flows EXCEPT ![q].state = "rejected"]
      /\ outbox' = [outbox EXCEPT ![q] =
            [NoRow EXCEPT !.state = "completed", !.action = outbox[q].action]]
  BY DEF Release
<1>2. GroupRows /\ revision' \in 0..MaxRevision /\ revision' > 0 /\ Owner \in members /\ LoadsPolicy
  BY <1>1, RevisionGrows DEF GroupInv
<1>3. i \in Invitations /\ invites[i].reserved - 1 \in Nat /\ invites \in [Invitations -> InviteRow]
  BY <1>1, <1>2, ReservationCounted DEF GroupRows
<1>4. /\ flows' \in [Requests -> FlowRow] /\ flows'[q].state = "rejected"
      /\ flows'[q].dev = flows[q].dev /\ \A r \in Requests \ {q} : flows'[r] = flows[r]
  BY <1>1, FlowMoves
<1>5. /\ outbox' \in [Requests -> OutboxRow] /\ outbox'[q].state = "completed"
      /\ outbox'[q].tok = 0 /\ \A r \in Requests \ {q} : outbox'[r] = outbox[r]
  BY <1>1, RowSettled
<1>6. /\ v \in InviteRow /\ v.state = invites[i].state /\ v.used = invites[i].used
      /\ v.reserved = invites[i].reserved - 1 /\ v.max = invites[i].max
  <2>1. invites[i] \in InviteRow
    BY <1>3
  <2> HIDE DEF i
  <2> QED
    BY <1>3, <2>1 DEF InviteRow
<1>7. /\ invites' \in [Invitations -> InviteRow] /\ invites'[i] = v
      /\ \A k \in Invitations \ {i} : invites'[k] = invites[k]
  <2>1. invites' = [invites EXCEPT ![i] = v]
    BY <1>1
  <2> HIDE DEF v, i
  <2> QED
    BY <1>3, <1>6, <2>1
<1> HIDE DEF v, i
<1>8. GroupRows'
  BY <1>1, <1>2, <1>4, <1>5, <1>7 DEF GroupRows
<1>9. GroupExists' /\ LeafHasMember'
  BY <1>1, <1>2, LeavesKept DEF GroupExists
<1>10. \A r : CommitsOf(r)' = CommitsOf(r)
  BY ChainKept
<1>11. \A r \in Requests \ {q} : Untouched(r)
  BY <1>1, <1>4, <1>5, <1>10 DEF Untouched
<1>12. InvitesStay
  BY <1>6, <1>7 DEF InvitesStay
<1>13. ASSUME NEW k \in Invitations PROVE InviteCounts(k)'
  <2>1. invites'[k].used = invites[k].used
        /\ invites'[k].used + invites'[k].reserved <= invites'[k].max
    <3>1. CASE k = i
      <4>1. invites[i].used + (invites[i].reserved - 1) <= invites[i].max
        BY <1>3, InviteFields DEF InviteCounts
      <4> QED
        BY <1>6, <1>7, <3>1, <4>1
    <3>2. CASE k # i
      BY <1>7, <3>2, InviteFields DEF InviteCounts
    <3> QED
      BY <3>1, <3>2
  <2> QED
    BY <1>1, <2>1, CountsKept
<1>14. RequestSound(q)'
  <2>1. RequestMade(q) /\ CommitsOf(q) = {}
    BY RequestFields DEF Decided, InFlight
  <2>2. RequestMade(q)'
    BY <1>1, <1>4, <1>12, <2>1 DEF RequestMade, InvitesStay
  <2>3. RequestAligned(q)' /\ RowLeased(q)' /\ Decided(q)'
    BY <1>1, <1>4, <1>5, <1>10, <2>1 DEF RequestAligned, InFlight, RowLeased, Decided, Absent
  <2> QED
    BY <2>2, <2>3 DEF RequestSound
<1>15. \A w \in GroupWorkers : ClaimKnown(w)'
  BY <1>5, <1>11, ClaimsOutlived
<1> QED
  BY <1>8, <1>9, <1>11, <1>12, <1>13, <1>14, <1>15, OneRequestKeeps

-----------------------------------------------------------------------------
(* The sequencer outbox *)

\* A row is leased under a token it has not used before, and moved to the lookup.
LEMMA PrepareActionKeeps ==
    ASSUME GroupInv, NEW w \in GroupWorkers, NEW q \in Requests, PrepareAction(w, q)
    PROVE  GroupInv'
<1> DEFINE act == outbox[q].action
           tok == outbox[q].tries + 1
           o == [state |-> "active", action |-> "query", tok |-> tok, leased |-> act,
                 until |-> groupNow + OutboxLease, tries |-> tok]
           c == [req |-> q, tok |-> tok, action |-> act, answer |-> "none"]
           s == IF act = "submit" THEN "reconciling" ELSE flows[q].state
           m == IF act = "submit"
                  THEN [state |-> IF remote[q].state = "none" THEN "sent" ELSE remote[q].state,
                        missed |-> FALSE]
                  ELSE remote[q]
<1>1. /\ outbox[q].state = "active"
      /\ outbox' = [outbox EXCEPT ![q] = o]
      /\ flows' = [flows EXCEPT ![q].state = s]
      /\ claims' = [claims EXCEPT ![w] = c]
      /\ remote' = [remote EXCEPT ![q] = m]
      /\ UNCHANGED <<revision, terms, members, invites, joins, commits, leaves, groupNow>>
  BY DEF PrepareAction, Claimable, RowAction
<1>2. /\ InFlight(q) /\ joins[q].state = "reserved"
      /\ act = IF Undispatched(q) THEN "submit" ELSE "query"
  BY <1>1, RequestFields DEF RequestAligned
<1>3. s = "reconciling"
  BY <1>2 DEF InFlight, Undispatched
<1>4. act \in Actions /\ tok \in Nat /\ tok > 0 /\ tok > outbox[q].tries
  <2>1. act \in Actions /\ outbox[q].tries \in Nat
    BY RequestFields
  <2> QED
    BY <2>1
<1>5. o \in OutboxRow /\ o.state = "active" /\ o.action = "query" /\ o.tok = tok
      /\ o.leased = act /\ o.tries = tok
  <2>1. groupNow + OutboxLease \in Nat
    BY DEF GroupInv, GroupRows
  <2> HIDE DEF act, tok
  <2> QED
    BY <1>4, <2>1 DEF OutboxRow, Actions
<1>6. c \in ClaimRow /\ c.req = q /\ c.tok = tok /\ c.action = act /\ c.answer = "none"
  <2> HIDE DEF act, tok
  <2> QED
    BY <1>4 DEF ClaimRow, Answers
<1>m. /\ m \in RemoteRow
      /\ remote[q].state \in {"committed", "rejected"} => m.state = remote[q].state
  <2>1. remote[q] \in RemoteRow /\ remote[q].state \in Decisions
    BY RequestFields
  <2> QED
    BY <2>1 DEF RemoteRow, Decisions
<1> HIDE DEF o, c, s, m
<1>7. /\ flows' \in [Requests -> FlowRow] /\ flows'[q].state = "reconciling"
      /\ flows'[q].dev = flows[q].dev /\ \A r \in Requests \ {q} : flows'[r] = flows[r]
  BY <1>1, <1>3, FlowMoves
<1>8. /\ outbox' \in [Requests -> OutboxRow] /\ outbox'[q] = o
      /\ \A r \in Requests \ {q} : outbox'[r] = outbox[r]
  BY <1>1, <1>5 DEF GroupInv, GroupRows
<1>9. /\ claims' \in [GroupWorkers -> ClaimRow] /\ claims'[w] = c
      /\ \A x \in GroupWorkers \ {w} : claims'[x] = claims[x]
  BY <1>1, <1>6 DEF GroupInv, GroupRows
<1>n. /\ remote' \in [Requests -> RemoteRow] /\ remote'[q] = m
      /\ \A r \in Requests \ {q} : remote'[r] = remote[r]
  BY <1>1, <1>m DEF GroupInv, GroupRows
<1>10. GroupRows' /\ GroupExists' /\ LeafHasMember'
  BY <1>1, <1>7, <1>8, <1>9, <1>n, LeavesKept DEF GroupInv, GroupRows, GroupExists
<1>11. \A r : CommitsOf(r)' = CommitsOf(r)
  BY <1>1, ChainKept
<1>12. \A r \in Requests \ {q} : Untouched(r)
  BY <1>1, <1>7, <1>8, <1>11, <1>n DEF Untouched
<1>13. RequestSound(q)'
  <2>1. RequestMade(q) /\ CommitsOf(q) = {}
    BY <1>2, RequestFields DEF Decided, InFlight
  <2>2. RequestMade(q)'
    BY <1>1, <1>7, <2>1 DEF RequestMade
  <2>3. RequestAligned(q)' /\ RowLeased(q)' /\ Decided(q)'
    BY <1>1, <1>2, <1>5, <1>7, <1>8, <1>11, <2>1
       DEF RequestAligned, InFlight, Undispatched, RowLeased, Decided
  <2> QED
    BY <2>2, <2>3 DEF RequestSound
<1>14. ASSUME NEW x \in GroupWorkers PROVE ClaimKnown(x)'
  <2>1. CASE x = w
    <3> HIDE DEF act, tok
    <3> QED
      BY <1>4, <1>5, <1>6, <1>8, <1>9, <2>1 DEF ClaimKnown
  <2>2. CASE x # w /\ claims[x].req # q
    BY <1>9, <1>12, <2>2, ClaimFields, UntouchedClaim
  <2>3. CASE x # w /\ claims[x].req = q
    <3>1. /\ claims'[x] = claims[x] /\ ClaimKnown(x) /\ q # Nobody /\ claims[x].tok \in Nat
          /\ outbox[q].tries \in Nat
      BY <1>9, <2>3, ClaimFields, RequestFields DEF Nobody
    <3>2. claims[x].tok <= outbox[q].tries
      BY <1>1, <2>3, <3>1 DEF ClaimKnown
    <3>3. claims[x].tok <= tok /\ claims[x].tok # tok
      BY <3>1, <3>2
    <3> HIDE DEF act, tok
    <3> QED
      BY <1>1, <1>5, <1>8, <1>m, <1>n, <2>3, <3>1, <3>3 DEF ClaimKnown
  <2> QED
    BY <2>1, <2>2, <2>3
<1> QED
  BY <1>1, <1>10, <1>12, <1>13, <1>14, InvitesKept, OneRequestKeeps

\* A reservation made under a term that ended is dropped before anything was sent.
LEMMA PrepareRevokedKeeps ==
    ASSUME GroupInv, NEW q \in Requests, PrepareRevoked(q)
    PROVE  GroupInv'
<1>1. /\ outbox[q].state = "active" /\ outbox[q].action = "submit" /\ Release(q)
      /\ UNCHANGED <<terms, commits, leaves, groupNow, claims, remote>>
  BY DEF PrepareRevoked, Claimable
<1>2. InFlight(q) /\ Absent(q)
  BY <1>1, RequestFields DEF RequestAligned, InFlight, Undispatched, Decided
<1>3. claims' \in [GroupWorkers -> ClaimRow]
  BY <1>1 DEF GroupInv, GroupRows
<1> QED
  BY <1>1, <1>2, <1>3, ReleaseKeeps

\* What the Sequencer does about a request, and what is found out about it, changes no table.
LEMMA RemoteKeeps ==
    ASSUME GroupInv, NEW q \in Requests, NEW m \in RemoteRow,
           remote' = [remote EXCEPT ![q] = m],
           remote[q].state # "sent" => m.state = remote[q].state,
           remote[q].missed => m.missed,
           claims' \in [GroupWorkers -> ClaimRow],
           \A w \in GroupWorkers : claims'[w] = claims[w] \/ ClaimKnown(w)',
           UNCHANGED <<revision, terms, members, invites, joins, flows, outbox, commits, leaves,
                       groupNow>>
    PROVE  GroupInv'
<1>1. /\ remote' \in [Requests -> RemoteRow] /\ remote'[q] = m
      /\ \A r \in Requests \ {q} : remote'[r] = remote[r]
  BY DEF GroupInv, GroupRows
<1>2. GroupRows' /\ GroupExists' /\ LeafHasMember'
  BY <1>1, LeavesKept DEF GroupInv, GroupRows, GroupExists
<1>3. \A r : CommitsOf(r)' = CommitsOf(r)
  BY ChainKept
<1>4. \A r \in Requests \ {q} : Untouched(r)
  BY <1>1, <1>3 DEF Untouched
<1>5. RequestSound(q)'
  <2>1. RequestMade(q) /\ RequestAligned(q) /\ RowLeased(q) /\ Decided(q)
    BY RequestFields
  <2>2. RequestMade(q)' /\ RequestAligned(q)' /\ RowLeased(q)'
    BY <2>1 DEF RequestMade, RequestAligned, RowLeased, InFlight, Undispatched
  <2>3. Absent(q) => Absent(q)'
    BY <1>1 DEF Absent
  <2>4. Decided(q)'
    BY <1>1, <1>3, <2>1, <2>3 DEF Decided
  <2> QED
    BY <2>2, <2>4 DEF RequestSound
<1>6. ASSUME NEW w \in GroupWorkers PROVE ClaimKnown(w)'
  <2>1. CASE claims'[w] = claims[w] /\ claims[w].req # q
    BY <1>4, <2>1, ClaimFields, UntouchedClaim
  <2>2. CASE claims'[w] = claims[w] /\ claims[w].req = q
    BY <1>1, <2>2, ClaimFields DEF ClaimKnown
  <2> QED
    BY <2>1, <2>2
<1> QED
  BY <1>2, <1>4, <1>5, <1>6, InvitesKept, OneRequestKeeps

\* A submit is decided whenever it arrives, whoever holds the lease by then.
LEMMA DecidesKeeps ==
    ASSUME GroupInv, NEW q \in Requests, SequencerDecides(q)
    PROVE  GroupInv'
<1>1. PICK done \in {"committed", "rejected"} : remote' = [remote EXCEPT ![q].state = done]
  BY DEF SequencerDecides
<1>2. /\ remote[q].state = "sent"
      /\ UNCHANGED <<revision, terms, members, invites, joins, flows, outbox, commits, leaves,
                     groupNow, claims>>
  BY DEF SequencerDecides
<1> DEFINE m == [remote[q] EXCEPT !.state = done]
<1>3. remote' = [remote EXCEPT ![q] = m]
  BY <1>1
<1>4. m \in RemoteRow /\ m.missed = remote[q].missed
  <2>1. remote[q] \in RemoteRow
    BY RequestFields
  <2> QED
    BY <2>1 DEF RemoteRow, Decisions
<1>5. claims' \in [GroupWorkers -> ClaimRow]
  BY <1>2 DEF GroupInv, GroupRows
<1> HIDE DEF m
<1> QED
  BY <1>2, <1>3, <1>4, <1>5, RemoteKeeps

\* A call returns, under a current token or a lapsed one.
LEMMA AnswersKeep ==
    ASSUME GroupInv, NEW w \in GroupWorkers, SequencerAnswers(w)
    PROVE  GroupInv'
<1> DEFINE c == claims[w]
           decided == {remote[c.req].state} \cap {"committed", "rejected"}
           possible == {"unknown"} \cup decided
                       \cup (IF c.action = "query" /\ decided = {} THEN {"absent"} ELSE {})
<1>a. c.req # Nobody
  BY DEF SequencerAnswers
<1>b. PICK q \in Requests : c.req = q
  BY <1>a, ClaimFields
<1>1. UNCHANGED <<revision, terms, members, invites, joins, flows, outbox, commits, leaves,
                  groupNow>>
  BY DEF SequencerAnswers
<1>2. PICK answer \in possible :
        /\ claims' = [claims EXCEPT ![w].answer = answer]
        /\ remote' = [remote EXCEPT ![c.req].missed = @ \/ answer = "absent"]
  BY DEF SequencerAnswers
<1>3. /\ answer \in Answers
      /\ answer \in {"committed", "rejected"} => remote[q].state = answer
      /\ answer = "absent" => c.action = "query"
  BY <1>2, <1>b DEF Answers
<1>4. /\ claims \in [GroupWorkers -> ClaimRow] /\ c \in ClaimRow /\ ClaimKnown(w)
      /\ remote \in [Requests -> RemoteRow] /\ remote[q] \in RemoteRow
  BY ClaimFields, RequestFields DEF GroupInv, GroupRows
<1> DEFINE n == [req |-> q, tok |-> c.tok, action |-> c.action, answer |-> answer]
           m == [state |-> remote[q].state, missed |-> remote[q].missed \/ answer = "absent"]
<1>5. n \in ClaimRow /\ n.req = q /\ n.tok = c.tok /\ n.action = c.action /\ n.answer = answer
  BY <1>3, <1>4 DEF ClaimRow
<1>6. claims' = [claims EXCEPT ![w] = n]
  <2>1. [claims[w] EXCEPT !.answer = answer] = n
    BY <1>4, <1>b DEF ClaimRow
  <2> HIDE DEF n
  <2> QED
    BY <1>2, <2>1
<1>7. /\ m \in RemoteRow /\ m.state = remote[q].state
      /\ remote[q].missed => m.missed
      /\ answer = "absent" => m.missed
  BY <1>4 DEF RemoteRow
<1>8. remote' = [remote EXCEPT ![q] = m]
  <2>1. [remote[q] EXCEPT !.missed = @ \/ answer = "absent"] = m
    BY <1>4 DEF RemoteRow
  <2> HIDE DEF m
  <2> QED
    BY <1>2, <1>b, <2>1
<1> HIDE DEF n, m
<1>9. claims'[w] = n /\ claims' \in [GroupWorkers -> ClaimRow]
      /\ \A x \in GroupWorkers \ {w} : claims'[x] = claims[x]
  BY <1>4, <1>5, <1>6
<1>10. ClaimKnown(w)'
  <2>1. remote'[q] = m
    BY <1>4, <1>8
  <2>2. /\ c.tok > 0 /\ outbox[q].state # "none" /\ q # Nobody
        /\ outbox[q].state = "active" => c.tok <= outbox[q].tries
        /\ c.tok = outbox[q].tok => c.action = outbox[q].leased
    BY <1>4, <1>a, <1>b DEF ClaimKnown
  <2> QED
    BY <1>1, <1>3, <1>5, <1>7, <1>9, <2>1, <2>2 DEF ClaimKnown
<1> QED
  BY <1>1, <1>7, <1>8, <1>9, <1>10, RemoteKeeps

\* A row that is armed again.
LEMMA RowRearmed ==
    ASSUME GroupInv, NEW q \in Requests, NEW a \in Actions,
           outbox' = [outbox EXCEPT ![q] =
              [NoRow EXCEPT !.state = "active", !.action = a, !.tries = outbox[q].tries]]
    PROVE  /\ outbox' \in [Requests -> OutboxRow]
           /\ outbox'[q].state = "active" /\ outbox'[q].tok = 0 /\ outbox'[q].action = a
           /\ outbox'[q].tries = outbox[q].tries
           /\ \A r \in Requests \ {q} : outbox'[r] = outbox[r]
<1> DEFINE t == outbox[q].tries
           o == [NoRow EXCEPT !.state = "active", !.action = a, !.tries = t]
           n == [state |-> "active", action |-> a, tok |-> 0, leased |-> "none", until |-> 0,
                 tries |-> t]
<1>1. outbox \in [Requests -> OutboxRow] /\ t \in Nat
  BY RequestFields DEF GroupInv, GroupRows
<1>2. o = n
  <2> HIDE DEF t
  <2> DEFINE o1 == [NoRow EXCEPT !.state = "active"]
             o2 == [o1 EXCEPT !.action = a]
             n1 == [state |-> "active", action |-> "none", tok |-> 0, leased |-> "none",
                    until |-> 0, tries |-> 0]
             n2 == [state |-> "active", action |-> a, tok |-> 0, leased |-> "none",
                    until |-> 0, tries |-> 0]
  <2>1. o1 = n1
    BY DEF NoRow
  <2>2. o = [o2 EXCEPT !.tries = t]
    BY Zenon
  <2>3. [n1 EXCEPT !.action = a] = n2 /\ [n2 EXCEPT !.tries = t] = n
    OBVIOUS
  <2>4. o2 = n2
    <3> HIDE DEF o1, n1, n2
    <3> QED
      BY <2>1, <2>3
  <2> HIDE DEF o1, n1, o2, n2, o, n
  <2> QED
    BY <2>2, <2>3, <2>4
<1>3. n \in OutboxRow /\ n.state = "active" /\ n.tok = 0 /\ n.action = a /\ n.tries = t
  <2> HIDE DEF t
  <2> QED
    BY <1>1 DEF OutboxRow, Actions
<1>4. outbox' = [outbox EXCEPT ![q] = n]
  BY <1>2, Zenon
<1> HIDE DEF n, o
<1> QED
  BY <1>1, <1>3, <1>4

\* An uncertain outcome arms the row again: for a lookup, or for a submit after a lookup under
\* the current token found nothing.
LEMMA RearmKeeps ==
    ASSUME GroupInv, NEW q \in Requests, NEW a, NEW s,
           \/ a = "query" /\ s = "reconciling"
           \/ a = "submit" /\ s = "pending_commit" /\ Absent(q),
           InFlight(q),
           outbox' = [outbox EXCEPT ![q] =
              [NoRow EXCEPT !.state = "active", !.action = a, !.tries = outbox[q].tries]],
           flows' = [flows EXCEPT ![q].state = s],
           claims' \in [GroupWorkers -> ClaimRow],
           \A x \in GroupWorkers : claims'[x] = claims[x] \/ claims'[x] = NoClaim,
           UNCHANGED <<revision, members, invites, joins, terms, commits, leaves, groupNow, remote>>
    PROVE  GroupInv'
<1>1. a \in Actions /\ s \in {"pending_commit", "reconciling"}
  BY DEF Actions
<1>2. /\ outbox' \in [Requests -> OutboxRow]
      /\ outbox'[q].state = "active" /\ outbox'[q].tok = 0 /\ outbox'[q].action = a
      /\ outbox'[q].tries = outbox[q].tries
      /\ \A r \in Requests \ {q} : outbox'[r] = outbox[r]
  BY <1>1, RowRearmed
<1>3. /\ flows' \in [Requests -> FlowRow] /\ flows'[q].state = s
      /\ flows'[q].dev = flows[q].dev /\ \A r \in Requests \ {q} : flows'[r] = flows[r]
  BY <1>1, FlowMoves
<1>4. GroupRows' /\ GroupExists' /\ LeafHasMember'
  BY <1>2, <1>3, LeavesKept DEF GroupInv, GroupRows, GroupExists
<1>5. \A r : CommitsOf(r)' = CommitsOf(r)
  BY ChainKept
<1>6. \A r \in Requests \ {q} : Untouched(r)
  BY <1>2, <1>3, <1>5 DEF Untouched
<1>7. /\ RequestMade(q) /\ CommitsOf(q) = {} /\ joins[q].state = "reserved"
      /\ outbox[q].state = "active"
  BY RequestFields DEF Decided, InFlight, RequestAligned
<1>8. RequestSound(q)'
  <2>1. RequestMade(q)'
    BY <1>3, <1>7 DEF RequestMade
  <2>2. RequestAligned(q)' /\ RowLeased(q)' /\ Decided(q)'
    BY <1>2, <1>3, <1>5, <1>7
       DEF RequestAligned, InFlight, Undispatched, RowLeased, Decided, Absent
  <2> QED
    BY <2>1, <2>2 DEF RequestSound
<1>9. \A x \in GroupWorkers : ClaimKnown(x)'
  BY <1>2, <1>6, <1>7, ClaimsOutlived
<1> QED
  BY <1>4, <1>6, <1>8, <1>9, InvitesKept, OneRequestKeeps

\* A worker that still holds its lease applies what it was told.
LEMMA ResolveKeeps ==
    ASSUME GroupInv, NEW w \in GroupWorkers, ResolveAction(w)
    PROVE  GroupInv'
<1> DEFINE c == claims[w]
<1>a. c.req # Nobody
  BY DEF ResolveAction
<1>b. PICK q \in Requests : c.req = q
  BY <1>a, ClaimFields
<1>1. /\ q # Nobody /\ LeaseHeld(c) /\ flows[q].state \in {"pending_commit", "reconciling"}
      /\ claims' = [claims EXCEPT ![w] = NoClaim]
      /\ UNCHANGED <<terms, commits, leaves, groupNow, remote>>
  BY <1>a, <1>b DEF ResolveAction
<1>2. /\ q \in Requests /\ c \in ClaimRow /\ ClaimKnown(w) /\ InFlight(q)
      /\ claims \in [GroupWorkers -> ClaimRow] /\ c.tok \in Nat
  BY <1>1, <1>b, ClaimFields DEF GroupInv, GroupRows, InFlight
<1>3. /\ claims' \in [GroupWorkers -> ClaimRow]
      /\ \A x \in GroupWorkers : claims'[x] = claims[x] \/ claims'[x] = NoClaim
  BY <1>1, <1>2, NoClaimRow
<1>4. outbox[q].tok = c.tok /\ c.tok > 0
  BY <1>1, <1>2, <1>b DEF LeaseHeld, ClaimKnown
<1>5. CASE c.answer = "committed" /\ Finalize(q)
  <2>1. remote[q].state = "committed"
    BY <1>1, <1>2, <1>5, <1>b DEF ClaimKnown
  <2>2. CommitsOf(q)' = {} /\ \A r \in Requests \ {q} : CommitsOf(r)' = CommitsOf(r)
    <3>1. CommitsOf(q) = {}
      BY <1>1, <1>2, RequestFields DEF Decided
    <3> QED
      BY <1>1, <3>1, ChainKept DEF CommitsOf, epoch
  <2>3. /\ commits' \in Seq(CommitRow)
        /\ leaves' \in [Leafs -> {"none", "pending", "active", "removed"}]
    BY <1>1 DEF GroupInv, GroupRows
  <2> QED
    BY <1>1, <1>2, <1>3, <1>5, <2>1, <2>2, <2>3, FinalizeKeeps
<1>6. CASE c.answer = "rejected" /\ Release(q)
  <2>1. remote[q].state = "rejected"
    BY <1>1, <1>2, <1>6, <1>b DEF ClaimKnown
  <2> QED
    BY <1>1, <1>2, <1>3, <1>6, <2>1, ReleaseKeeps
<1>7. ASSUME NEW a, NEW s,
             outbox' = [outbox EXCEPT ![q] =
                [NoRow EXCEPT !.state = "active", !.action = a, !.tries = outbox[q].tries]],
             flows' = [flows EXCEPT ![q].state = s],
             UNCHANGED <<revision, members, invites, joins>>,
             \/ c.answer = "unknown" /\ a = "query" /\ s = "reconciling"
             \/ c.answer = "absent" /\ a = "submit" /\ s = "pending_commit"
      PROVE  GroupInv'
  <2>1. c.answer = "absent" => Absent(q)
    BY <1>1, <1>2, <1>4, <1>b DEF ClaimKnown, Absent
  <2>2. \/ a = "query" /\ s = "reconciling"
        \/ a = "submit" /\ s = "pending_commit" /\ Absent(q)
    BY <1>7, <2>1
  <2> QED
    BY <1>1, <1>2, <1>3, <1>7, <2>2, RearmKeeps
<1> QED
  BY <1>5, <1>6, <1>7, <1>b DEF ResolveAction

\* Time passes.
LEMMA TickKeeps == ASSUME GroupInv, GroupTick PROVE GroupInv'
<1>1. /\ groupNow < GroupMaxTime /\ groupNow' = groupNow + 1
      /\ UNCHANGED <<revision, terms, members, invites, joins, flows, outbox, commits, leaves,
                     claims, remote>>
  BY DEF GroupTick
<1>2. GroupRows' /\ GroupExists' /\ LeafHasMember'
  BY <1>1, LeavesKept DEF GroupInv, GroupRows, GroupExists
<1>3. \A r \in Requests : CommitsOf(r)' = CommitsOf(r)
  BY <1>1, ChainKept
<1> QED
  BY <1>1, <1>2, <1>3, InvitesKept, QuietKeeps

-----------------------------------------------------------------------------
(* The MLS chain *)

\* A commit about a device, which no request asked for.
LEMMA DeviceStepKeeps ==
    ASSUME GroupInv, NEW kind \in CommitKinds, NEW d \in Leafs, Append1(kind, d, Nobody),
           NEW state \in {"pending", "removed"}, leaves' = [leaves EXCEPT ![d] = state],
           state = "pending" => Holder[d] \in members,
           UNCHANGED <<revision, terms, members, invites, joins, flows, outbox, groupNow, claims,
                       remote>>
    PROVE  GroupInv'
<1>1. commits' \in Seq(CommitRow) /\ \A r \in Requests : CommitsOf(r)' = CommitsOf(r)
  <2>1. \A r \in Requests : r # Nobody
    BY DEF Nobody
  <2> QED
    BY <2>1, ChainGrows
<1>2. leaves \in [Leafs -> {"none", "pending", "active", "removed"}] /\ LeafHasMember
  BY DEF GroupInv, GroupRows
<1>3. leaves' \in [Leafs -> {"none", "pending", "active", "removed"}]
      /\ leaves'[d] = state /\ \A e \in Leafs \ {d} : leaves'[e] = leaves[e]
  BY <1>2
<1>4. GroupRows' /\ GroupExists'
  BY <1>1, <1>3 DEF GroupInv, GroupRows, GroupExists
<1>5. LeafHasMember'
  BY <1>2, <1>3 DEF LeafHasMember
<1> QED
  BY <1>1, <1>4, <1>5, InvitesKept, QuietKeeps

\* The first commit, another device, and a device that is taken out.
LEMMA DevicesKeep ==
    ASSUME GroupInv, NEW d \in Leafs, MlsBootstrap(d) \/ MlsAddDevice(d) \/ MlsRemoveDevice(d)
    PROVE  GroupInv'
<1>1. PICK kind \in CommitKinds, state \in {"pending", "removed"} :
        /\ Append1(kind, d, Nobody) /\ leaves' = [leaves EXCEPT ![d] = state]
        /\ state = "pending" => Holder[d] \in members
        /\ UNCHANGED <<revision, terms, members, invites, joins, flows, outbox, groupNow, claims,
                       remote>>
  <2>1. CASE MlsBootstrap(d)
    <3>1. Holder[d] \in members
      BY <2>1 DEF MlsBootstrap, GroupInv, GroupExists
    <3>2. "bootstrap" \in CommitKinds
      BY DEF CommitKinds
    <3> QED
      BY <2>1, <3>1, <3>2, Zenon DEF MlsBootstrap
  <2>2. CASE MlsAddDevice(d)
    <3>1. "add" \in CommitKinds
      BY DEF CommitKinds
    <3> QED
      BY <2>2, <3>1, Zenon DEF MlsAddDevice
  <2>3. CASE MlsRemoveDevice(d)
    <3>1. "drop" \in CommitKinds /\ "removed" # "pending"
      BY DEF CommitKinds
    <3> QED
      BY <2>3, <3>1, Zenon DEF MlsRemoveDevice
  <2> QED
    BY <2>1, <2>2, <2>3
<1> QED
  BY <1>1, DeviceStepKeeps

\* The commit of a join is the first of its request, which the Sequencer does not know.
LEMMA JoinKeeps ==
    ASSUME GroupInv, NEW q \in Requests, MlsJoin(q)
    PROVE  GroupInv'
<1> DEFINE d == flows[q].dev
<1>1. /\ Undispatched(q) /\ Append1("join", d, q) /\ leaves' = [leaves EXCEPT ![d] = "pending"]
      /\ Finalize(q) /\ UNCHANGED <<terms, groupNow, claims, remote>>
  BY DEF MlsJoin
<1>2. InFlight(q) /\ Absent(q) /\ CommitsOf(q) = {} /\ joins[q].state = "reserved"
  BY <1>1, RequestFields DEF Undispatched, InFlight, Decided, RequestAligned
<1>3. d \in Leafs
  BY <1>2, RequestFields DEF RequestMade
<1>4. /\ commits' \in Seq(CommitRow) /\ CommitsOf(q)' = {epoch + 1}
      /\ \A r \in Requests \ {q} : CommitsOf(r)' = CommitsOf(r)
  <2>1. "join" \in CommitKinds
    BY DEF CommitKinds
  <2> QED
    BY <1>1, <1>2, <1>3, <2>1, ChainGrows
<1>5. Cardinality(CommitsOf(q)') = 1
  BY <1>4, FS_Singleton
<1>6. /\ leaves' \in [Leafs -> {"none", "pending", "active", "removed"}]
      /\ \A e \in Leafs : e # d => leaves'[e] = leaves[e]
  BY <1>1, <1>3 DEF GroupInv, GroupRows
<1>7. claims' \in [GroupWorkers -> ClaimRow]
  BY <1>1 DEF GroupInv, GroupRows
<1> QED
  BY <1>1, <1>2, <1>4, <1>5, <1>6, <1>7, FinalizeKeeps

\* The leaf that a removal takes out is the only live one of the member.
LEMMA RemoveMemberKeeps ==
    ASSUME GroupInv, NEW d \in Leafs, MlsRemoveMember(d)
    PROVE  GroupInv'
<1> DEFINE p == Holder[d]
<1>1. /\ p # Owner /\ LiveLeaves(p) = {d} /\ NextRevision /\ Append1("remove", d, Nobody)
      /\ members' = members \ {p} /\ terms' = [terms EXCEPT ![p].active = FALSE]
      /\ leaves' = [leaves EXCEPT ![d] = "removed"]
      /\ UNCHANGED <<invites, joins, flows, outbox, groupNow, claims, remote>>
  BY DEF MlsRemoveMember, OnlyLeaf
<1>2. GroupRows /\ revision' \in 0..MaxRevision /\ revision' > 0 /\ Owner \in members
  BY <1>1, RevisionGrows DEF GroupInv
<1>3. p \in Persons
  BY <1>1
<1>4. terms' \in [Persons -> TermRow]
  BY <1>1, <1>3, TermEnds
<1>5. commits' \in Seq(CommitRow) /\ \A r \in Requests : CommitsOf(r)' = CommitsOf(r)
  <2>1. \A r \in Requests : r # Nobody
    BY DEF Nobody
  <2>2. "remove" \in CommitKinds
    BY DEF CommitKinds
  <2> QED
    BY <1>1, <2>1, <2>2, ChainGrows
<1>6. leaves' \in [Leafs -> {"none", "pending", "active", "removed"}]
      /\ leaves'[d] = "removed" /\ \A e \in Leafs \ {d} : leaves'[e] = leaves[e]
  BY <1>1, <1>2 DEF GroupRows
<1>7. GroupRows'
  BY <1>1, <1>2, <1>4, <1>5, <1>6 DEF GroupRows
<1>8. GroupExists'
  BY <1>1, <1>2 DEF GroupExists
<1>9. LeafHasMember'
  <2>1. \A e \in Leafs \ {d} : leaves[e] \in {"pending", "active"} => Holder[e] # p
    BY <1>1 DEF LiveLeaves
  <2> QED
    BY <1>1, <1>6, <2>1 DEF GroupInv, LeafHasMember
<1> QED
  BY <1>1, <1>5, <1>7, <1>8, <1>9, InvitesKept, QuietKeeps

\* A leaf is confirmed.
LEMMA ConfirmKeeps == ASSUME GroupInv, NEW d \in Leafs, ConfirmLeaf(d) PROVE GroupInv'
<1>1. /\ leaves[d] = "pending" /\ leaves' = [leaves EXCEPT ![d] = "active"]
      /\ UNCHANGED <<revision, terms, members, invites, joins, flows, outbox, commits, groupNow,
                     claims, remote>>
  BY DEF ConfirmLeaf
<1>2. leaves \in [Leafs -> {"none", "pending", "active", "removed"}] /\ LeafHasMember
  BY DEF GroupInv, GroupRows
<1>3. leaves' \in [Leafs -> {"none", "pending", "active", "removed"}]
      /\ leaves'[d] = "active" /\ \A e \in Leafs \ {d} : leaves'[e] = leaves[e]
  BY <1>1, <1>2
<1>4. GroupRows' /\ GroupExists'
  BY <1>1, <1>3 DEF GroupInv, GroupRows, GroupExists
<1>5. LeafHasMember'
  BY <1>1, <1>2, <1>3 DEF LeafHasMember
<1>6. \A r \in Requests : CommitsOf(r)' = CommitsOf(r)
  BY <1>1, ChainKept
<1> QED
  BY <1>1, <1>4, <1>5, <1>6, InvitesKept, QuietKeeps

-----------------------------------------------------------------------------
(* The theorems *)

\* Before the group exists nothing is recorded.
LEMMA GroupStarts == GroupInit => GroupInv
<1> SUFFICES ASSUME GroupInit PROVE GroupInv
  OBVIOUS
<1>1. /\ [gen |-> 0, active |-> FALSE] \in TermRow /\ NoInvite \in InviteRow /\ NoJoin \in JoinRow
      /\ NoFlow \in FlowRow /\ NoRow \in OutboxRow
  BY DEF TermRow, NoInvite, InviteRow, NoJoin, JoinRow, NoFlow, FlowRow, NoRow, OutboxRow, Actions
<1>2. commits \in Seq(CommitRow) /\ Len(commits) = 0
  BY DEF GroupInit
<1>3. GroupRows
  <2>1. NotSubmitted \in RemoteRow /\ "none" \in {"none", "pending", "active", "removed"}
    BY DEF NotSubmitted, RemoteRow, Decisions
  <2> QED
    BY <1>1, <1>2, <2>1, NoClaimRow DEF GroupInit, GroupRows
<1>4. GroupExists /\ LeafHasMember
  BY DEF GroupInit, GroupExists, LeafHasMember
<1>5. ASSUME NEW i \in Invitations PROVE InviteCounts(i)
  <2>1. JoinsOf(i, "approved") = {}
    BY DEF GroupInit, JoinsOf, JoinsIn, NoJoin
  <2>2. Cardinality(JoinsOf(i, "approved")) = 0
    BY <2>1, FS_EmptySet
  <2>3. invites[i].used = 0 /\ invites[i].reserved = 0 /\ invites[i].max = 0
    BY DEF GroupInit, NoInvite
  <2> QED
    BY <2>2, <2>3 DEF InviteCounts
<1>6. ASSUME NEW r \in Requests PROVE RequestMade(r) /\ RequestAligned(r) /\ RowLeased(r) /\ Decided(r)
  <2>1. CommitsOf(r) = {}
    BY <1>2 DEF CommitsOf, epoch
  <2>2. /\ joins[r].state = "none" /\ flows[r].state = "none" /\ outbox[r].state = "none"
        /\ outbox[r].tok = 0 /\ remote[r].state = "none"
    BY DEF GroupInit, NoJoin, NoFlow, NoRow, NotSubmitted
  <2> QED
    BY <2>1, <2>2 DEF RequestMade, RequestAligned, RowLeased, Decided, InFlight
<1>7. \A w \in GroupWorkers : ClaimKnown(w)
  BY DEF GroupInit, ClaimKnown, NoClaim
<1> QED
  BY <1>3, <1>4, <1>5, <1>6, <1>7 DEF GroupInv

\* The invariant of a group: the three tables of every request, the counters of its invitation,
\* the claims of the workers and what the Sequencer and the MLS chain decided agree, for any
\* number of requests, workers and devices (dtx-membership-command, dtx-group-persistence).
THEOREM GroupSafety == GroupSpec => []GroupInv
<1>1. ASSUME GroupInv, GroupNext PROVE GroupInv'
  <2>1. CASE PolicyNext
    BY <1>1, <2>1, CreateKeeps, GrantKeeps, RevokeKeeps, IssueKeeps, RevokeInviteKeeps
       DEF PolicyNext
  <2>2. CASE SagaNext
    BY <1>1, <2>2, RequestKeeps, ApproveKeeps, RefuseKeeps DEF SagaNext
  <2>3. CASE OutboxNext
    BY <1>1, <2>3, PrepareRevokedKeeps, PrepareActionKeeps, DecidesKeeps, AnswersKeep,
       ResolveKeeps, TickKeeps
       DEF OutboxNext
  <2>4. CASE MlsNext
    BY <1>1, <2>4, JoinKeeps, DevicesKeep, RemoveMemberKeeps, ConfirmKeeps DEF MlsNext
  <2> QED
    BY <1>1, <2>1, <2>2, <2>3, <2>4 DEF GroupNext
<1>2. ASSUME GroupInv, UNCHANGED groupVars PROVE GroupInv'
  <2>1. UNCHANGED <<revision, terms, members, invites, joins, flows, outbox, commits, leaves,
                    groupNow, claims, remote>>
    BY <1>2 DEF groupVars
  <2>2. GroupRows' /\ GroupExists' /\ LeafHasMember'
    BY <1>2, <2>1, LeavesKept DEF GroupInv, GroupRows, GroupExists
  <2>3. \A r \in Requests : CommitsOf(r)' = CommitsOf(r)
    BY <2>1, ChainKept
  <2> QED
    BY <1>2, <2>1, <2>2, <2>3, InvitesKept, QuietKeeps
<1> QED
  BY <1>1, <1>2, GroupStarts, PTL DEF GroupSpec

\* An invitation admits no more candidates than it was issued for, and the policy's record, the
\* workflow and the outbox row of a request tell one story, however approvals, commits that
\* return late and workers that lost their lease interleave (approve_join, resolve_action).
THEOREM GroupJoins == GroupSpec => []JoinTablesAgree
<1>1. ASSUME GroupInv PROVE JoinTablesAgree
  <2>1. GroupTypeOK
    <3>1. \A i \in Invitations : /\ invites[i].state \in {"none", "open", "revoked"}
                                 /\ invites[i].used + invites[i].reserved <= invites[i].max
      BY <1>1, InviteFields DEF InviteCounts
    <3>2. \A r \in Requests :
            /\ joins[r].state \in {"none", "pending", "reserved", "approved"}
            /\ flows[r].state \in {"none", "pending_approval", "pending_commit", "reconciling",
                                   "committed", "rejected"}
            /\ outbox[r].state \in {"none", "active", "completed"}
            /\ remote[r].state \in {"none", "sent", "committed", "rejected"}
      BY <1>1, RequestFields DEF Decisions
    <3> QED
      BY <1>1, <3>1, <3>2 DEF GroupTypeOK, GroupInv, GroupRows, TermRow
  <2>2. AdmissionsBounded
    BY <1>1, InviteFields DEF AdmissionsBounded, InviteCounts
  <2>3. SagaAligned
    BY <1>1 DEF GroupInv, SagaAligned, RequestAligned
  <2> QED
    BY <2>1, <2>2, <2>3 DEF JoinTablesAgree
<1> QED
  BY <1>1, GroupSafety, PTL

\* Nobody becomes a member without a commit of the MLS chain or of the Sequencer, and a request
\* whose submit was handed out is settled by somebody else only after a later lookup found it
\* absent, although submits arrive late, answers are lost and leases change hands
\* (prepare_next_action, resolve_action, commit_join).
THEOREM GroupOutcomes == GroupSpec => []OutcomeAgrees
<1>1. ASSUME GroupInv PROVE OutcomeAgrees
  <2>1. AdmittedByCommit
    <3>1. ASSUME NEW r \in Requests
          PROVE  /\ Cardinality(CommitsOf(r)) <= 1
                 /\ joins[r].state = "approved" =>
                       CommitsOf(r) # {} \/ remote[r].state = "committed"
      <4>1. CommitsOf(r) = {} => Cardinality(CommitsOf(r)) = 0
        BY FS_EmptySet
      <4>2. Decided(r) /\ (flows[r].state = "committed" <=> joins[r].state = "approved")
        BY <1>1, RequestFields DEF RequestAligned
      <4> QED
        BY <4>1, <4>2 DEF Decided
    <3> QED
      BY <3>1 DEF AdmittedByCommit
  <2>2. UncertainUntilLookup
    <3>1. ASSUME NEW r \in Requests, ~Absent(r)
          PROVE  /\ CommitsOf(r) = {}
                 /\ flows[r].state = "rejected" => remote[r].state = "rejected"
      BY <1>1, <3>1, RequestFields DEF Decided
    <3> QED
      BY <3>1 DEF UncertainUntilLookup, Absent
  <2> QED
    BY <2>1, <2>2 DEF OutcomeAgrees
<1> QED
  BY <1>1, GroupSafety, PTL

\* Whoever holds a live MLS leaf is a member of the group: no removal leaves a second leaf of
\* the removed identity behind (remove_member).
THEOREM GroupLeaves == GroupSpec => []LeafHasMember
<1>1. GroupInv => LeafHasMember
  BY DEF GroupInv
<1> QED
  BY <1>1, GroupSafety, PTL
=============================================================================
