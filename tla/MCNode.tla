------------------------------- MODULE MCNode -------------------------------
(***************************************************************************)
(* The group, the identity, the key packages, the host supervisor and the  *)
(* mailboxes of a node, side by side.  They share no state, so an initial  *)
(* state says which of them moves and in which situation; a situation only *)
(* leaves steps out.                                                       *)
(***************************************************************************)
EXTENDS GroupMembership, IdentityLog, KeyDirectory, HostSupervisor,
        MCMailboxDelivery, TLC

VARIABLE moving

-----------------------------------------------------------------------------
(* The group: an owner, two candidates, one of them with two devices. *)

DeviceHolders == "d0" :> "o" @@ "d1" :> "p" @@ "d2" :> "p" @@ "d3" :> "q"

\* Two candidates for the last place of an invitation.
GroupRace ==
    /\ moving = "race"
    /\ GroupNext
    /\ epoch' <= 2 /\ revision' <= 6
    /\ terms' = terms
    /\ Len(commits') = 2 => commits'[2].kind = "join"
    /\ flows'["r1"].dev \in {Nobody, "d1"} /\ flows'["r2"].dev \in {Nobody, "d3"}
    /\ \A r \in Requests : outbox'[r].tries <= 2

\* One candidate while administrators come and go, and no MLS group.
GroupTerms ==
    /\ moving = "terms"
    /\ PolicyNext \/ SagaNext \/ OutboxNext
    /\ flows'["r2"] = NoFlow /\ terms'["q"].gen = 0
    /\ outbox'["r1"].tries <= 3 /\ groupNow' <= 1

\* One candidate, an administrator, and the MLS group without the external Sequencer.
GroupMls ==
    /\ moving = "mls"
    /\ PolicyNext \/ SagaNext \/ MlsNext
    /\ flows'["r2"] = NoFlow /\ terms'["q"].gen = 0

-----------------------------------------------------------------------------
(* The identity: two devices and the keys k0 (root), k1 (recovery), k2, k3. *)

Intent(kind, signer, dev, root, rec) ==
    [kind |-> kind, signer |-> signer, dev |-> dev, root |-> root, rec |-> rec]
SignedByClients ==
    { Intent("genesis", "k0", Nothing, "k0", "k1"),
      Intent("add", "k0", "d1", "k0", Nothing), Intent("add", "k0", "d2", "k0", Nothing),
      Intent("add", "d1", "d2", "k0", Nothing),
      Intent("revoke", "k0", "d1", Nothing, Nothing),
      Intent("revoke", "k0", "d2", Nothing, Nothing),
      Intent("revoke", "k2", "d2", Nothing, Nothing),
      Intent("rotate_root", "k0", Nothing, "k2", Nothing),
      Intent("rotate_root", "k0", Nothing, "d1", Nothing),
      Intent("rotate_recovery", "k0", Nothing, Nothing, "k3"),
      Intent("restore", "k1", Nothing, "k2", "k3"),
      Intent("relay", "k0", Nothing, Nothing, Nothing) }
CardsForSecond == [c \in Cards |-> "d2"]

\* Events are signed in the order of their names, the genesis and the first device first.
DraftNames == <<"e1", "e2", "e3", "e4", "e5">>
InOrder ==
    /\ \A n \in 2..Cardinality(Drafts) :
          events'[DraftNames[n]] # Unsigned => events'[DraftNames[n - 1]] # Unsigned
    /\ events'["e1"].kind \in {"none", "genesis"}
    /\ events'["e2"] # Unsigned =>
          <<"add", "k0", "d1">> = <<events'["e2"].kind, events'["e2"].signer, events'["e2"].dev>>
    /\ events'["e3"] # Unsigned => Len(idLog') >= 2

\* Cards, sessions and revocations under the first keys; the second device opens a session early.
IdentityEnroll ==
    /\ moving = "enroll"
    /\ IdentityNext
    /\ InOrder
    /\ \A x \in Drafts \ {"e1"} : events'[x].kind \in {"none", "add", "revoke"}
    /\ challenge'["d2"] = challenge["d2"] \/ idNow = 0

\* Keys that are rotated and recovered, without sessions.
IdentityKeys ==
    /\ moving = "keys"
    /\ IdentityNext
    /\ InOrder
    /\ UNCHANGED <<cards, idNow, challenge, session>>

-----------------------------------------------------------------------------
(* Key packages of two devices. *)

PackageOwner == [p \in Packages |-> IF p = "p3" THEN "t2" ELSE "t1"]
PackageEnds  == "p1" :> 2 @@ "p2" :> 3 @@ "p3" :> 4
ClaimedFrom  == [c \in ClaimCommands |-> IF c = "c3" THEN "t2" ELSE "t1"]

-----------------------------------------------------------------------------
(* The host: one Connector and one operation of each kind. *)

OneOfEach == [o \in HostOps |->
    [kind |-> o, conn |-> "cn",
     cred |-> CASE o = "rotate" -> "k1" [] o = "prepare" -> "k2" [] OTHER -> NoCred]]

HostWith(ops) ==
    /\ HostNext
    /\ \A r \in HostRuns : invoked'[r] # IdleRun => invoked'[r].op \in ops

\* One invocation at a time.
HostLifecycle ==
    /\ moving = "lifecycle"
    /\ HostWith({"ensure", "rotate", "start", "restart", "stop"})
    /\ invoked'["h2"] = IdleRun
HostInstall ==
    /\ moving = "install"
    /\ HostWith({"ensure", "rotate", "prepare", "start", "finalize"})
    /\ invoked'["h2"] = IdleRun

\* Invocations that overlap; a new one takes the first name that is free.
HostCrowd ==
    /\ moving = "crowd"
    /\ HostWith({"ensure", "rotate", "start", "remove"})
    /\ hostFaults' <= 1
    /\ invoked["h2"] = IdleRun /\ invoked'["h2"] # IdleRun => invoked["h1"] # IdleRun

-----------------------------------------------------------------------------
nodeVars == <<moving, groupVars, identityVars, directoryVars, hostVars, vars>>

NodeInit ==
    /\ moving \in {"race", "terms", "mls", "enroll", "keys", "packages",
                   "lifecycle", "install", "crowd", "quota", "devices"}
    /\ GroupInit /\ IdentityInit /\ DirectoryInit /\ HostInit /\ Init

NodeNext ==
    /\ UNCHANGED moving
    /\ \/ /\ GroupRace \/ GroupTerms \/ GroupMls
          /\ UNCHANGED <<identityVars, directoryVars, hostVars, vars>>
       \/ /\ IdentityEnroll \/ IdentityKeys
          /\ UNCHANGED <<groupVars, directoryVars, hostVars, vars>>
       \/ /\ moving = "packages" /\ DirectoryNext
          /\ UNCHANGED <<groupVars, identityVars, hostVars, vars>>
       \/ /\ HostLifecycle \/ HostInstall \/ HostCrowd
          /\ UNCHANGED <<groupVars, identityVars, directoryVars, vars>>
       \/ /\ \/ moving = "quota" /\ OneMailbox
             \/ moving = "devices" /\ SharedJournal
          /\ UNCHANGED <<groupVars, identityVars, directoryVars, hostVars>>

NodeSpec == NodeInit /\ [][NodeNext]_nodeVars
=============================================================================
