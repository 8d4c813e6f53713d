---------------------------- MODULE KeyDirectory ----------------------------
(***************************************************************************)
(* The directory of MLS key packages of dtx-identity-persistence           *)
(* (key_package_repository.rs): a device publishes packages that are each  *)
(* to be consumed once, a claimant takes one and may repeat its claim.     *)
(*                                                                         *)
(* Publishing and claiming are transactions under the lock of the owner's  *)
(* identity and are one action each; both first prune what is past its     *)
(* retention.  Requests are repeated at any later time.  A request that is *)
(* refused is rolled back, the pruning included, and is no action.  The    *)
(* claimant's session is the identity service's business and left out.     *)
(* All handlers read one clock.                                            *)
(***************************************************************************)
EXTENDS Naturals, FiniteSets, FiniteSetsExt

CONSTANTS
    Packages,         \* package ids
    PackageDevice,    \* the device that publishes each
    PackageExpiry,    \* the expiry each is signed with
    ClaimCommands,    \* idempotency keys of claims
    ClaimTarget,      \* the device each claim is for
    PackageTtl,       \* the longest life a package may be published with
    ReplayRetention,  \* the time a claim stays repeatable at least
    KdMaxHead, KdMaxTime    \* bounds

ASSUME KeyDirectoryAssumption ==
    /\ \A p \in Packages : PackageExpiry[p] \in Nat
    /\ PackageTtl \in Nat \ {0} /\ ReplayRetention \in Nat \ {0}
    /\ KdMaxHead \in Nat \ {0} /\ KdMaxTime \in Nat
    /\ "unclaimed" \notin Packages

VARIABLES
    packages,   \* key_packages with their publish claims; "none" where no row is
    signedAt,   \* the identity head a publish command was signed for; 0: not signed
    claimed,    \* key_package_claims with their receipts
    kdHead,     \* the head of the owner's identity log
    kdActive,   \* the devices the log has active
    kdNow,
    handed      \* history: which claim got which package when

directoryVars == <<packages, signedAt, claimed, kdHead, kdActive, kdNow, handed>>

NoPackage == [state |-> "none", keep |-> 0]
Unclaimed == "unclaimed"

DirectoryTypeOK ==
    /\ \A p \in Packages :
          /\ packages[p].state \in {"none", "available", "claimed"}
          /\ packages[p].state # "none" => packages[p].keep >= PackageExpiry[p]
    /\ \A c \in ClaimCommands :
          claimed[c] = Unclaimed \/ packages[claimed[c]].state = "claimed"
    /\ kdHead \in 1..KdMaxHead /\ kdNow \in 0..KdMaxTime

DirectoryInit ==
    /\ packages = [p \in Packages |-> NoPackage]
    /\ signedAt = [p \in Packages |-> 0]
    /\ claimed = [c \in ClaimCommands |-> Unclaimed]
    /\ kdHead = 1
    /\ kdActive = {PackageDevice[p] : p \in Packages}
    /\ kdNow = 0
    /\ handed = {}

\* A package leaves with its publish claim, its claim and its receipt.
Kept       == {p \in Packages : packages[p].state # "none" /\ packages[p].keep > kdNow}
AfterPrune == [p \in Packages |-> IF p \in Kept THEN packages[p] ELSE NoPackage]
ClaimsKept == [c \in ClaimCommands |-> IF claimed[c] \in Kept THEN claimed[c] ELSE Unclaimed]

\* The device signs the command for the head it knows.
SignPackage(p) ==
    /\ signedAt[p] = 0 /\ PackageDevice[p] \in kdActive
    /\ signedAt' = [signedAt EXCEPT ![p] = kdHead]
    /\ UNCHANGED <<packages, claimed, kdHead, kdActive, kdNow, handed>>

PublishExpiryValid(p) ==
    kdNow < PackageExpiry[p] /\ PackageExpiry[p] <= kdNow + PackageTtl

\* publish: a repeat finds its receipt for as long as the package has a row.
Publish(p) ==
    /\ signedAt[p] # 0
    /\ PackageDevice[p] \in kdActive
    /\ \/ /\ p \in Kept
          /\ packages' = AfterPrune
       \/ /\ p \notin Kept
          /\ signedAt[p] = kdHead
          /\ PublishExpiryValid(p)
          /\ packages' = [AfterPrune EXCEPT ![p] =
                [state |-> "available", keep |-> PackageExpiry[p]]]
    /\ claimed' = ClaimsKept
    /\ UNCHANGED <<signedAt, kdHead, kdActive, kdNow, handed>>

Available(d) ==
    {p \in Kept : /\ packages[p].state = "available"
                  /\ PackageDevice[p] = d
                  /\ PackageExpiry[p] > kdNow}

RetentionToExpiry(p) == PackageExpiry[p]

\* claim_retention_until: the row outlives both the package and the replay window.
ClaimRetentionUntil(p) == Max({PackageExpiry[p], kdNow + ReplayRetention})

\* claim: the earliest to expire of the packages of an active device.
Claim(c) ==
    /\ \/ /\ ClaimsKept[c] # Unclaimed
          /\ packages' = AfterPrune
          /\ claimed' = ClaimsKept
          /\ UNCHANGED handed
       \/ /\ ClaimsKept[c] = Unclaimed
          /\ ClaimTarget[c] \in kdActive
          /\ \E p \in Available(ClaimTarget[c]) :
                /\ \A q \in Available(ClaimTarget[c]) : PackageExpiry[p] <= PackageExpiry[q]
                /\ packages' = [AfterPrune EXCEPT ![p] =
                      [state |-> "claimed", keep |-> ClaimRetentionUntil(p)]]
                /\ claimed' = [ClaimsKept EXCEPT ![c] = p]
                /\ handed' = handed \cup {[claim |-> c, package |-> p, at |-> kdNow]}
    /\ UNCHANGED <<signedAt, kdHead, kdActive, kdNow>>

\* The identity log moves on, perhaps by revoking a device.
LogMoves ==
    /\ kdHead < KdMaxHead
    /\ kdHead' = kdHead + 1
    /\ \E gone \in SUBSET kdActive :
          Cardinality(gone) <= 1 /\ kdActive' = kdActive \ gone
    /\ UNCHANGED <<packages, signedAt, claimed, kdNow, handed>>

DirectoryTick ==
    /\ kdNow < KdMaxTime
    /\ kdNow' = kdNow + 1
    /\ UNCHANGED <<packages, signedAt, claimed, kdHead, kdActive, handed>>

DirectoryNext ==
    \/ \E p \in Packages : SignPackage(p) \/ Publish(p)
    \/ \E c \in ClaimCommands : Claim(c)
    \/ LogMoves \/ DirectoryTick

DirectorySpec == DirectoryInit /\ [][DirectoryNext]_directoryVars

-----------------------------------------------------------------------------
(* Properties. *)

\* No package is handed out twice, although its row is pruned and the publish command
\* is repeated afterwards (claim_retention_until, validate_publish_expiry): MLS key
\* material must not be reused.
PackageHandedOnce == \A a, b \in handed : a.package = b.package => a = b

\* A claimant that lost the response and repeats its claim within the replay window
\* does not consume a second package.
ClaimConsumesOne ==
    \A a, b \in handed : a.claim = b.claim /\ a.at <= b.at /\ a # b =>
        a.at + ReplayRetention <= b.at

\* The directory as claimants rely on it: the rows agree, no package is used twice and
\* no claim uses two.
PackagesOneTime == DirectoryTypeOK /\ PackageHandedOnce /\ ClaimConsumesOne
=============================================================================
