--------------------------- MODULE Identity_proofs ---------------------------
(***************************************************************************)
(* One identity, for any devices, events, cards, packages and lifetimes:   *)
(* its log is frozen only on proof of a fork, a device enters it once in   *)
(* its life, only active devices change it through a session, and its key  *)
(* packages are each handed out once.                                      *)
(*                                                                         *)
(* The projection of a log is a recursive function of its entries.  What   *)
(* it keeps is shown by induction over the log, from the well-foundedness  *)
(* of < on the naturals: every prefix has one projection, and an append    *)
(* leaves the projections of the shorter prefixes as they were.            *)
(***************************************************************************)
EXTENDS IdentityLog, KeyDirectory, SequenceTheorems, WellFoundedInduction, TLAPS

-----------------------------------------------------------------------------
(* The projection of a log. *)

\* f is the projection of every prefix of n signed events.
Projects(f, signed, n) ==
    f = [i \in 1..n |-> IF i = 1 THEN Genesis(signed[1]) ELSE Reduce(f[i - 1], signed[i])]

\* A set of natural numbers that has 0 and the successor of each of its members has all.
LEMMA Induction ==
    ASSUME NEW S, 0 \in S, \A n \in Nat : n \in S => n + 1 \in S
    PROVE  \A n \in Nat : n \in S
<1> DEFINE T == {n \in Nat : n \notin S}
           R == OpToRel(<, Nat)
<1> SUFFICES ASSUME T # {} PROVE FALSE
  OBVIOUS
<1>1. IsWellFoundedOn(R, Nat)
  BY NatLessThanWellFounded
<1>2. \A x, y \in Nat : x < y => <<x, y>> \in R
  BY DEF OpToRel
<1>3. T \subseteq Nat
  OBVIOUS
<1>4. PICK t \in T : \A y \in T : ~(<<y, t>> \in R)
  <2> HIDE DEF R, T
  <2> QED  BY <1>1, <1>3, WFMin
<1> HIDE DEF R
<1>5. t \in Nat /\ t # 0 /\ t - 1 \in Nat /\ t - 1 < t /\ (t - 1) + 1 = t
  OBVIOUS
<1>6. t - 1 \notin T
  BY <1>2, <1>4, <1>5
<1>7. t - 1 \in S
  BY <1>5, <1>6
<1>8. t \in S
  BY <1>5, <1>7
<1> QED  BY <1>8

\* Every number of events has a projection.
LEMMA ProjectionExists ==
    ASSUME NEW signed
    PROVE  \A n \in Nat : \E f : Projects(f, signed, n)
<1> DEFINE S == {n \in Nat : \E f : Projects(f, signed, n)}
<1>1. 0 \in S
  <2>1. Projects([i \in 1..0 |-> 0], signed, 0)
    BY DEF Projects
  <2> QED  BY <2>1
<1>2. ASSUME NEW n \in Nat, n \in S PROVE n + 1 \in S
  <2>1. PICK f : Projects(f, signed, n)
    BY <1>2
  <2> DEFINE g == [i \in 1..(n + 1) |-> IF i = 1 THEN Genesis(signed[1])
                                        ELSE IF i = n + 1 THEN Reduce(f[n], signed[n + 1])
                                        ELSE f[i]]
  <2>2. \A i \in 1..n : f[i] = IF i = 1 THEN Genesis(signed[1]) ELSE Reduce(f[i - 1], signed[i])
    BY <2>1 DEF Projects
  <2>3. \A i \in 1..n : g[i] = f[i]
    BY <2>2
  <2>4. ASSUME NEW i \in 1..(n + 1)
        PROVE  g[i] = IF i = 1 THEN Genesis(signed[1]) ELSE Reduce(g[i - 1], signed[i])
    <3>1. CASE i = 1
      BY <3>1
    <3>2. CASE i # 1 /\ i = n + 1
      <4>1. n \in 1..n /\ i - 1 = n
        BY <3>2
      <4>2. g[n] = f[n]
        BY <2>3, <4>1
      <4>3. g[i] = Reduce(f[n], signed[n + 1])
        BY <3>2
      <4> QED  BY <3>2, <4>1, <4>2, <4>3
    <3>3. CASE i # 1 /\ i # n + 1
      <4>1. i \in 1..n /\ i - 1 \in 1..n
        BY <3>3
      <4>2. g[i] = f[i] /\ g[i - 1] = f[i - 1]
        BY <2>3, <4>1
      <4> QED  BY <2>2, <3>3, <4>1, <4>2
    <3> QED  BY <3>1, <3>2, <3>3
  <2>5. DOMAIN g = 1..(n + 1) /\ g = [i \in 1..(n + 1) |-> g[i]]
    OBVIOUS
  <2> HIDE DEF g
  <2>6. Projects(g, signed, n + 1)
    BY <2>4, <2>5 DEF Projects
  <2> QED  BY <2>6
<1> HIDE DEF S
<1>3. \A n \in Nat : n \in S
  BY <1>1, <1>2, Induction
<1> QED  BY <1>3 DEF S

\* And only one.
LEMMA ProjectionUnique ==
    ASSUME NEW signed, NEW n \in Nat, NEW f, NEW g,
           Projects(f, signed, n), Projects(g, signed, n)
    PROVE  f = g
<1> DEFINE S == {i \in Nat : i \in 1..n => f[i] = g[i]}
<1>0. /\ \A i \in 1..n : f[i] = IF i = 1 THEN Genesis(signed[1]) ELSE Reduce(f[i - 1], signed[i])
      /\ \A i \in 1..n : g[i] = IF i = 1 THEN Genesis(signed[1]) ELSE Reduce(g[i - 1], signed[i])
      /\ f = [i \in 1..n |-> f[i]] /\ g = [i \in 1..n |-> g[i]]
  BY DEF Projects
<1>1. 0 \in S
  OBVIOUS
<1>2. ASSUME NEW i \in Nat, i \in S PROVE i + 1 \in S
  <2> SUFFICES ASSUME i + 1 \in 1..n PROVE f[i + 1] = g[i + 1]
    OBVIOUS
  <2>1. CASE i = 0
    <3>1. 1 \in 1..n /\ i + 1 = 1
      BY <2>1
    <3>2. f[1] = Genesis(signed[1]) /\ g[1] = Genesis(signed[1])
      BY <1>0, <3>1
    <3> QED  BY <3>1, <3>2
  <2>2. CASE i # 0
    <3>1. i \in 1..n /\ (i + 1) - 1 = i /\ i + 1 # 1
      BY <2>2
    <3>2. f[i] = g[i]
      BY <1>2, <3>1
    <3>3. f[i + 1] = Reduce(f[i], signed[i + 1]) /\ g[i + 1] = Reduce(g[i], signed[i + 1])
      BY <1>0, <3>1
    <3> QED  BY <3>2, <3>3
  <2> QED  BY <2>1, <2>2
<1> HIDE DEF S
<1>3. \A i \in Nat : i \in S
  BY <1>1, <1>2, Induction
<1>4. \A i \in 1..n : f[i] = g[i]
  BY <1>3 DEF S
<1> QED  BY <1>0, <1>4

\* The projection the model reads is the last value of that function.
LEMMA ProjectValue ==
    ASSUME NEW signed, NEW n \in Nat, NEW f, Projects(f, signed, n)
    PROVE  Project(signed, n) = f[n]
<1> DEFINE c == CHOOSE g : g = [i \in 1..n |-> IF i = 1 THEN Genesis(signed[1])
                                                ELSE Reduce(g[i - 1], signed[i])]
<1>1. Project(signed, n) = c[n]
  BY DEF Project
<1>2. c = [i \in 1..n |-> IF i = 1 THEN Genesis(signed[1]) ELSE Reduce(c[i - 1], signed[i])]
  BY DEF Projects
<1>3. Projects(c, signed, n)
  BY <1>2 DEF Projects
<1> HIDE DEF c
<1>4. c = f
  BY <1>3, ProjectionUnique
<1> QED  BY <1>1, <1>4

\* The reducer, one event at a time.
LEMMA ProjectFirst ==
    ASSUME NEW signed
    PROVE  Project(signed, 1) = Genesis(signed[1])
<1>1. PICK f : Projects(f, signed, 1)
  BY ProjectionExists
<1>2. f[1] = Genesis(signed[1])
  BY <1>1 DEF Projects
<1> QED  BY <1>1, <1>2, ProjectValue

\* The projection of one more event is the projection before it, reduced by that event.
LEMMA ProjectNext ==
    ASSUME NEW n \in Nat \ {0}, NEW signed, NEW prefix, \A i \in 1..n : prefix[i] = signed[i]
    PROVE  Project(signed, n + 1) = Reduce(Project(prefix, n), signed[n + 1])
<1>0. n + 1 \in Nat /\ n \in Nat
  OBVIOUS
<1>1. PICK f : Projects(f, signed, n + 1)
  BY <1>0, ProjectionExists
<1> DEFINE g == [i \in 1..n |-> f[i]]
<1>2. \A i \in 1..(n + 1) : f[i] = IF i = 1 THEN Genesis(signed[1]) ELSE Reduce(f[i - 1], signed[i])
  BY <1>1 DEF Projects
<1>3. ASSUME NEW i \in 1..n
      PROVE  g[i] = IF i = 1 THEN Genesis(prefix[1]) ELSE Reduce(g[i - 1], prefix[i])
  <2>1. i \in 1..(n + 1) /\ g[i] = f[i] /\ prefix[i] = signed[i]
    OBVIOUS
  <2>2. CASE i = 1
    BY <1>2, <2>1, <2>2
  <2>3. CASE i # 1
    <3>1. i - 1 \in 1..n
      BY <2>3
    <3>2. g[i - 1] = f[i - 1]
      BY <3>1
    <3> QED  BY <1>2, <2>1, <2>3, <3>2
  <2> QED  BY <2>2, <2>3
<1>4. g = [i \in 1..n |-> g[i]] /\ g[n] = f[n]
  OBVIOUS
<1> HIDE DEF g
<1>5. Projects(g, prefix, n)
  BY <1>3, <1>4 DEF Projects
<1>6. Project(prefix, n) = f[n]
  BY <1>0, <1>4, <1>5, ProjectValue
<1>7. Project(signed, n + 1) = f[n + 1]
  BY <1>0, <1>1, ProjectValue
<1>8. f[n + 1] = Reduce(f[n], signed[n + 1])
  <2>1. n + 1 \in 1..(n + 1) /\ n + 1 # 1 /\ (n + 1) - 1 = n
    OBVIOUS
  <2> QED  BY <1>2, <2>1
<1> QED  BY <1>6, <1>7, <1>8

DeviceStates == {"none", "active", "revoked"}

\* The shape of a projection.
Projected(p) ==
    \E root, recovery : \E dev \in [IdDevices -> DeviceStates] :
        p = [root |-> root, recovery |-> recovery, dev |-> dev]

\* What an event of the log carries, signed or not.
Carries(e) ==
    /\ e.kind \in EventKinds
    /\ e.kind \in {"add", "revoke"} => e.dev \in IdDevices
    /\ e.seq \in Nat \ {0}

\* A projection is made of its keys and of the states of its devices.
LEMMA ShapeProjected ==
    ASSUME NEW root, NEW recovery, NEW dev \in [IdDevices -> DeviceStates]
    PROVE  /\ Projected([root |-> root, recovery |-> recovery, dev |-> dev])
           /\ [root |-> root, recovery |-> recovery, dev |-> dev].dev = dev
<1>1. Projected([root |-> root, recovery |-> recovery, dev |-> dev])
  BY Zenon DEF Projected
<1> QED  BY <1>1

\* Changing one device of a projection leaves its keys alone.
LEMMA DevicesReplaced ==
    ASSUME NEW root, NEW recovery, NEW dev, NEW new
    PROVE  [[root |-> root, recovery |-> recovery, dev |-> dev] EXCEPT !.dev = new] =
           [root |-> root, recovery |-> recovery, dev |-> new]
OBVIOUS

\* Genesis makes a projection in which no device was ever enrolled (bootstrap_projection).
LEMMA GenesisProjected == ASSUME NEW e PROVE Projected(Genesis(e))
<1>1. [d \in IdDevices |-> "none"] \in [IdDevices -> DeviceStates]
  BY DEF DeviceStates
<1> QED  BY <1>1, ShapeProjected DEF Genesis

\* An event leaves the shape, brings its device in, and lets no device go back to where
\* it never was.
LEMMA ReduceKeeps ==
    ASSUME NEW p, Projected(p), NEW e, Carries(e)
    PROVE  /\ Projected(Reduce(p, e))
           /\ e.kind = "add" => Reduce(p, e).dev[e.dev] # "none"
           /\ \A d \in IdDevices : p.dev[d] # "none" => Reduce(p, e).dev[d] # "none"
<1>1. PICK root, recovery, dev :
         /\ dev \in [IdDevices -> DeviceStates]
         /\ p = [root |-> root, recovery |-> recovery, dev |-> dev]
  BY DEF Projected
<1>2. p.dev = dev /\ p.root = root /\ p.recovery = recovery
  BY <1>1
<1>3. ASSUME NEW v \in {"active", "revoked"}, e.dev \in IdDevices,
             Reduce(p, e) = [p EXCEPT !.dev[e.dev] = v]
      PROVE  /\ Projected(Reduce(p, e))
             /\ Reduce(p, e).dev[e.dev] # "none"
             /\ \A d \in IdDevices : p.dev[d] # "none" => Reduce(p, e).dev[d] # "none"
  <2> DEFINE new == [dev EXCEPT ![e.dev] = v]
  <2>1. [p EXCEPT !.dev[e.dev] = v] = [root |-> root, recovery |-> recovery, dev |-> new]
    <3> HIDE DEF new
    <3>1. [p EXCEPT !.dev[e.dev] = v] = [p EXCEPT !.dev = new]
      BY <1>2 DEF new
    <3>2. [p EXCEPT !.dev = new] = [root |-> root, recovery |-> recovery, dev |-> new]
      BY <1>1, DevicesReplaced
    <3> QED  BY <3>1, <3>2
  <2>2. new \in [IdDevices -> DeviceStates] /\ new[e.dev] = v
        /\ \A d \in IdDevices : d # e.dev => new[d] = dev[d]
    BY <1>1, <1>3 DEF DeviceStates
  <2> HIDE DEF new
  <2>3. Projected(Reduce(p, e)) /\ Reduce(p, e).dev = new
    BY <1>3, <2>1, <2>2, ShapeProjected
  <2> QED  BY <1>2, <1>3, <2>2, <2>3
<1>4. CASE e.kind = "add"
  <2>1. Reduce(p, e) = [p EXCEPT !.dev[e.dev] = "active"] /\ e.dev \in IdDevices
    BY <1>4 DEF Reduce, Carries
  <2> QED  BY <1>3, <2>1
<1>5. CASE e.kind = "revoke"
  <2>1. Reduce(p, e) = [p EXCEPT !.dev[e.dev] = "revoked"] /\ e.dev \in IdDevices
    BY <1>5 DEF Reduce, Carries
  <2> QED  BY <1>3, <1>5, <2>1
<1>6. CASE e.kind = "rotate_root"
  <2>1. Reduce(p, e) = [root |-> e.root, recovery |-> recovery, dev |-> dev]
    BY <1>1, <1>6, Zenon DEF Reduce
  <2> QED  BY <1>1, <1>2, <1>6, <2>1, ShapeProjected
<1>7. CASE e.kind = "rotate_recovery"
  <2>1. Reduce(p, e) = [root |-> root, recovery |-> e.rec, dev |-> dev]
    BY <1>1, <1>7, Zenon DEF Reduce
  <2> QED  BY <1>1, <1>2, <1>7, <2>1, ShapeProjected
<1>8. CASE e.kind = "restore"
  <2> DEFINE new == [d \in IdDevices |-> IF p.dev[d] = "none" THEN "none" ELSE "revoked"]
  <2>1. Reduce(p, e) = [root |-> e.root, recovery |-> e.rec, dev |-> new]
    BY <1>8 DEF Reduce
  <2>2. new \in [IdDevices -> DeviceStates]
        /\ \A d \in IdDevices : p.dev[d] # "none" => new[d] # "none"
    BY DEF DeviceStates
  <2> HIDE DEF new
  <2> QED  BY <1>8, <2>1, <2>2, ShapeProjected
<1>9. CASE e.kind \in {"genesis", "relay"}
  <2>1. Reduce(p, e) = p
    BY <1>9 DEF Reduce
  <2> QED  BY <1>9, <2>1
<1> QED  BY <1>4, <1>5, <1>6, <1>7, <1>8, <1>9 DEF Carries, EventKinds

-----------------------------------------------------------------------------
(* The log. *)

CardRow == [state : {"none", "open", "approved", "cancelled"}, expires : Nat, keep : Nat,
            event : Drafts \cup {Nothing}]

IdentityRows ==
    /\ DOMAIN events = Drafts
    /\ idLog \in Seq(Drafts) /\ idNow \in 0..IdMaxTime
    /\ idState \in {"none", "active", "forked"}
    /\ receipts \in [Drafts -> {"none", "committed", "forked"}]
    /\ cards \in [Cards -> CardRow]
    /\ challenge \in [IdDevices -> [expires : Nat, session : Nat]]
    /\ session \in [IdDevices -> Nat]
    /\ DOMAIN authors = Drafts
    /\ idState = "none" <=> idLog = <<>>

\* Receipts and log agree, and what is in the log was signed.
ReceiptsMatch ==
    /\ \A x \in Drafts : (receipts[x] = "committed") = (\E n \in 1..Len(idLog) : idLog[n] = x)
    /\ \A x \in Drafts : events[x] # Unsigned => Carries(events[x])
    /\ \A n \in 1..Len(idLog) : events[idLog[n]] # Unsigned

\* Every entry follows from the ones before it.
LogValid == \A n \in 1..Len(idLog) : Follows(n - 1, events[idLog[n]])

\* The projection of every prefix knows each device that was added in it.
AddsRemembered ==
    \A n \in 1..Len(idLog) :
        /\ Projected(ProjectionAt(n))
        /\ \A m \in 1..n : events[idLog[m]].kind = "add" =>
              ProjectionAt(n).dev[events[idLog[m]].dev] # "none"

CardsMatch ==
    \A c \in Cards : cards[c].state = "approved" =>
        /\ cards[c].event \in Drafts
        /\ receipts[cards[c].event] = "committed"
        /\ events[cards[c].event].dev = CardDevice[c]

EvidenceSigned ==
    idState = "forked" => evidence.event \in Drafts /\ events[evidence.event] # Unsigned

IdentityInv ==
    /\ IdentityRows /\ ReceiptsMatch /\ LogValid /\ AddsRemembered /\ CardsMatch
    /\ EvidenceSigned /\ ForkJustified /\ InitiatorWasActive

\* The log is only extended and signed events stay as they are.
PrefixKept ==
    /\ \A n \in 1..Len(idLog) : idLog'[n] = idLog[n]
    /\ \A x \in Drafts : events[x] # Unsigned => events'[x] = events[x]

\* What follows from a prefix of the log does so for good.
LEMMA PrefixStable ==
    ASSUME IdentityInv, PrefixKept
    PROVE  /\ \A n \in 1..Len(idLog) : events'[idLog'[n]] = events[idLog[n]]
           /\ \A n \in 0..Len(idLog) : ProjectionAt(n)' = ProjectionAt(n)
           /\ \A n \in 0..Len(idLog) : \A e : Follows(n, e) => Follows(n, e)'
<1>0. Len(idLog) \in Nat /\ \A n \in 1..Len(idLog) : idLog[n] \in Drafts /\ events[idLog[n]] # Unsigned
  BY DEF IdentityInv, IdentityRows, ReceiptsMatch
<1>1. \A n \in 1..Len(idLog) : events'[idLog'[n]] = events[idLog[n]]
  BY <1>0 DEF PrefixKept
<1>2. ASSUME NEW n \in 0..Len(idLog) PROVE ProjectionAt(n)' = ProjectionAt(n)
  <2>1. [i \in 1..n |-> events'[idLog'[i]]] = [i \in 1..n |-> events[idLog[i]]]
    BY <1>0, <1>1
  <2> QED  BY <2>1 DEF ProjectionAt
<1>3. ASSUME NEW n \in 0..Len(idLog), NEW e, Follows(n, e) PROVE Follows(n, e)'
  <2>1. CASE n = 0
    BY <1>3, <2>1 DEF Follows
  <2>2. CASE n # 0
    <3>1. idLog'[n] = idLog[n] /\ ProjectionAt(n)' = ProjectionAt(n)
      BY <1>0, <1>2, <2>2 DEF PrefixKept
    <3>2. e.seq = n + 1 /\ e.prev = idLog[n] /\ Authorized(ProjectionAt(n), e)
      BY <1>3, <2>2 DEF Follows
    <3> QED  BY <2>2, <3>1, <3>2 DEF Follows
  <2> QED  BY <2>1, <2>2
<1> QED  BY <1>1, <1>2, <1>3

\* A step that does not touch the log: signing, sessions, cards and the clock.
LEMMA QuietKeeps ==
    ASSUME IdentityInv, PrefixKept, IdentityRows', CardsMatch',
           \A x \in Drafts : events'[x] # Unsigned => Carries(events'[x]),
           UNCHANGED <<idLog, idState, receipts, evidence, authors>>
    PROVE  IdentityInv'
<1>0. /\ Len(idLog) \in Nat /\ idLog' = idLog /\ \A n \in 1..Len(idLog) : idLog[n] \in Drafts
      /\ \A n \in 1..Len(idLog) : events[idLog[n]] # Unsigned
  BY DEF IdentityInv, IdentityRows, ReceiptsMatch
<1>1. ReceiptsMatch'
  <2>1. \A n \in 1..Len(idLog) : events'[idLog[n]] # Unsigned
    BY <1>0, PrefixStable
  <2>2. \A x \in Drafts :
            (receipts'[x] = "committed") = (\E n \in 1..Len(idLog') : idLog'[n] = x)
    BY Zenon DEF IdentityInv, ReceiptsMatch
  <2>3. \A n \in 1..Len(idLog') : events'[idLog'[n]] # Unsigned
    BY <1>0, <2>1
  <2> QED  BY <2>2, <2>3, Zenon DEF ReceiptsMatch
<1>2. LogValid'
  <2> SUFFICES ASSUME NEW n \in 1..Len(idLog) PROVE Follows(n - 1, events[idLog[n]])'
    BY <1>0 DEF LogValid
  <2>1. PICK e : e = events[idLog[n]]
    OBVIOUS
  <2>2. Follows(n - 1, e) /\ n - 1 \in 0..Len(idLog)
    BY <1>0, <2>1 DEF IdentityInv, LogValid
  <2>3. Follows(n - 1, e)'
    BY <2>2, PrefixStable
  <2>4. events'[idLog'[n]] = e
    BY <2>1, PrefixStable
  <2> QED  BY <2>3, <2>4
<1>3. AddsRemembered'
  <2> SUFFICES ASSUME NEW n \in 1..Len(idLog)
               PROVE  /\ Projected(ProjectionAt(n)')
                      /\ \A m \in 1..n : events'[idLog'[m]].kind = "add" =>
                            ProjectionAt(n)'.dev[events'[idLog'[m]].dev] # "none"
    BY <1>0 DEF AddsRemembered, Projected
  <2>1. ProjectionAt(n)' = ProjectionAt(n)
    BY <1>0, PrefixStable
  <2>2. \A m \in 1..n : events'[idLog'[m]] = events[idLog[m]]
    BY <1>0, PrefixStable
  <2> QED  BY <2>1, <2>2 DEF IdentityInv, AddsRemembered
<1>4. EvidenceSigned'
  BY DEF IdentityInv, EvidenceSigned, PrefixKept
<1>5. ForkJustified'
  <2> SUFFICES ASSUME idState = "forked"
               PROVE  /\ events'[evidence.event].seq \in 1..Len(idLog)
                      /\ idLog[events'[evidence.event].seq] # evidence.event
                      /\ Follows(events[evidence.event].seq - 1, events[evidence.event])'
                      /\ evidence.via # "approve"
    BY DEF ForkJustified
  <2>1. PICK e : e = events[evidence.event] /\ e = events'[evidence.event]
    BY DEF IdentityInv, EvidenceSigned, PrefixKept
  <2>2. /\ e.seq \in 1..Len(idLog) /\ idLog[e.seq] # evidence.event
        /\ Follows(e.seq - 1, e) /\ evidence.via # "approve"
    BY <2>1 DEF IdentityInv, ForkJustified
  <2>3. e.seq - 1 \in 0..Len(idLog)
    BY <1>0, <2>2
  <2>4. Follows(e.seq - 1, e)'
    BY <2>2, <2>3, PrefixStable
  <2> QED  BY <2>1, <2>2, <2>4
<1>6. InitiatorWasActive'
  <2> SUFFICES ASSUME NEW n \in 2..Len(idLog), authors[idLog[n]] # Nothing
               PROVE  /\ ProjectionAt(n - 1)'.dev[authors[idLog[n]]] = "active"
                      /\ events'[idLog'[n]].kind = "revoke" =>
                            events'[idLog'[n]].dev # authors[idLog[n]]
    BY <1>0 DEF InitiatorWasActive
  <2>1. n \in 1..Len(idLog) /\ n - 1 \in 0..Len(idLog)
    BY <1>0
  <2>2. events'[idLog'[n]] = events[idLog[n]] /\ ProjectionAt(n - 1)' = ProjectionAt(n - 1)
    BY <2>1, PrefixStable
  <2> QED  BY <2>2 DEF IdentityInv, InitiatorWasActive
<1> QED  BY <1>1, <1>2, <1>3, <1>4, <1>5, <1>6 DEF IdentityInv

\* An event is appended or freezes the log.
LEMMA AppendKeeps ==
    ASSUME IdentityInv, NEW x \in Drafts, NEW via, NEW who, AppendVerified(x, via, who),
           who # Nothing => /\ who \in IdDevices /\ Active(who)
                            /\ events[x].kind = "revoke" => events[x].dev # who,
           via = "approve" => HeadNamed(events[x]),
           cards' \in [Cards -> CardRow], CardsMatch',
           UNCHANGED <<events, challenge, session, idNow>>
    PROVE  IdentityInv'
<1>0. /\ Len(idLog) \in Nat /\ idLog \in Seq(Drafts) /\ \A n \in 1..Len(idLog) : idLog[n] \in Drafts
      /\ \A n \in 1..Len(idLog) : events[idLog[n]] # Unsigned
      /\ receipts \in [Drafts -> {"none", "committed", "forked"}]
      /\ DOMAIN authors = Drafts /\ DOMAIN events = Drafts
  BY DEF IdentityInv, IdentityRows, ReceiptsMatch
<1>1. events[x] # Unsigned /\ receipts[x] = "none" /\ idState # "forked" /\ Carries(events[x])
      /\ authors' = [authors EXCEPT ![x] = who]
  BY DEF AppendVerified, IdentityInv, ReceiptsMatch
<1>2. \A n \in 1..Len(idLog) : idLog[n] # x
  BY <1>1 DEF IdentityInv, ReceiptsMatch
<1>3. /\ DOMAIN authors' = Drafts /\ authors'[x] = who
      /\ \A y \in Drafts : y # x => authors'[y] = authors[y]
  BY <1>0, <1>1
<1>4. CASE /\ idState = "active" /\ Diverges(x) /\ idState' = "forked"
           /\ evidence' = [event |-> x, via |-> via]
           /\ receipts' = [receipts EXCEPT ![x] = "forked"] /\ UNCHANGED idLog
  <2>0. PrefixKept
    BY <1>4 DEF PrefixKept
  <2>1. IdentityRows'
    BY <1>0, <1>3, <1>4 DEF IdentityInv, IdentityRows
  <2>2. ReceiptsMatch'
    BY <1>0, <1>1, <1>2, <1>4 DEF IdentityInv, ReceiptsMatch
  <2>3. LogValid' /\ AddsRemembered'
    BY <1>4 DEF IdentityInv, LogValid, AddsRemembered, Follows, ProjectionAt
  <2>4. EvidenceSigned'
    BY <1>1, <1>4 DEF EvidenceSigned
  <2>5. ForkJustified'
    <3>1. PICK e : e = events[x] /\ e.seq \in Nat \ {0}
      BY <1>1 DEF Carries
    <3>2. e.seq <= Len(idLog) /\ idLog[e.seq] # x /\ Follows(e.seq - 1, e)
      BY <1>4, <3>1 DEF Diverges
    <3>3. e.seq \in 1..Len(idLog) /\ e.seq - 1 \in 0..Len(idLog)
      BY <1>0, <3>1, <3>2
    <3>4. Follows(e.seq - 1, e)'
      BY <2>0, <3>2, <3>3, PrefixStable
    <3>5. via # "approve"
      BY <1>0, <3>1, <3>3 DEF HeadNamed
    <3>6. evidence'.event = x /\ evidence'.via = via /\ events'[x] = e /\ idLog' = idLog
      BY <1>4, <3>1
    <3> QED  BY <3>2, <3>3, <3>4, <3>5, <3>6 DEF ForkJustified
  <2>6. InitiatorWasActive'
    <3> SUFFICES ASSUME NEW n \in 2..Len(idLog), authors'[idLog[n]] # Nothing
                 PROVE  /\ ProjectionAt(n - 1)'.dev[authors'[idLog[n]]] = "active"
                        /\ events[idLog[n]].kind = "revoke" =>
                              events[idLog[n]].dev # authors'[idLog[n]]
      BY <1>4 DEF InitiatorWasActive
    <3>1. n \in 1..Len(idLog) /\ n - 1 \in 0..Len(idLog)
      BY <1>0
    <3>2. authors'[idLog[n]] = authors[idLog[n]] /\ ProjectionAt(n - 1)' = ProjectionAt(n - 1)
      BY <1>0, <1>2, <1>3, <2>0, <3>1, PrefixStable
    <3> QED  BY <3>2 DEF IdentityInv, InitiatorWasActive
  <2> QED  BY <2>1, <2>2, <2>3, <2>4, <2>5, <2>6 DEF IdentityInv
<1>5. CASE /\ Follows(Len(idLog), events[x]) /\ idLog' = Append(idLog, x) /\ idState' = "active"
           /\ receipts' = [receipts EXCEPT ![x] = "committed"] /\ UNCHANGED evidence
  <2> DEFINE l == Len(idLog)
  <2>a. /\ idLog' \in Seq(Drafts) /\ Len(idLog') = l + 1 /\ idLog' # <<>>
        /\ \A n \in 1..l : idLog'[n] = idLog[n]
        /\ idLog'[l + 1] = x
    BY <1>0, <1>5
  <2>b. l \in Nat /\ \A n \in 1..(l + 1) : n \in 1..l \/ n = l + 1
    BY <1>0
  <2>0. PrefixKept
    BY <2>a DEF PrefixKept
  <2>k. /\ \A n \in 1..l : events[idLog'[n]] = events[idLog[n]]
        /\ \A n \in 0..l : ProjectionAt(n)' = ProjectionAt(n)
        /\ \A n \in 0..l : \A e : Follows(n, e) => Follows(n, e)'
    BY <2>0, PrefixStable
  <2> HIDE DEF l
  <2>1. IdentityRows'
    BY <1>0, <1>3, <1>5, <2>a DEF IdentityInv, IdentityRows
  <2>2. ReceiptsMatch'
    <3>1. ASSUME NEW y \in Drafts
          PROVE  (receipts'[y] = "committed") = (\E n \in 1..(l + 1) : idLog'[n] = y)
      <4>1. CASE y = x
        <5>1. receipts'[y] = "committed" /\ l + 1 \in 1..(l + 1)
          BY <1>0, <1>5, <2>b, <4>1
        <5> QED  BY <2>a, <4>1, <5>1
      <4>2. CASE y # x
        <5>1. receipts'[y] = receipts[y]
          BY <1>0, <1>5, <4>2
        <5>2. (\E n \in 1..(l + 1) : idLog'[n] = y) <=> (\E n \in 1..l : idLog[n] = y)
          BY <2>a, <2>b, <4>2
        <5>3. (receipts[y] = "committed") = (\E n \in 1..l : idLog[n] = y)
          BY DEF IdentityInv, ReceiptsMatch, l
        <5> QED  BY <5>1, <5>2, <5>3
      <4> QED  BY <4>1, <4>2
    <3>2. \A n \in 1..(l + 1) : events[idLog'[n]] # Unsigned
      BY <1>0, <1>1, <2>a, <2>b DEF l
    <3>3. \A y \in Drafts :
              (receipts'[y] = "committed") = (\E n \in 1..Len(idLog') : idLog'[n] = y)
      BY <2>a, <3>1, Zenon
    <3>4. \A n \in 1..Len(idLog') : events'[idLog'[n]] # Unsigned
      BY <2>a, <3>2
    <3>5. \A y \in Drafts : events'[y] # Unsigned => Carries(events'[y])
      BY DEF IdentityInv, ReceiptsMatch
    <3> QED  BY <3>3, <3>4, <3>5, Zenon DEF ReceiptsMatch
  <2>3. LogValid'
    <3> SUFFICES ASSUME NEW n \in 1..(l + 1) PROVE Follows(n - 1, events[idLog[n]])'
      BY <2>a DEF LogValid
    <3>1. PICK e : e = events[idLog'[n]]
      OBVIOUS
    <3>2. Follows(n - 1, e) /\ n - 1 \in 0..l
      <4>1. CASE n \in 1..l
        BY <2>b, <2>k, <3>1, <4>1 DEF IdentityInv, LogValid, l
      <4>2. CASE n = l + 1
        BY <1>5, <2>a, <2>b, <3>1, <4>2 DEF l
      <4> QED  BY <2>b, <4>1, <4>2
    <3>3. Follows(n - 1, e)'
      BY <2>k, <3>2
    <3> QED  BY <3>1, <3>3
  <2>4. AddsRemembered'
    <3> SUFFICES ASSUME NEW n \in 1..(l + 1)
                 PROVE  /\ Projected(ProjectionAt(n)')
                        /\ \A m \in 1..n : events[idLog'[m]].kind = "add" =>
                              ProjectionAt(n)'.dev[events[idLog'[m]].dev] # "none"
      BY <2>a DEF AddsRemembered, Projected
    <3>1. CASE n \in 1..l
      <4>1. ProjectionAt(n)' = ProjectionAt(n) /\ \A m \in 1..n : events[idLog'[m]] = events[idLog[m]]
        BY <2>b, <2>k, <3>1
      <4> QED  BY <3>1, <4>1 DEF IdentityInv, AddsRemembered, l
    <3>2. CASE n = l + 1
      <4> DEFINE signed == [i \in 1..(l + 1) |-> events'[idLog'[i]]]
                 prefix == [i \in 1..l |-> events'[idLog'[i]]]
      <4>1. /\ ProjectionAt(n)' = Project(signed, l + 1) /\ signed[l + 1] = events[x]
            /\ \A i \in 1..l : prefix[i] = signed[i]
        BY <2>a, <2>b, <3>2 DEF ProjectionAt
      <4>2. CASE l = 0
        <5>1. events[x].kind = "genesis"
          BY <1>5, <4>2 DEF Follows, l
        <5>2. ProjectionAt(n)' = Genesis(events[x])
          <6> HIDE DEF signed
          <6> QED  BY <4>1, <4>2, ProjectFirst
        <5>3. \A m \in 1..n : events[idLog'[m]] = events[x]
          BY <2>a, <3>2, <4>2
        <5> QED  BY <5>1, <5>2, <5>3, GenesisProjected
      <4>3. CASE l # 0
        <5>0. l \in Nat \ {0} /\ l \in 1..l
          BY <2>b, <4>3
        <5>1. Project(prefix, l) = ProjectionAt(l)
          <6>1. PICK k \in 0..l : k = l
            BY <2>b
          <6>2. ProjectionAt(k)' = Project([i \in 1..k |-> events'[idLog'[i]]], k)
            BY DEF ProjectionAt
          <6>3. ProjectionAt(k)' = ProjectionAt(k)
            BY <2>k
          <6> QED  BY <6>1, <6>2, <6>3
        <5>2. Project(signed, l + 1) = Reduce(Project(prefix, l), signed[l + 1])
          <6> HIDE DEF signed, prefix
          <6> QED  BY <4>1, <5>0, ProjectNext
        <5> HIDE DEF signed, prefix
        <5>3. ProjectionAt(n)' = Reduce(ProjectionAt(l), events[x])
          BY <4>1, <5>1, <5>2
        <5>4. /\ Projected(ProjectionAt(l))
              /\ \A m \in 1..l : events[idLog[m]].kind = "add" =>
                    ProjectionAt(l).dev[events[idLog[m]].dev] # "none"
          BY <5>0 DEF IdentityInv, AddsRemembered, l
        <5>5. /\ Projected(Reduce(ProjectionAt(l), events[x]))
              /\ events[x].kind = "add" =>
                    Reduce(ProjectionAt(l), events[x]).dev[events[x].dev] # "none"
              /\ \A d \in IdDevices : ProjectionAt(l).dev[d] # "none" =>
                    Reduce(ProjectionAt(l), events[x]).dev[d] # "none"
          BY <1>1, <5>4, ReduceKeeps
        <5>6. ASSUME NEW m \in 1..n, events[idLog'[m]].kind = "add"
              PROVE  Reduce(ProjectionAt(l), events[x]).dev[events[idLog'[m]].dev] # "none"
          <6>1. CASE m \in 1..l
            <7>1. events[idLog'[m]] = events[idLog[m]]
              BY <2>k, <6>1
            <7>2. events[idLog[m]].dev \in IdDevices
              BY <1>0, <5>6, <6>1, <7>1 DEF IdentityInv, ReceiptsMatch, Carries, l
            <7> QED  BY <5>4, <5>5, <5>6, <6>1, <7>1, <7>2
          <6>2. CASE m = l + 1
            BY <2>a, <5>5, <5>6, <6>2
          <6> QED  BY <2>b, <3>2, <6>1, <6>2
        <5> QED  BY <5>3, <5>5, <5>6
      <4> QED  BY <4>2, <4>3
    <3> QED  BY <2>b, <3>1, <3>2
  <2>5. EvidenceSigned' /\ ForkJustified'
    BY <1>5 DEF EvidenceSigned, ForkJustified
  <2>6. InitiatorWasActive'
    <3> SUFFICES ASSUME NEW n \in 2..(l + 1), authors'[idLog'[n]] # Nothing
                 PROVE  /\ ProjectionAt(n - 1)'.dev[authors'[idLog'[n]]] = "active"
                        /\ events[idLog'[n]].kind = "revoke" =>
                              events[idLog'[n]].dev # authors'[idLog'[n]]
      BY <2>a DEF InitiatorWasActive
    <3>1. CASE n \in 1..l
      <4>1. n \in 2..l /\ n - 1 \in 0..l
        BY <2>b, <3>1
      <4>2. idLog'[n] = idLog[n] /\ authors'[idLog[n]] = authors[idLog[n]]
            /\ ProjectionAt(n - 1)' = ProjectionAt(n - 1)
        BY <1>0, <1>2, <1>3, <2>a, <2>k, <3>1, <4>1 DEF l
      <4> QED  BY <4>1, <4>2 DEF IdentityInv, InitiatorWasActive, l
    <3>2. CASE n = l + 1
      <4>1. n - 1 = l /\ l \in 0..l
        BY <2>b, <3>2
      <4>2. idLog'[n] = x /\ authors'[x] = who /\ ProjectionAt(n - 1)' = ProjectionAt(l)
        BY <1>3, <2>a, <2>k, <3>2, <4>1
      <4>3. who # Nothing
        BY <4>2
      <4>4. ProjectionAt(l).dev[who] = "active"
        BY <4>3 DEF Active, Projection, l
      <4> QED  BY <4>2, <4>3, <4>4
    <3> QED  BY <2>b, <3>1, <3>2
  <2> QED  BY <2>1, <2>2, <2>3, <2>4, <2>5, <2>6 DEF IdentityInv
<1> QED  BY <1>4, <1>5 DEF AppendVerified

-----------------------------------------------------------------------------
(* The steps. *)

\* A client may sign for any head it saw: what is in the log stays signed as it was.
LEMMA SignKeeps ==
    ASSUME IdentityInv, NEW x \in Drafts, NEW i \in Intents, Sign(x, i)
    PROVE  IdentityInv'
<1>1. PICK r : /\ events' = [events EXCEPT ![x] = r]
               /\ r = [kind |-> i.kind, signer |-> i.signer, dev |-> i.dev, root |-> i.root,
                       rec |-> i.rec,
                       seq |-> IF i.kind = "genesis" THEN 1 ELSE Len(idLog) + 1,
                       prev |-> IF i.kind = "genesis" \/ idLog = <<>> THEN Nothing
                                ELSE idLog[Len(idLog)]]
  BY Zenon DEF Sign
<1>2. events[x] = Unsigned /\ UNCHANGED <<idLog, idState, receipts, evidence, cards, challenge,
                                          session, authors, idNow>>
  BY DEF Sign
<1>3. Carries(r)
  <2>1. Len(idLog) \in Nat
    BY DEF IdentityInv, IdentityRows
  <2>2. r.kind = i.kind /\ r.dev = i.dev /\ r.seq = IF i.kind = "genesis" THEN 1 ELSE Len(idLog) + 1
    BY <1>1
  <2> QED  BY <2>1, <2>2, IdentityAssumption DEF Carries
<1>4. /\ DOMAIN events' = Drafts /\ events'[x] = r
      /\ \A y \in Drafts : y # x => events'[y] = events[y]
  BY <1>1 DEF IdentityInv, IdentityRows
<1>5. PrefixKept
  BY <1>2, <1>4 DEF PrefixKept
<1>6. IdentityRows'
  BY <1>2, <1>4 DEF IdentityInv, IdentityRows
<1>7. CardsMatch'
  <2> SUFFICES ASSUME NEW c \in Cards, cards[c].state = "approved"
               PROVE  /\ cards[c].event \in Drafts /\ receipts[cards[c].event] = "committed"
                      /\ events'[cards[c].event].dev = CardDevice[c]
    BY <1>2 DEF CardsMatch
  <2>1. /\ cards[c].event \in Drafts /\ receipts[cards[c].event] = "committed"
        /\ events[cards[c].event].dev = CardDevice[c]
    BY DEF IdentityInv, CardsMatch
  <2>2. events[cards[c].event] # Unsigned
    <3>1. PICK y \in Drafts : y = cards[c].event
      BY <2>1
    <3>2. receipts[y] = "committed"
      BY <2>1, <3>1
    <3>3. (receipts[y] = "committed") = (\E n \in 1..Len(idLog) : idLog[n] = y)
      BY DEF IdentityInv, ReceiptsMatch
    <3>4. \E n \in 1..Len(idLog) : idLog[n] = y
      BY <3>2, <3>3, Zenon
    <3> QED  BY <3>1, <3>4 DEF IdentityInv, ReceiptsMatch
  <2> QED  BY <1>2, <1>4, <2>1, <2>2
<1>8. \A y \in Drafts : events'[y] # Unsigned => Carries(events'[y])
  BY <1>3, <1>4 DEF IdentityInv, ReceiptsMatch
<1> QED  BY <1>2, <1>5, <1>6, <1>7, <1>8, QuietKeeps

\* Steps that leave the log and its events alone.
LEMMA TableKeeps ==
    ASSUME IdentityInv, IdentityRows', CardsMatch',
           UNCHANGED <<events, idLog, idState, receipts, evidence, authors>>
    PROVE  IdentityInv'
<1>1. PrefixKept
  BY DEF PrefixKept
<1>2. \A x \in Drafts : events'[x] # Unsigned => Carries(events'[x])
  BY DEF IdentityInv, ReceiptsMatch
<1> QED  BY <1>1, <1>2, QuietKeeps

\* Challenges and sessions touch neither the log nor its cards (issue_challenge, complete).
LEMMA SessionsKeep ==
    ASSUME IdentityInv, NEW d \in IdDevices, IssueChallenge(d) \/ CompleteChallenge(d)
    PROVE  IdentityInv'
<1>0. idNow \in Nat /\ challenge[d].session \in Nat
  BY IdentityAssumption DEF IdentityInv, IdentityRows
<1>1. UNCHANGED <<events, idLog, idState, receipts, evidence, authors, cards, idNow>>
  BY DEF IssueChallenge, CompleteChallenge
<1>2. /\ challenge' \in [IdDevices -> [expires : Nat, session : Nat]]
      /\ session' \in [IdDevices -> Nat]
  <2>1. CASE IssueChallenge(d)
    <3>0. idNow + ChallengeTtl \in Nat /\ idNow + SessionTtl \in Nat
      BY <1>0, IdentityAssumption
    <3>1. PICK a \in Nat, b \in Nat :
             challenge' = [challenge EXCEPT ![d] = [expires |-> a, session |-> b]]
      BY <2>1, <3>0, Zenon DEF IssueChallenge
    <3> QED  BY <2>1, <3>1 DEF IssueChallenge, IdentityInv, IdentityRows
  <2>2. CASE CompleteChallenge(d)
    BY <1>0, <2>2 DEF CompleteChallenge, NoChallenge, IdentityInv, IdentityRows
  <2> QED  BY <2>1, <2>2
<1>3. IdentityRows'
  BY <1>1, <1>2 DEF IdentityInv, IdentityRows
<1>4. CardsMatch'
  BY <1>1 DEF IdentityInv, CardsMatch
<1> QED  BY <1>1, <1>3, <1>4, TableKeeps

\* An approved card is a card that names its event.
LEMMA CardApproved ==
    ASSUME NEW r \in CardRow, NEW k \in Nat, NEW x \in Drafts
    PROVE  /\ [r EXCEPT !.state = "approved", !.event = x, !.keep = k] \in CardRow
           /\ [r EXCEPT !.state = "approved", !.event = x, !.keep = k].event = x
BY DEF CardRow

\* No card becomes approved except by an approval (create_or_replay_challenge, cancel,
\* prune_expired).
LEMMA CardsKeep ==
    ASSUME IdentityInv, (\E c \in Cards : CreateCard(c) \/ CancelCard(c)) \/ PruneCards
    PROVE  IdentityInv'
<1>0. idNow \in Nat /\ cards \in [Cards -> CardRow]
  BY IdentityAssumption DEF IdentityInv, IdentityRows
<1>1. UNCHANGED <<events, idLog, idState, receipts, evidence, authors, challenge, session, idNow>>
  BY DEF CreateCard, CancelCard, PruneCards
<1>2. /\ cards' \in [Cards -> CardRow]
      /\ \A c \in Cards : cards'[c].state = "approved" => cards'[c] = cards[c]
  <2>1. ASSUME NEW c \in Cards, CreateCard(c)
        PROVE  /\ cards' \in [Cards -> CardRow]
               /\ \A b \in Cards : cards'[b].state = "approved" => cards'[b] = cards[b]
    <3>0. idNow + CardTtl \in Nat
      BY <1>0, IdentityAssumption
    <3>1. PICK u \in Nat : cards' = [cards EXCEPT ![c] =
             [state |-> "open", expires |-> u, keep |-> u, event |-> Nothing]]
      BY <2>1, <3>0, Zenon DEF CreateCard
    <3>2. [state |-> "open", expires |-> u, keep |-> u, event |-> Nothing] \in CardRow
      BY DEF CardRow
    <3> QED  BY <1>0, <3>1, <3>2
  <2>2. ASSUME NEW c \in Cards, CancelCard(c)
        PROVE  /\ cards' \in [Cards -> CardRow]
               /\ \A b \in Cards : cards'[b].state = "approved" => cards'[b] = cards[b]
    <3>1. PICK r \in CardRow : r.state = "cancelled" /\ cards' = [cards EXCEPT ![c] = r]
      <4>1. cards' = [cards EXCEPT ![c] = [cards[c] EXCEPT !.state = "cancelled"]]
        BY <2>2, Zenon DEF CancelCard
      <4>2. cards[c] \in CardRow
        BY <1>0
      <4>3. [cards[c] EXCEPT !.state = "cancelled"] \in CardRow
            /\ [cards[c] EXCEPT !.state = "cancelled"].state = "cancelled"
        BY <4>2, SMT DEF CardRow
      <4> QED  BY <4>1, <4>3, Zenon
    <3> QED  BY <1>0, <3>1
  <2>3. CASE PruneCards
    <3>1. NoCard \in CardRow /\ NoCard.state = "none"
      BY DEF NoCard, CardRow
    <3>2. PICK due : cards' = [c \in Cards |-> IF c \in due THEN NoCard ELSE cards[c]]
      BY <2>3 DEF PruneCards
    <3> QED  BY <1>0, <3>1, <3>2
  <2> QED  BY <2>1, <2>2, <2>3
<1>3. IdentityRows'
  BY <1>1, <1>2 DEF IdentityInv, IdentityRows
<1>4. CardsMatch'
  BY <1>1, <1>2 DEF IdentityInv, CardsMatch
<1> QED  BY <1>1, <1>3, <1>4, TableKeeps

\* The routes that append, with what each of them checks about the session.
LEMMA RoutesKeep ==
    ASSUME IdentityInv, NEW x \in Drafts,
           \/ Bootstrap(x) \/ AppendInitialDevice(x) \/ AppendEvent(x)
           \/ \E d \in IdDevices : RevokeDevice(x, d)
    PROVE  IdentityInv'
<1>0. cards \in [Cards -> CardRow] /\ UNCHANGED <<events, cards, challenge, session, idNow>>
  BY DEF IdentityInv, IdentityRows, Bootstrap, AppendInitialDevice, AppendEvent, RevokeDevice
<1>1. ASSUME NEW via, NEW who, AppendVerified(x, via, who) PROVE CardsMatch'
  <2>1. /\ receipts[x] = "none" /\ receipts \in [Drafts -> {"none", "committed", "forked"}]
        /\ (receipts' = [receipts EXCEPT ![x] = "forked"]
            \/ receipts' = [receipts EXCEPT ![x] = "committed"])
    BY <1>1 DEF AppendVerified, IdentityInv, IdentityRows
  <2>2. \A y \in Drafts : receipts[y] = "committed" => receipts'[y] = "committed"
    BY <2>1
  <2> QED  BY <1>0, <2>2 DEF IdentityInv, CardsMatch
<1>2. ASSUME AppendVerified(x, "bootstrap", Nothing) \/ AppendVerified(x, "initial", Nothing)
             \/ AppendVerified(x, "append", Nothing)
      PROVE  IdentityInv'
  <2>1. ASSUME NEW via \in {"bootstrap", "initial", "append"}, AppendVerified(x, via, Nothing)
        PROVE  IdentityInv'
    <3>1. via # "approve" /\ CardsMatch' /\ cards' \in [Cards -> CardRow]
      BY <1>0, <1>1, <2>1
    <3> QED  BY <1>0, <2>1, <3>1, AppendKeeps
  <2> QED  BY <1>2, <2>1
<1>3. ASSUME NEW d \in IdDevices, RevokeDevice(x, d) PROVE IdentityInv'
  <2>1. AppendVerified(x, "revoke", d) /\ Active(d) /\ events[x].dev # d
    BY <1>3 DEF RevokeDevice, Authenticated
  <2>2. CardsMatch' /\ cards' \in [Cards -> CardRow]
    BY <1>0, <1>1, <2>1
  <2>3. PICK via : via = "revoke"
    OBVIOUS
  <2>4. AppendVerified(x, via, d) /\ via # "approve"
    BY <2>1, <2>3
  <2> QED  BY <1>0, <2>1, <2>2, <2>4, AppendKeeps
<1> QED  BY <1>2, <1>3 DEF Bootstrap, AppendInitialDevice, AppendEvent

\* An approval appends the add its card then names, or nothing (approve).
LEMMA ApproveKeeps ==
    ASSUME IdentityInv, NEW c \in Cards, NEW x \in Drafts, NEW d \in IdDevices,
           ApproveCard(c, x, d)
    PROVE  IdentityInv'
<1>0. cards \in [Cards -> CardRow] /\ cards[c] \in CardRow /\ idNow \in Nat
  BY IdentityAssumption DEF IdentityInv, IdentityRows
<1>1. /\ AppendVerified(x, "approve", d) /\ Active(d) /\ HeadNamed(events[x])
      /\ events[x].kind = "add" /\ events[x].dev = CardDevice[c]
      /\ UNCHANGED <<events, challenge, session, idNow>>
  BY DEF ApproveCard, Authenticated
<1>2. PICK k \in Nat : cards' = IF idState' = "forked" THEN cards
                                ELSE [cards EXCEPT ![c].state = "approved", ![c].event = x,
                                                   ![c].keep = k]
  <2>1. idNow + CardRetention \in Nat
    BY <1>0, IdentityAssumption
  <2> QED  BY <2>1, Zenon DEF ApproveCard
<1>3. PICK r \in CardRow :
         /\ r.event = x
         /\ idState' # "forked" => cards' = [cards EXCEPT ![c] = r]
  <2>1. [cards EXCEPT ![c].state = "approved", ![c].event = x, ![c].keep = k] =
           [cards EXCEPT ![c] = [cards[c] EXCEPT !.state = "approved", !.event = x, !.keep = k]]
    BY <1>0, Zenon
  <2>2. PICK r \in CardRow :
           r = [cards[c] EXCEPT !.state = "approved", !.event = x, !.keep = k] /\ r.event = x
    <3>1. PICK y \in CardRow : y = cards[c]
      BY <1>0
    <3>2. /\ [y EXCEPT !.state = "approved", !.event = x, !.keep = k] \in CardRow
          /\ [y EXCEPT !.state = "approved", !.event = x, !.keep = k].event = x
      BY CardApproved, ZenonT(60)
    <3> QED  BY <3>1, <3>2, Zenon
  <2> QED  BY <1>2, <2>1, <2>2
<1>4. cards' \in [Cards -> CardRow]
  BY <1>0, <1>2, <1>3
<1>5. /\ receipts \in [Drafts -> {"none", "committed", "forked"}] /\ receipts[x] = "none"
      /\ \/ idState' = "forked" /\ receipts' = [receipts EXCEPT ![x] = "forked"]
         \/ idState' # "forked" /\ receipts' = [receipts EXCEPT ![x] = "committed"]
  BY <1>1 DEF AppendVerified, IdentityInv, IdentityRows
<1>6. \A y \in Drafts : receipts[y] = "committed" => receipts'[y] = "committed"
  BY <1>5
<1>7. CardsMatch'
  <2> SUFFICES ASSUME NEW b \in Cards, cards'[b].state = "approved"
               PROVE  /\ cards'[b].event \in Drafts /\ receipts'[cards'[b].event] = "committed"
                      /\ events[cards'[b].event].dev = CardDevice[b]
    BY <1>1 DEF CardsMatch
  <2>1. CASE cards'[b] = cards[b]
    BY <1>6, <2>1 DEF IdentityInv, CardsMatch
  <2>2. CASE cards'[b] # cards[b]
    <3>1. b = c /\ idState' # "forked" /\ cards'[b] = r
      BY <1>0, <1>2, <1>3, <2>2
    <3>2. receipts'[x] = "committed"
      BY <1>5, <3>1
    <3> QED  BY <1>1, <1>3, <3>1, <3>2
  <2> QED  BY <2>1, <2>2
<1>8. PICK via : via = "approve"
  OBVIOUS
<1>9. AppendVerified(x, via, d) /\ events[x].kind # "revoke"
  BY <1>1, <1>8
<1> QED  BY <1>1, <1>4, <1>7, <1>9, AppendKeeps

-----------------------------------------------------------------------------
\* Before genesis the invariant holds.
LEMMA IdentityInvInit == IdentityInit => IdentityInv
<1> SUFFICES ASSUME IdentityInit PROVE IdentityInv
  OBVIOUS
<1>1. idLog = <<>> /\ Len(idLog) = 0 /\ idState = "none" /\ idNow = 0
      /\ events = [x \in Drafts |-> Unsigned]
  BY DEF IdentityInit
<1>2. NoCard \in CardRow /\ NoCard.state = "none"
  BY DEF NoCard, CardRow
<1>3. IdentityRows
  BY <1>1, <1>2, IdentityAssumption DEF IdentityInit, IdentityRows, NoChallenge
<1>4. ReceiptsMatch
  <2>1. ASSUME NEW x \in Drafts
        PROVE  (receipts[x] = "committed") = (\E n \in 1..Len(idLog) : idLog[n] = x)
    <3>1. ~(receipts[x] = "committed")
      BY DEF IdentityInit
    <3>2. ~(\E n \in 1..Len(idLog) : idLog[n] = x)
      BY <1>1
    <3> QED  BY <3>1, <3>2, Zenon
  <2>2. \A x \in Drafts : events[x] # Unsigned => Carries(events[x])
    BY <1>1
  <2>3. \A n \in 1..Len(idLog) : events[idLog[n]] # Unsigned
    BY <1>1
  <2> QED  BY <2>1, <2>2, <2>3 DEF ReceiptsMatch
<1>5. LogValid /\ AddsRemembered /\ InitiatorWasActive
  BY <1>1 DEF LogValid, AddsRemembered, InitiatorWasActive
<1>6. CardsMatch
  BY <1>2 DEF IdentityInit, CardsMatch
<1>7. EvidenceSigned /\ ForkJustified
  BY <1>1 DEF EvidenceSigned, ForkJustified
<1> QED  BY <1>3, <1>4, <1>5, <1>6, <1>7 DEF IdentityInv

\* Every step of a client, a route or the pruner keeps it.
LEMMA IdentityInvStep == IdentityInv /\ [IdentityNext]_identityVars => IdentityInv'
<1> SUFFICES ASSUME IdentityInv, [IdentityNext]_identityVars PROVE IdentityInv'
  OBVIOUS
<1>1. ASSUME NEW x \in Drafts,
             \/ \E i \in Intents : Sign(x, i)
             \/ Bootstrap(x) \/ AppendInitialDevice(x) \/ AppendEvent(x)
             \/ \E d \in IdDevices : RevokeDevice(x, d) \/ \E c \in Cards : ApproveCard(c, x, d)
      PROVE  IdentityInv'
  BY <1>1, SignKeeps, RoutesKeep, ApproveKeeps
<1>2. CASE \/ \E d \in IdDevices : IssueChallenge(d) \/ CompleteChallenge(d)
           \/ \E c \in Cards : CreateCard(c) \/ CancelCard(c)
           \/ PruneCards
  BY <1>2, SessionsKeep, CardsKeep
<1>3. CASE IdentityTick
  <2>1. idNow' \in 0..IdMaxTime
    BY <1>3, IdentityAssumption DEF IdentityInv, IdentityRows, IdentityTick
  <2>2. IdentityRows'
    BY <1>3, <2>1 DEF IdentityInv, IdentityRows, IdentityTick
  <2>3. CardsMatch'
    BY <1>3 DEF IdentityInv, CardsMatch, IdentityTick
  <2> QED  BY <1>3, <2>2, <2>3, TableKeeps DEF IdentityTick
<1>4. CASE UNCHANGED identityVars
  <2>1. IdentityRows' /\ CardsMatch'
    BY <1>4 DEF IdentityInv, IdentityRows, CardsMatch, identityVars
  <2> QED  BY <1>4, <2>1, TableKeeps DEF identityVars
<1> QED  BY <1>1, <1>2, <1>3, <1>4 DEF IdentityNext

\* The inductive invariant of the log: every entry follows from the ones before it, the
\* projection of every prefix remembers each device that was added, and receipts, cards
\* and fork evidence match the log (projection_before_sequence, append_existing_identity).
THEOREM IdentitySafety == IdentitySpec => []IdentityInv
BY IdentityInvInit, IdentityInvStep, PTL DEF IdentitySpec

\* For any devices, events and orders of arrival: a log is frozen only on proof that a
\* second event follows from the same entries, and never by an approval
\* (is_verified_divergence, approve).
THEOREM ForksAreProved == IdentitySpec => []ForkJustified
<1>1. IdentityInv => ForkJustified
  BY DEF IdentityInv
<1> QED  BY <1>1, IdentitySafety, PTL

\* For any length of the log: receipts and cards match it, a device enters it once in its
\* life, and only active devices change it through a session
\* (DeviceAlreadyExists, authenticate_in_transaction, mark_challenge_approved).
THEOREM DevicesAreSound == IdentitySpec => []DevicesSound
<1>1. IdentityInv => DevicesSound
  <2> SUFFICES ASSUME IdentityInv PROVE DevicesSound
    OBVIOUS
  <2>0. Len(idLog) \in Nat /\ idLog \in Seq(Drafts)
    BY DEF IdentityInv, IdentityRows
  <2>1. IdentityTypeOK
    <3>1. \A c \in Cards : cards[c].state \in {"none", "open", "approved", "cancelled"}
      BY DEF IdentityInv, IdentityRows, CardRow
    <3>2. \A x \in Drafts : (receipts[x] = "committed") = (\E n \in 1..Len(idLog) : idLog[n] = x)
      BY Zenon DEF IdentityInv, ReceiptsMatch
    <3> QED  BY <3>1, <3>2, Zenon DEF IdentityInv, IdentityRows, IdentityTypeOK
  <2>2. ASSUME NEW m \in 1..Len(idLog), NEW n \in 1..Len(idLog), m < n,
               events[idLog[m]].kind = "add", events[idLog[n]].kind = "add",
               events[idLog[m]].dev = events[idLog[n]].dev
        PROVE  FALSE
    <3>1. n - 1 \in 1..Len(idLog) /\ n - 1 # 0 /\ m \in 1..(n - 1)
      BY <2>0, <2>2
    <3>2. ProjectionAt(n - 1).dev[events[idLog[m]].dev] # "none"
      BY <2>2, <3>1 DEF IdentityInv, AddsRemembered
    <3>3. Authorized(ProjectionAt(n - 1), events[idLog[n]])
      BY <3>1 DEF IdentityInv, LogValid, Follows
    <3>4. ProjectionAt(n - 1).dev[events[idLog[n]].dev] = "none"
      BY <2>2, <3>3 DEF Authorized, NeverEnrolled
    <3> QED  BY <2>2, <3>2, <3>4
  <2>3. EnrolledOnce
    <3>1. ASSUME NEW m \in 1..Len(idLog), NEW n \in 1..Len(idLog),
                 events[idLog[m]].kind = "add", events[idLog[n]].kind = "add",
                 events[idLog[m]].dev = events[idLog[n]].dev
          PROVE  m = n
      <4>1. m < n \/ n < m \/ m = n
        BY <2>0
      <4> QED  BY <2>2, <3>1, <4>1
    <3> QED  BY <3>1 DEF EnrolledOnce, IdentityInv, CardsMatch
  <2> QED  BY <2>1, <2>3 DEF IdentityInv, DevicesSound
<1> QED  BY <1>1, IdentitySafety, PTL

-----------------------------------------------------------------------------
(* The key package directory. *)

\* What a package that was handed out looks like from then on: its row stays, with the
\* claim that took it, until the package has expired and the replay window is over, and
\* is never filled again.
Spent(h) ==
    \/ /\ packages[h.package].state = "claimed"
       /\ claimed[h.claim] = h.package
       /\ packages[h.package].keep >= h.at + ReplayRetention
    \/ /\ packages[h.package].state = "none"
       /\ kdNow >= PackageExpiry[h.package]
       /\ kdNow >= h.at + ReplayRetention

DirectoryRows ==
    /\ packages \in [Packages -> [state : {"none", "available", "claimed"}, keep : Nat]]
    /\ signedAt \in [Packages -> Nat]
    /\ claimed \in [ClaimCommands -> Packages \cup {Unclaimed}]
    /\ kdNow \in 0..KdMaxTime
    /\ kdHead \in 1..KdMaxHead
    /\ handed \subseteq [claim : ClaimCommands, package : Packages, at : Nat]
    /\ \A p \in Packages :
          packages[p].state # "none" => packages[p].keep >= PackageExpiry[p]
    /\ \A c \in ClaimCommands :
          claimed[c] # Unclaimed => packages[claimed[c]].state = "claimed"

DirectoryInv ==
    /\ DirectoryRows
    /\ \A h \in handed : Spent(h)
    /\ PackageHandedOnce
    /\ ClaimConsumesOne

\* claim_retention_until: the row of a claimed package outlives the package and the
\* window in which its claim may be repeated.
LEMMA RetentionCovers ==
    ASSUME NEW p \in Packages, kdNow \in Nat
    PROVE  /\ ClaimRetentionUntil(p) \in Nat
           /\ ClaimRetentionUntil(p) >= PackageExpiry[p]
           /\ ClaimRetentionUntil(p) >= kdNow + ReplayRetention
<1> DEFINE e == PackageExpiry[p]
           r == kdNow + ReplayRetention
<1>1. e \in Nat /\ r \in Nat
  BY KeyDirectoryAssumption
<1>2. \E x \in {e, r} : \A y \in {e, r} : x >= y
  BY <1>1
<1>3. Max({e, r}) \in {e, r} /\ \A y \in {e, r} : Max({e, r}) >= y
  BY <1>2 DEF Max
<1> QED  BY <1>1, <1>3 DEF ClaimRetentionUntil

\* Pruning keeps the rows in order and every package that was handed out spent.
LEMMA PruneKeeps ==
    ASSUME DirectoryInv
    PROVE  /\ AfterPrune \in [Packages -> [state : {"none", "available", "claimed"}, keep : Nat]]
           /\ ClaimsKept \in [ClaimCommands -> Packages \cup {Unclaimed}]
           /\ \A p \in Packages :
                 AfterPrune[p].state # "none" =>
                    p \in Kept /\ AfterPrune[p] = packages[p]
           /\ \A c \in ClaimCommands :
                 ClaimsKept[c] # Unclaimed =>
                    /\ ClaimsKept[c] = claimed[c]
                    /\ claimed[c] \in Kept
                    /\ AfterPrune[claimed[c]].state = "claimed"
           /\ \A h \in handed :
                 \/ /\ AfterPrune[h.package].state = "claimed"
                    /\ ClaimsKept[h.claim] = h.package
                    /\ AfterPrune[h.package].keep >= h.at + ReplayRetention
                 \/ /\ AfterPrune[h.package].state = "none"
                    /\ kdNow >= PackageExpiry[h.package]
                    /\ kdNow >= h.at + ReplayRetention
<1> USE DEF DirectoryInv, DirectoryRows
<1>1. AfterPrune \in [Packages -> [state : {"none", "available", "claimed"}, keep : Nat]]
  BY DEF AfterPrune, NoPackage
<1>2. ClaimsKept \in [ClaimCommands -> Packages \cup {Unclaimed}]
  BY DEF ClaimsKept
<1>3. ASSUME NEW p \in Packages, AfterPrune[p].state # "none"
      PROVE  p \in Kept /\ AfterPrune[p] = packages[p]
  BY <1>3 DEF AfterPrune, NoPackage
<1>4. ASSUME NEW c \in ClaimCommands, ClaimsKept[c] # Unclaimed
      PROVE  /\ ClaimsKept[c] = claimed[c]
             /\ claimed[c] \in Kept
             /\ AfterPrune[claimed[c]].state = "claimed"
  <2>1. ClaimsKept[c] = claimed[c] /\ claimed[c] \in Kept
    BY <1>4 DEF ClaimsKept
  <2>2. claimed[c] \in Packages /\ packages[claimed[c]].state = "claimed"
    BY <1>4, <2>1
  <2> QED  BY <2>1, <2>2 DEF AfterPrune
<1>5. ASSUME NEW h \in handed
      PROVE  \/ /\ AfterPrune[h.package].state = "claimed"
                /\ ClaimsKept[h.claim] = h.package
                /\ AfterPrune[h.package].keep >= h.at + ReplayRetention
             \/ /\ AfterPrune[h.package].state = "none"
                /\ kdNow >= PackageExpiry[h.package]
                /\ kdNow >= h.at + ReplayRetention
  <2>1. h.package \in Packages /\ h.claim \in ClaimCommands /\ h.at \in Nat /\ Spent(h)
    OBVIOUS
  <2>2. PackageExpiry[h.package] \in Nat /\ ReplayRetention \in Nat
    BY <2>1, KeyDirectoryAssumption
  <2>3. CASE h.package \in Kept
    BY <2>1, <2>3 DEF Spent, Kept, AfterPrune, ClaimsKept
  <2>4. CASE h.package \notin Kept
    BY <2>1, <2>2, <2>4 DEF Spent, Kept, AfterPrune, NoPackage
  <2> QED  BY <2>3, <2>4
<1> QED  BY <1>1, <1>2, <1>3, <1>4, <1>5

\* An empty directory satisfies the invariant.
LEMMA DirectoryInvInit == DirectoryInit => DirectoryInv
BY KeyDirectoryAssumption
   DEF DirectoryInit, DirectoryInv, DirectoryRows, NoPackage, Unclaimed,
       PackageHandedOnce, ClaimConsumesOne

\* A step that leaves rows and claims alone and lets time pass.
LEMMA DirectoryInvIdle ==
    ASSUME DirectoryInv, UNCHANGED <<packages, claimed, handed>>,
           signedAt' \in [Packages -> Nat], kdHead' \in 1..KdMaxHead,
           kdNow' \in 0..KdMaxTime, kdNow' >= kdNow
    PROVE  DirectoryInv'
<1>1. DirectoryRows'
  BY DEF DirectoryInv, DirectoryRows
<1>2. PackageHandedOnce' /\ ClaimConsumesOne'
  BY DEF DirectoryInv, PackageHandedOnce, ClaimConsumesOne
<1>3. ASSUME NEW h \in handed'
      PROVE  Spent(h)'
  <2>1. h.package \in Packages /\ h.at \in Nat /\ Spent(h) /\ kdNow \in Nat /\ kdNow' \in Nat
    BY <1>3, KeyDirectoryAssumption DEF DirectoryInv, DirectoryRows
  <2> QED  BY <2>1, KeyDirectoryAssumption DEF Spent
<1> QED  BY <1>1, <1>2, <1>3 DEF DirectoryInv

\* A step that prunes and touches no row besides.
LEMMA DirectoryInvPruned ==
    ASSUME DirectoryInv, packages' = AfterPrune, claimed' = ClaimsKept,
           UNCHANGED <<signedAt, kdHead, kdNow, handed>>
    PROVE  DirectoryInv'
<1>1. DirectoryRows'
  <2>1. \A p \in Packages :
           packages'[p].state # "none" => packages'[p].keep >= PackageExpiry[p]
    BY PruneKeeps DEF DirectoryInv, DirectoryRows
  <2>2. \A c \in ClaimCommands :
           claimed'[c] # Unclaimed => packages'[claimed'[c]].state = "claimed"
    BY PruneKeeps
  <2> QED  BY <2>1, <2>2, PruneKeeps DEF DirectoryInv, DirectoryRows
<1>2. PackageHandedOnce' /\ ClaimConsumesOne'
  BY DEF DirectoryInv, PackageHandedOnce, ClaimConsumesOne
<1>3. \A h \in handed' : Spent(h)'
  BY PruneKeeps DEF Spent
<1> QED  BY <1>1, <1>2, <1>3 DEF DirectoryInv

\* What is published was never handed out, or its row would still be there (publish).
LEMMA DirectoryInvPublish ==
    ASSUME DirectoryInv, NEW p \in Packages, Publish(p)
    PROVE  DirectoryInv'
<1>0. UNCHANGED <<signedAt, kdHead, kdNow, handed>> /\ claimed' = ClaimsKept
  BY DEF Publish
<1>1. CASE packages' = AfterPrune
  BY <1>0, <1>1, DirectoryInvPruned
<1>2. CASE /\ p \notin Kept
           /\ PublishExpiryValid(p)
           /\ packages' = [AfterPrune EXCEPT ![p] =
                  [state |-> "available", keep |-> PackageExpiry[p]]]
  <2>1. PackageExpiry[p] \in Nat /\ kdNow \in Nat /\ kdNow < PackageExpiry[p]
    BY <1>2, KeyDirectoryAssumption DEF PublishExpiryValid, DirectoryInv, DirectoryRows
  <2>2. /\ packages' \in [Packages -> [state : {"none", "available", "claimed"}, keep : Nat]]
        /\ packages'[p] = [state |-> "available", keep |-> PackageExpiry[p]]
        /\ \A q \in Packages : q # p => packages'[q] = AfterPrune[q]
    BY <1>2, <2>1, PruneKeeps
  <2>3. AfterPrune[p].state = "none"
    BY <1>2 DEF AfterPrune, NoPackage
  <2>4. \A q \in Packages :
           packages'[q].state # "none" => packages'[q].keep >= PackageExpiry[q]
    <3> SUFFICES ASSUME NEW q \in Packages, packages'[q].state # "none"
                 PROVE  packages'[q].keep >= PackageExpiry[q]
      OBVIOUS
    <3>1. CASE q = p
      BY <3>1, <2>1, <2>2
    <3>2. CASE q # p
      BY <3>2, <2>2, PruneKeeps DEF DirectoryInv, DirectoryRows
    <3> QED  BY <3>1, <3>2
  <2>5. \A c \in ClaimCommands :
           claimed'[c] # Unclaimed => packages'[claimed'[c]].state = "claimed"
    <3> SUFFICES ASSUME NEW c \in ClaimCommands, ClaimsKept[c] # Unclaimed
                 PROVE  packages'[ClaimsKept[c]].state = "claimed"
      BY <1>0
    <3>1. ClaimsKept[c] \in Packages /\ AfterPrune[ClaimsKept[c]].state = "claimed"
      BY PruneKeeps
    <3> QED  BY <3>1, <2>2, <2>3
  <2>6. DirectoryRows'
    BY <1>0, <2>2, <2>4, <2>5, PruneKeeps DEF DirectoryInv, DirectoryRows
  <2>7. ASSUME NEW h \in handed'
        PROVE  Spent(h)'
    <3>1. h \in handed /\ h.package \in Packages /\ h.claim \in ClaimCommands
      BY <1>0, <2>7 DEF DirectoryInv, DirectoryRows
    <3>2. h.package # p
      BY <3>1, <2>1, <2>3, PruneKeeps
    <3>3. packages'[h.package] = AfterPrune[h.package]
      BY <3>1, <3>2, <2>2
    <3> QED  BY <1>0, <3>1, <3>3, PruneKeeps DEF Spent
  <2>8. PackageHandedOnce' /\ ClaimConsumesOne'
    BY <1>0 DEF DirectoryInv, PackageHandedOnce, ClaimConsumesOne
  <2> QED  BY <2>6, <2>7, <2>8 DEF DirectoryInv
<1> QED  BY <1>1, <1>2 DEF Publish

\* A claim takes an available package, which nobody was handed (claim).
LEMMA DirectoryInvClaim ==
    ASSUME DirectoryInv, NEW c \in ClaimCommands, Claim(c)
    PROVE  DirectoryInv'
<1>0. UNCHANGED <<signedAt, kdHead, kdNow>>
  BY DEF Claim
<1>1. CASE packages' = AfterPrune /\ claimed' = ClaimsKept /\ UNCHANGED handed
  BY <1>0, <1>1, DirectoryInvPruned
<1>2. ASSUME ClaimsKept[c] = Unclaimed,
             NEW p \in Available(ClaimTarget[c]),
             packages' = [AfterPrune EXCEPT ![p] =
                 [state |-> "claimed", keep |-> ClaimRetentionUntil(p)]],
             claimed' = [ClaimsKept EXCEPT ![c] = p],
             handed' = handed \cup {[claim |-> c, package |-> p, at |-> kdNow]}
      PROVE  DirectoryInv'
  <2> DEFINE new == [claim |-> c, package |-> p, at |-> kdNow]
  <2>1. /\ p \in Packages /\ p \in Kept
        /\ packages[p].state = "available" /\ AfterPrune[p] = packages[p]
        /\ p # Unclaimed
    BY <1>2, KeyDirectoryAssumption DEF Available, Kept, AfterPrune, Unclaimed
  <2>2. /\ kdNow \in Nat
        /\ ClaimRetentionUntil(p) \in Nat
        /\ ClaimRetentionUntil(p) >= PackageExpiry[p]
        /\ ClaimRetentionUntil(p) >= kdNow + ReplayRetention
    BY <2>1, RetentionCovers DEF DirectoryInv, DirectoryRows
  <2>3. /\ packages' \in [Packages -> [state : {"none", "available", "claimed"}, keep : Nat]]
        /\ packages'[p] = [state |-> "claimed", keep |-> ClaimRetentionUntil(p)]
        /\ \A q \in Packages : q # p => packages'[q] = AfterPrune[q]
    BY <1>2, <2>1, <2>2, PruneKeeps
  <2>4. /\ claimed' \in [ClaimCommands -> Packages \cup {Unclaimed}]
        /\ claimed'[c] = p
        /\ \A d \in ClaimCommands : d # c => claimed'[d] = ClaimsKept[d]
    BY <1>2, <2>1, PruneKeeps
  <2>5. \A q \in Packages :
           packages'[q].state # "none" => packages'[q].keep >= PackageExpiry[q]
    <3> SUFFICES ASSUME NEW q \in Packages, packages'[q].state # "none"
                 PROVE  packages'[q].keep >= PackageExpiry[q]
      OBVIOUS
    <3>1. CASE q = p
      BY <3>1, <2>2, <2>3
    <3>2. CASE q # p
      BY <3>2, <2>3, PruneKeeps DEF DirectoryInv, DirectoryRows
    <3> QED  BY <3>1, <3>2
  <2>6. \A d \in ClaimCommands :
           claimed'[d] # Unclaimed => packages'[claimed'[d]].state = "claimed"
    <3> SUFFICES ASSUME NEW d \in ClaimCommands, claimed'[d] # Unclaimed
                 PROVE  packages'[claimed'[d]].state = "claimed"
      OBVIOUS
    <3>1. CASE d = c
      BY <3>1, <2>3, <2>4
    <3>2. CASE d # c
      <4>1. claimed'[d] = ClaimsKept[d] /\ ClaimsKept[d] # Unclaimed
        BY <3>2, <2>4
      <4>2. ClaimsKept[d] \in Packages /\ AfterPrune[ClaimsKept[d]].state = "claimed"
        BY <4>1, PruneKeeps
      <4> QED  BY <4>1, <4>2, <2>1, <2>3
    <3> QED  BY <3>1, <3>2
  <2>7. handed' \subseteq [claim : ClaimCommands, package : Packages, at : Nat]
    BY <1>2, <2>1, <2>2 DEF DirectoryInv, DirectoryRows
  <2>8. DirectoryRows'
    BY <1>0, <2>3, <2>4, <2>5, <2>6, <2>7 DEF DirectoryInv, DirectoryRows
  <2>9. ASSUME NEW h \in handed
        PROVE  /\ h.package \in Packages /\ h.claim \in ClaimCommands /\ h.at \in Nat
               /\ h.package # p
               /\ h.claim = c => kdNow >= h.at + ReplayRetention
               /\ Spent(h)'
    <3>1. h.package \in Packages /\ h.claim \in ClaimCommands /\ h.at \in Nat
      BY <2>9 DEF DirectoryInv, DirectoryRows
    <3>2. h.package # p
      BY <2>1, <2>9, PruneKeeps
    <3>3. packages'[h.package] = AfterPrune[h.package]
      BY <3>1, <3>2, <2>3
    <3>4. h.package # Unclaimed
      BY <3>1, KeyDirectoryAssumption DEF Unclaimed
    <3>5. CASE AfterPrune[h.package].state = "none"
      BY <3>1, <3>2, <3>3, <3>5, <1>0, <2>9, PruneKeeps DEF Spent
    <3>6. CASE AfterPrune[h.package].state # "none"
      <4>1. /\ AfterPrune[h.package].state = "claimed"
            /\ ClaimsKept[h.claim] = h.package
            /\ AfterPrune[h.package].keep >= h.at + ReplayRetention
        BY <2>9, <3>6, PruneKeeps
      <4>2. h.claim # c
        BY <4>1, <3>4, <1>2
      <4>3. claimed'[h.claim] = h.package
        BY <4>1, <4>2, <3>1, <2>4
      <4> QED  BY <3>1, <3>2, <3>3, <4>1, <4>2, <4>3 DEF Spent
    <3> QED  BY <3>1, <3>2, <3>5, <3>6
  <2>10. Spent(new)'
    BY <1>0, <2>2, <2>3, <2>4 DEF Spent
  <2>11. \A h \in handed' : Spent(h)'
    <3> SUFFICES ASSUME NEW h \in handed' PROVE Spent(h)'
      OBVIOUS
    <3>1. h \in handed \/ h = new
      BY <1>2
    <3> QED  BY <1>0, <3>1, <2>9, <2>10 DEF Spent
  <2>12. PackageHandedOnce'
    BY <1>2, <2>9 DEF DirectoryInv, PackageHandedOnce
  <2>13. ClaimConsumesOne'
    <3> SUFFICES ASSUME NEW a \in handed', NEW b \in handed',
                        a.claim = b.claim, a.at <= b.at, a # b
                 PROVE  a.at + ReplayRetention <= b.at
      BY DEF ClaimConsumesOne
    <3>1. CASE a \in handed /\ b \in handed
      BY <3>1 DEF DirectoryInv, ClaimConsumesOne
    <3>2. CASE a \in handed /\ b = new
      <4>1. a.claim = c /\ b.at = kdNow
        BY <3>2
      <4> QED  BY <3>2, <4>1, <2>2, <2>9, KeyDirectoryAssumption
    <3>3. CASE a = new /\ b \in handed
      <4>1. b.claim = c /\ a.at = kdNow
        BY <3>3
      <4>2. kdNow >= b.at + ReplayRetention /\ b.at \in Nat
        BY <3>3, <4>1, <2>9
      <4> QED  BY <4>1, <4>2, <2>2, KeyDirectoryAssumption
    <3> QED  BY <1>2, <3>1, <3>2, <3>3
  <2> QED  BY <2>8, <2>11, <2>12, <2>13 DEF DirectoryInv
<1> QED  BY <1>1, <1>2 DEF Claim

\* Every step of the directory keeps the invariant.
LEMMA DirectoryInvStep == DirectoryInv /\ [DirectoryNext]_directoryVars => DirectoryInv'
<1> SUFFICES ASSUME DirectoryInv, [DirectoryNext]_directoryVars
             PROVE  DirectoryInv'
  OBVIOUS
<1>0. signedAt \in [Packages -> Nat] /\ kdHead \in 1..KdMaxHead /\ kdNow \in 0..KdMaxTime
  BY DEF DirectoryInv, DirectoryRows
<1>1. ASSUME NEW p \in Packages, SignPackage(p)
      PROVE  DirectoryInv'
  BY <1>0, <1>1, DirectoryInvIdle, KeyDirectoryAssumption DEF SignPackage
<1>2. ASSUME NEW p \in Packages, Publish(p)
      PROVE  DirectoryInv'
  BY <1>2, DirectoryInvPublish
<1>3. ASSUME NEW c \in ClaimCommands, Claim(c)
      PROVE  DirectoryInv'
  BY <1>3, DirectoryInvClaim
<1>4. CASE LogMoves
  BY <1>0, <1>4, DirectoryInvIdle, KeyDirectoryAssumption DEF LogMoves
<1>5. CASE DirectoryTick
  BY <1>0, <1>5, DirectoryInvIdle, KeyDirectoryAssumption DEF DirectoryTick
<1>6. CASE UNCHANGED directoryVars
  BY <1>0, <1>6, DirectoryInvIdle DEF directoryVars
<1> QED  BY <1>1, <1>2, <1>3, <1>4, <1>5, <1>6 DEF DirectoryNext

\* For any packages, devices, claims and lifetimes: whatever is pruned, published again
\* and claimed again, no package is handed out twice, and a claim that is repeated within
\* the replay window consumes no second package (KeyPackageRepository::publish, claim).
THEOREM PackagesAreOneTime == DirectorySpec => []PackagesOneTime
<1>1. DirectoryInit => DirectoryInv
  BY DirectoryInvInit
<1>2. DirectoryInv /\ [DirectoryNext]_directoryVars => DirectoryInv'
  BY DirectoryInvStep
<1>3. DirectoryInv => PackagesOneTime
  BY DEF DirectoryInv, DirectoryRows, PackagesOneTime, DirectoryTypeOK
<1> QED  BY <1>1, <1>2, <1>3, PTL DEF DirectorySpec
=============================================================================
