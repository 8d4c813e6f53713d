----------------------------- MODULE MCRealtime -----------------------------
(***************************************************************************)
(* What reaches a device in the end.  An initial state says what moves:    *)
(* the sockets of one device that replay the realtime journal; those of    *)
(* two devices, whose operations wait for each other; the workers that     *)
(* publish its outbox; the mailbox delivery journal with its compactor; or *)
(* the push registrations and wakes of one device and two brokers.         *)
(* Sockets and workers share the realtime journal and nothing else,        *)
(* because a socket may replay without a notification.                     *)
(***************************************************************************)
EXTENDS RealtimeSync, RealtimeOutbox, PushBroker

CONSTANTS k1, k2, k3, dev, peer

\* Two sockets belong to one device: the second is opened when the first is lost.
SocketOwner == [k \in Conns |-> IF k = k3 THEN peer ELSE dev]

VARIABLES
    moving,
    now, box, env, push, head, deliveries, delivery, grant, identity, client, reader

\* Two mailboxes of one device, pulls of one entry and compaction of one row.
Letters == {"e1", "e3"}
Mail == INSTANCE MailboxDelivery WITH
    journal <- deliveries,
    Mailboxes <- {"m1", "m2"}, BoxOwner <- [m \in {"m1", "m2"} |-> dev],
    Sent <- Letters, Offers <- {}, Candidate <- <<>>,
    MailboxOf <- [e \in Letters |-> IF e = "e1" THEN "m1" ELSE "m2"],
    Expiry <- [e \in Letters |-> IF e = "e1" THEN 1 ELSE 3],
    Devices <- {dev}, InitialDevice <- dev, BoxTtl <- 3, MaxTtl <- 3, Quota <- 2,
    Retention <- 1, Budget <- 1, PushDevices <- {}, PushRetention <- 2, Skew <- 0,
    PullLimit <- 1, MaxEarliest <- 0, MaxTime <- 3, MaxSequence <- 3, MaxVersion <- 1

\* A registration, its replacement and its removal; the last two race.
ThreeMutations == [q \in Mutations |->
    [device |-> "d1", put |-> q # "delete", expected |-> IF q = "put" THEN 0 ELSE 1]]
OneTarget == [w \in Wakes |-> "d1"]

socketVars  == <<lease, syncAck, revoked, conn, op, wire, live, cursor, told, faults>>
publishVars == <<outbox, worker, announced, crashes>>
mailVars    == <<now, box, env, push, head, deliveries, delivery, grant, identity,
                 client, reader>>
vars == <<moving, journalVars, socketVars, publishVars, mailVars, pushVars>>

\* The other device stays away.
OneDevice == conn'[k3] = Closed /\ peer \notin revoked'

\* One socket for each device, one event, no fault and a device that stays.
TwoDevices ==
    /\ conn'[k2] = Closed /\ dev \notin revoked'
    /\ Len(journal') <= 1 /\ rtNow' <= 1 /\ faults' = 0
    /\ \A d \in RtDevices : lease'[d].fence <= 2

Sockets(A) ==
    /\ moving \in {"sockets", "peers"}
    /\ A /\ UNCHANGED <<moving, publishVars, mailVars, pushVars>>
    /\ \/ moving = "sockets" /\ OneDevice
       \/ moving = "peers" /\ TwoDevices
Publishers(A) == moving = "publishers" /\ A
                 /\ UNCHANGED <<moving, socketVars, mailVars, pushVars>>
Mailbox(A)    == moving = "mailbox" /\ A
                 /\ UNCHANGED <<moving, journalVars, socketVars, publishVars, pushVars>>
Pushes(A)     == moving = "push" /\ A
                 /\ UNCHANGED <<moving, journalVars, socketVars, publishVars, mailVars>>

Init ==
    /\ moving \in {"sockets", "peers", "publishers", "mailbox", "push"}
    /\ RealtimeInit /\ OutboxInit /\ Mail!Init /\ PushInit
Next == Sockets(RealtimeNext) \/ Publishers(OutboxNext) \/ Mailbox(Mail!Next) \/ Pushes(PushNext)

FairSpec ==
    /\ Init /\ [][Next]_vars
    /\ \A k \in {k1, k2} :
          /\ WF_vars(Sockets(ServeStep(k)))
          /\ WF_vars(Sockets(ClientReceives(k)))
    /\ SF_vars(Sockets(Hello(dev)))
    /\ \A g \in Gateways : WF_vars(Publishers(WorkerStep(g)))
    /\ WF_vars(Publishers(OutboxTick))
    /\ WF_vars(Mailbox(Mail!Clock))
    /\ WF_vars(Mailbox(Mail!Compact))
    /\ WF_vars(Mailbox(\E t \in Mail!NodeTimes : Mail!PullIdentity(dev, t, 1, FALSE)))

\* A device that connected catches up again and again, although its socket is lost, pages
\* are short and events expire (serve_socket, push_replay).  Where two devices can time
\* each other out, the bound on leases ends their sessions first.
DeviceCatchesUp == moving = "sockets" => EventsReachDevice

\* Pulls of one entry get past tombstones and the compacted prefix (pull_identity_v3).
DeliveryReachesHead == Mail!DeliveryReachesHead

\* Expired ciphertext is released although it was acknowledged (compact_expired).
QuotaReleased == Mail!QuotaReleased
=============================================================================
