------------------------- MODULE MCMailboxDelivery -------------------------
(***************************************************************************)
(* Small instances of MailboxDelivery for TLC, and the two situations in   *)
(* which MCNode checks them.  Each leaves steps out and adds none.         *)
(***************************************************************************)
EXTENDS MailboxDelivery

\* The first mailbox belongs to the device that is registered for push.
OwnerOfBoxes  == [m \in Mailboxes |-> IF m = "m1" THEN "d2" ELSE "d1"]
BoxOfEnvelope == [e \in Envelopes |->
    CASE e \in {"e1", "e2"} -> "m1" [] e = "e3" -> "m2" [] e = "o1" -> "m3"]
ExpiryOf      == [e \in Envelopes |-> IF e \in {"e1", "o1"} THEN 1 ELSE 2]
ForSecondDevice == [o \in Offers |-> "d2"]

\* One mailbox at its quota, with wake intents and clocks that disagree; the identity log
\* and its grants rest.
OneMailbox ==
    \/ Clock \/ Compact
    \/ \E e \in {"e1", "e2"} : FinishPush(e) \/ PrunePush(e)
    \/ \E t \in NodeTimes :
         \/ Register("m1", t)
         \/ EnqueueEnvelope("e1", t) \/ EnqueueEnvelope("e2", t)
         \/ \E lost \in BOOLEAN : PullMailbox("m1", t, 1, lost)
         \/ \E A \in SUBSET reader["m1"].got : AckMailbox("m1", t, A)
         \/ DeviceStep(InitialDevice, t)

\* Two devices on one journal and under one clock, with an owner who reads the mailbox early,
\* a grant of the first to the second, a recovery offer whose mailbox nobody reads, and revocations.
SharedJournal ==
    \/ Clock \/ Compact
    \/ Register("m2", now) \/ Register("m3", now)
    \/ EnqueueEnvelope("e3", now) \/ OfferHistory("o1", now)
    \/ now = 0 /\ PullMailbox("m2", now, 1, FALSE)
    \/ reader["m2"].got # {} /\ AckMailbox("m2", now, reader["m2"].got)
    \/ \E d \in Devices : DeviceStep(d, now)
    \/ GrantHistory("d2", "d1", 1)
    \/ \E revoked \in SUBSET Devices : AppendLog(revoked)
=============================================================================
