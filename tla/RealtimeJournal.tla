-------------------------- MODULE RealtimeJournal --------------------------
(***************************************************************************)
(* The realtime journal of one identity (schema realtime): an event is     *)
(* appended with the lifetime of what it announces, so events expire out   *)
(* of order, and the compactor deletes the expired prefix.                 *)
(***************************************************************************)
EXTENDS Integers, Sequences, FiniteSets

CONSTANTS
    RtRetention,    \* lifetime of an identity or read-cursor event (7 days)
    DeliveryTtls,   \* lifetimes senders ask for their envelopes
    BatchLimit,     \* rows of one claim or one compaction
    RtMaxTime,      \* bound: last instant of the clock
    MaxCursor       \* bound: events of the journal

ASSUME JournalConstants ==
    /\ RtRetention \in Nat \ {0}
    /\ DeliveryTtls \subseteq Nat \ {0}
    /\ BatchLimit \in Nat \ {0}
    /\ RtMaxTime \in Nat /\ MaxCursor \in Nat

VARIABLES
    rtNow,
    journal,    \* expires_at of every event, by cursor; its length is next_cursor
    floor       \* journal_floor: rows below it are deleted

journalVars == <<rtNow, journal, floor>>

Cursors == 1 .. MaxCursor
Highwater == Len(journal)
Expired(i) == journal[i] <= rtNow

JournalTypeOK ==
    /\ rtNow \in 0 .. RtMaxTime
    /\ journal \in Seq(Nat) /\ Len(journal) <= MaxCursor
    /\ floor \in 1 .. Len(journal) + 1

JournalInit == rtNow = 0 /\ journal = <<>> /\ floor = 1

\* The head moves by one and the row goes with it.
AppendEvent(expires) ==
    /\ Highwater < MaxCursor
    /\ journal' = Append(journal, expires)
    /\ UNCHANGED <<rtNow, floor>>

\* The first rows of a set of cursors.
FirstOf(S, limit) == {i \in S : Cardinality({j \in S : j < i}) < limit}

\* The expired prefix of the journal, and every expired row whatever precedes it.
ExpiredRows   == {i \in floor .. Highwater : Expired(i)}
ExpiredPrefix == {i \in floor .. Highwater : \A j \in floor .. i : Expired(j)}

\* The head row of the identity moves past the rows that go.
CompactExpired ==
    LET rows == FirstOf(ExpiredPrefix, BatchLimit)
    IN /\ rows # {}
       /\ floor' = 1 + CHOOSE i \in rows : \A j \in rows : j <= i
       /\ UNCHANGED <<rtNow, journal>>

JournalTick ==
    /\ rtNow < RtMaxTime
    /\ rtNow' = rtNow + 1
    /\ UNCHANGED <<journal, floor>>

\* Compaction deletes no event before it expired, although events expire out of order
\* (realtime.compact_expired).
CompactionSparesLive ==
    [][\A i \in floor .. floor' - 1 : Expired(i)]_journalVars
=============================================================================
