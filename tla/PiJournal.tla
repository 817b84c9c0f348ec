----------------------------- MODULE PiJournal ------------------------------
(***************************************************************************)
(* SegmentedCompanionPiJournal: the segment files and the cursor file in   *)
(* the Box, the broker process that appends, reads, acknowledges and       *)
(* deletes them, and the executor that projects what it reads.             *)
(*                                                                         *)
(* The file work of one call is synchronous: no other code of the broker   *)
(* runs in between, but the process may die at any point of it.  A "Cut"   *)
(* action is such a death and leaves one of the files the call may leave;  *)
(* an append that throws ends the process too, for nothing catches it.     *)
(***************************************************************************)
EXTENDS Integers, Sequences, FiniteSets, FiniteSetsExt

CONSTANTS MaxInvocations,  \* bound: invocations of the daemon
          SegmentRecords,  \* records that fill a segment
          PageRecords,     \* records a page holds
          MaxRecords       \* bound: records appended

VARIABLES files,    \* the segment files in the order of their names
          ackFile,  \* the cursor file
          latest,   \* the invocation started last
          broker,   \* the process: its invocation (0: not running), #tail, #acknowledged
          reader    \* the attempt being consumed: its invocation, cursor and what it projected

vars == <<files, ackFile, latest, broker, reader>>

Invocations == 1..MaxInvocations

Down == [inv |-> 0, tail |-> 0, ack |-> 0]
NoReader == [inv |-> 0, from |-> 0, cursor |-> 0, got |-> <<>>]
Record == [seq : Nat, by : Invocations]
File == [start : Nat, recs : Seq(Record), cut : BOOLEAN]

Init == /\ files = <<>> /\ ackFile = 0 /\ latest = 0
        /\ broker = Down /\ reader = NoReader

Running == broker.inv # 0
LastSeq(f) == f.start + Len(f.recs) - 1
Records(fs) == UNION {{fs[i].recs[k] : k \in DOMAIN fs[i].recs} : i \in DOMAIN fs}

\* The k-th of the numbers of a set, and records in the order of their numbers: the order
\* of the files too, each named after its first record and found in this order, for the
\* numbers have neither a gap nor a double (Accepted, which AlwaysRecovers asks for).
Nth(nums, k) == CHOOSE n \in nums : Cardinality({m \in nums : m < n}) = k - 1
Numbered(rs, n) == CHOOSE r \in rs : r.seq = n
InOrder(rs) == LET nums == {r.seq : r \in rs} IN [k \in 1..Cardinality(nums) |-> Numbered(rs, Nth(nums, k))]
After(fs, n) == InOrder({r \in Records(fs) : r.seq > n})
-----------------------------------------------------------------------------
(* Retention: segments that end at the cursor or before it, never the last. *)

\* Fault: a segment goes once its first record is acknowledged.
FaultReleasable(fs, n) == {i \in 1..(Len(fs) - 1) : fs[i].start <= n}
Releasable(fs, n) == {i \in 1..(Len(fs) - 1) : LastSeq(fs[i]) <= n}
Retain(fs, n) == SubSeq(fs, Max(Releasable(fs, n) \cup {0}) + 1, Len(fs))
\* The oldest segments go first, so a death leaves a later part of the list.
RetainCuts(fs, n) == {SubSeq(fs, k + 1, Len(fs)) : k \in Releasable(fs, n) \cup {0}}

(* Recovery: the fragment after the last line feed goes, then empty files. *)

Kept(fs) == {i \in DOMAIN fs : fs[i].recs # <<>>}
\* Fault: the fragment is left where it is.
FaultCleaned(fs) == [k \in 1..Cardinality(Kept(fs)) |-> fs[Nth(Kept(fs), k)]]
Cleaned(fs) == [k \in 1..Cardinality(Kept(fs)) |-> [fs[Nth(Kept(fs), k)] EXCEPT !.cut = FALSE]]

\* What #recoverSegments accepts: complete lines, each file named after its
\* first record, no gap after the cursor and none between records.
Accepted(fs, n) ==
  /\ \A i \in DOMAIN fs : ~fs[i].cut /\ fs[i].start = fs[i].recs[1].seq
  /\ fs # <<>> => fs[1].start <= n + 1
  /\ \A i \in DOMAIN fs : \A k \in DOMAIN fs[i].recs : fs[i].recs[k].seq = fs[i].start + k - 1
  /\ \A i \in 2..Len(fs) : fs[i].start = LastSeq(fs[i - 1]) + 1

TailOf(fs, n) == Max({n} \cup {r.seq : r \in Records(fs)})

\* beginInvocation: the records of another invocation are taken as read.
Retired(fs, n, i) == LET rs == After(fs, n) IN IF rs # <<>> /\ rs[1].by # i THEN TailOf(fs, n) ELSE n

\* A daemon started again: the one of an isolated routine under its old name,
\* the main one under the name systemd gives it.
Starts(i) == i \in {latest, latest + 1} /\ latest' = i

Boot(i) ==
  /\ ~Running /\ Starts(i) /\ Accepted(Cleaned(files), ackFile)
  /\ LET fs == Cleaned(files)  n == Retired(fs, ackFile, i) IN
       /\ files' = Retain(fs, n) /\ ackFile' = n
       /\ broker' = [inv |-> i, tail |-> TailOf(fs, ackFile), ack |-> n]
  /\ UNCHANGED reader

BootCut(i) ==
  /\ ~Running /\ Starts(i) /\ Accepted(Cleaned(files), ackFile)
  /\ LET fs == Cleaned(files)  n == Retired(fs, ackFile, i) IN
       \/ files' \in RetainCuts(fs, ackFile) /\ UNCHANGED ackFile
       \/ files' \in RetainCuts(Retain(fs, ackFile), n) /\ ackFile' = n
  /\ UNCHANGED <<broker, reader>>

Kill == Running /\ broker' = Down /\ UNCHANGED <<files, ackFile, latest, reader>>
-----------------------------------------------------------------------------
(* append *)

Full == files = <<>> \/ Len(files[Len(files)].recs) >= SegmentRecords
Target == IF Full THEN Append(files, [start |-> broker.tail + 1, recs |-> <<>>, cut |-> FALSE]) ELSE files
InTarget(f) == [Target EXCEPT ![Len(Target)] = f]
Current == Target[Len(Target)]
Written == InTarget([Current EXCEPT !.recs = Append(@, [seq |-> broker.tail + 1, by |-> broker.inv])])

\* acceptPiRecord and acceptPiProcessExit.
AppendRecord ==
  /\ Running /\ broker.tail < MaxRecords
  /\ files' = Written /\ broker' = [broker EXCEPT !.tail = @ + 1]
  /\ UNCHANGED <<ackFile, latest, reader>>

\* A new file without a line, or a part of the line.  (A line nobody was told
\* of is AppendRecord and then Kill.)
AppendCut ==
  /\ Running /\ broker.tail < MaxRecords
  /\ files' \in {Target, InTarget([Current EXCEPT !.cut = TRUE])}
  /\ broker' = Down
  /\ UNCHANGED <<ackFile, latest, reader>>
-----------------------------------------------------------------------------
(* acknowledge: late and repeated cursors included. *)

Acks == {n \in 1..reader.cursor : n > broker.ack /\ n <= broker.tail}

Acknowledge ==
  /\ Running
  /\ \E n \in Acks : /\ ackFile' = n /\ broker' = [broker EXCEPT !.ack = n]
                     /\ files' = Retain(files, n)
  /\ UNCHANGED <<latest, reader>>

AcknowledgeCut ==
  /\ Running
  /\ \E n \in Acks : ackFile' = n /\ files' \in RetainCuts(files, n)
  /\ broker' = Down
  /\ UNCHANGED <<latest, reader>>

\* The write fails after its rename: the command is refused, the process lives.
AcknowledgeFails ==
  /\ Running
  /\ \E n \in Acks : ackFile' = n
  /\ UNCHANGED <<files, latest, broker, reader>>
-----------------------------------------------------------------------------
(* The executor: it learns its first cursor with the answer to its prompt. *)

Prompted ==
  /\ Running
  /\ reader' = [inv |-> broker.inv, from |-> broker.tail, cursor |-> broker.tail, got |-> <<>>]
  /\ UNCHANGED <<files, ackFile, latest, broker>>

Mine == Running /\ reader.inv = broker.inv
Unread == After(files, Max({reader.cursor, broker.ack}))
\* Fault: the cursor of a page is the tail, whatever fits into the page.
FaultNextCursor(page) == broker.tail
NextCursor(page) == page[Len(page)].seq

\* read_events, the page validated and projected in one transaction.
Reads ==
  /\ Mine /\ Unread # <<>>
  /\ LET page == SubSeq(Unread, 1, IF Len(Unread) < PageRecords THEN Len(Unread) ELSE PageRecords)
     IN  reader' = [reader EXCEPT !.got = @ \o page, !.cursor = NextCursor(page)]
  /\ UNCHANGED <<files, ackFile, latest, broker>>

Next == \/ \E i \in Invocations : Boot(i) \/ BootCut(i)
        \/ Kill \/ AppendRecord \/ AppendCut
        \/ Acknowledge \/ AcknowledgeCut \/ AcknowledgeFails
        \/ Prompted \/ Reads

Spec == Init /\ [][Next]_vars
-----------------------------------------------------------------------------
TypeOK == /\ files \in Seq(File) /\ ackFile \in Nat /\ latest \in 0..MaxInvocations
          /\ broker \in [inv : Invocations \cup {0}, tail : Nat, ack : Nat]
          /\ reader \in [inv : Invocations \cup {0}, from : Nat, cursor : Nat, got : Seq(Record)]

\* Whatever point of its file work the daemon dies at, the next one starts:
\* none of the three refusals of #recoverSegments can be met.
AlwaysRecovers == Accepted(Cleaned(files), ackFile)

\* A cursor the broker once gave out is never beyond the tail of a later
\* process and never behind its acknowledgement, so read and acknowledge do
\* not refuse the attempt that still owns the invocation.
CursorsStayValid == Running => /\ reader.cursor <= broker.tail
                               /\ Mine => broker.ack <= reader.cursor

\* The projection of an attempt is every record after the cursor its prompt
\* was answered with, once each, in order: nothing checks this when a page is
\* validated, which only asks that numbers grow.
ReadsEveryRecord == /\ Len(reader.got) = reader.cursor - reader.from
                    /\ \A i \in DOMAIN reader.got : reader.got[i] = [seq |-> reader.from + i, by |-> reader.inv]

\* The journal is a durable log whatever the process goes through: a recovery
\* and a deleted segment do not change what it holds, and a death at most lets
\* an acknowledgement count that was written but refused.
Released == IF Running THEN broker.ack ELSE ackFile
Log == INSTANCE DurableLog WITH Writers <- Invocations, released <- Released, pending <- After(files, Released)
ImplementsDurableLog == Log!Spec
=============================================================================
