------------------------ MODULE PromptDispatchProofs ------------------------
(***************************************************************************)
(* Proofs about PromptDispatch for every set of replicas, number of        *)
(* attempts and bound: rows, executors and the Box agree about who sends   *)
(* what, an attempt shows its own records without gaps, and, while Pi's    *)
(* answers reach the broker and its ledger, a prompt runs once and a turn  *)
(* that succeeded is complete.                                             *)
(***************************************************************************)
EXTENDS PromptDispatch, TLAPS

RowSet == [status : {"queued", "active"} \cup Terminals, at : Ats, inv : 0..MaxInv,
           cursor : Nat, owner : Executors \cup {"none"}]
ExecSet == [at : Pcs, attempt : 0..N, inv : 0..MaxInv, tail : Nat, sends : 0..MaxSends,
            reply : Replies, through : Nat, goal : {"none"} \cup Terminals]
Prompts == [from : Executors, attempt : Attempts, inv : Invocations, nth : 1..MaxSends]
Asks == [attempt : Attempts, m : Prompts, takes : BOOLEAN, cursor : Nat]
Notes == [attempt : Attempts, cursor : Nat]
Records == [attempt : Attempts, inv : Invocations, kind : {"event", "settled", "exit"}]
Brokers == [inv : Invocations, active : 0..N, ledger : Seq(Notes), acked : Nat, asked : Asks \cup {Nothing}]
Pis == [busy : 0..N, events : 0..MaxEvents, dead : BOOLEAN]

Typed == /\ row \in [Attempts -> RowSet] /\ projected \in [Attempts -> SUBSET Nat]
         /\ exec \in [Executors -> ExecSet] /\ net \in SUBSET Prompts /\ broker \in Brokers
         /\ journal \in Seq(Records) /\ pi \in Pis /\ runs \in [Attempts -> Nat]

\* Cursors stay within the journal.
Reaches(x) == x.tail <= TailCursor /\ x.through <= TailCursor /\ x.reply.cursor <= TailCursor
Within == /\ \A a \in Attempts : row[a].cursor <= TailCursor /\ projected[a] \subseteq 1..TailCursor
          /\ \A e \in Executors : Reaches(exec[e])
          /\ broker.acked <= TailCursor
          /\ broker.asked # Nothing => broker.asked.cursor <= TailCursor
          /\ \A i \in DOMAIN broker.ledger : broker.ledger[i].cursor <= TailCursor

\* Places between the write intent and the end of the dispatch, and after it.
Dispatching == {"prove", "send", "await", "resolve", "accept", "reject", "ambiguous"}
Consuming == {"consume", "project", "ack"}
Accepted == {"accepted", "settled", "exited"}

\* The rows: an owned attempt is active, earlier ones have ended before a later begins,
\* and an end says how the dispatch ended.
Ended(status, at) == /\ status = "succeeded" => at = "settled"
                     /\ status = "failed" => at \in {"starting", "rejected", "exited"}
RowsAgree == \A a \in Attempts :
  /\ row[a].owner # "none" => row[a].status = "active"
  /\ row[a].status # "queued" => \A b \in 1..(a - 1) : row[b].status \in Terminals
  /\ row[a].status = "queued" => row[a].at = "starting"
  /\ Ended(row[a].status, row[a].at)
  /\ row[a].at # "starting" => row[a].inv \in 1..broker.inv
  /\ row[a].at \notin Accepted => projected[a] = {}

\* What an executor that stands at x holds, whether it still has the lease or not ...
Stands(x) ==
  /\ x.at # "idle" => x.attempt \in Attempts
  /\ x.at \in {"loop", "repair", "recheck", "intent", "prove", "send"} => x.sends = 0
  /\ x.at = "intent" => x.inv \in 1..broker.inv
  /\ x.at \in Dispatching => row[x.attempt].at # "starting" /\ row[x.attempt].inv = x.inv
\* ... and what it knows of the row while it has.
Knows(e, x) == LET r == row[x.attempt] IN
  x.at # "idle" /\ r.owner = e =>
    /\ x.at = "loop" => r.at \notin {"write_intent", "ambiguous"}
    /\ x.at \in {"repair", "recheck", "intent"} => r.at = "starting"
    /\ x.at \in Dispatching => r.at = "write_intent"
    /\ x.at \in Consuming => r.at \in Accepted
    /\ x.at = "project" => /\ r.at = "accepted" /\ r.cursor < x.through
                           /\ \A i \in (r.cursor + 1)..x.through : journal[i].attempt = x.attempt
    /\ x.at = "ack" => x.through = r.cursor
    /\ x.at \in {"settle", "cleanup"} => x.goal \in Terminals /\ Ended(x.goal, r.at)
OwnersWork == \A a \in Attempts : row[a].owner # "none" =>
                exec[row[a].owner].at # "idle" /\ exec[row[a].owner].attempt = a
ExecutorsAgree == (\A e \in Executors : Stands(exec[e]) /\ Knows(e, exec[e])) /\ OwnersWork

\* What has left for the Box was pinned to an invocation before, and is of that one.
Pinned(a, inv) == row[a].at # "starting" /\ row[a].inv = inv
BoxAgrees ==
  /\ \A m \in net : Pinned(m.attempt, m.inv)
  /\ \A i \in DOMAIN journal : Pinned(journal[i].attempt, journal[i].inv)
  /\ \A i \in DOMAIN broker.ledger : Pinned(broker.ledger[i].attempt, broker.inv)
  /\ broker.active # 0 => Pinned(broker.active, broker.inv) /\ ~pi.dead
  /\ \A a \in Attempts : row[a].at = "starting" => runs[a] = 0
  /\ pi.busy # 0 /\ broker.active # 0 => broker.active = pi.busy
  /\ pi.dead => pi.busy = 0
  /\ broker.asked # Nothing =>
       LET q == broker.asked IN /\ q.attempt = q.m.attempt /\ Pinned(q.attempt, broker.inv)
                                /\ broker.active \in {0, q.attempt}
                                /\ ~q.takes => pi.busy = 0

\* An attempt whose journal ends has its last record within its cursor.
EndIsShown == \A a \in Attempts :
  /\ row[a].at = "settled" => \E i \in 1..row[a].cursor : journal[i].attempt = a /\ journal[i].kind = "settled"
  /\ row[a].at = "exited" => \E i \in 1..row[a].cursor : journal[i].attempt = a /\ journal[i].kind = "exit"

DispatchInv == Typed /\ Within /\ RowsAgree /\ ExecutorsAgree /\ BoxAgrees /\ EndIsShown /\ ProjectedIsItsOwn
-----------------------------------------------------------------------------
(* While Pi's answers reach the broker and its ledger.                       *)
AnswersArrive == {"ack", "ledger"} \cap Mishaps = {}

Said(a) == {i \in DOMAIN journal : journal[i].attempt = a}
\* The daemon cannot take the prompt of a again.
Spent(a) == \/ row[a].inv < broker.inv \/ pi.dead \/ Recorded(a) # {}
            \/ broker.asked # Nothing /\ broker.asked.attempt = a /\ broker.asked.takes
RunsSpend == /\ \A a \in Attempts : row[a].at # "starting" /\ (runs[a] # 0 \/ Said(a) # {}) => Spent(a)
             /\ pi.busy # 0 => runs[pi.busy] # 0

\* A cursor told for an attempt lies before all it said.
ToldAccepted(x) == x.at = "accept" \/ (x.at = "await" /\ x.reply.is = "accepted")
Precedes(c, a) == \A i \in Said(a) : i > c
CursorsPrecede ==
  /\ broker.asked # Nothing => Precedes(broker.asked.cursor, broker.asked.attempt)
  /\ \A i \in DOMAIN broker.ledger : Precedes(broker.ledger[i].cursor, broker.ledger[i].attempt)
  /\ \A e \in Executors : ToldAccepted(exec[e]) => Precedes(exec[e].reply.cursor, exec[e].attempt)

\* What an accepted attempt said up to its cursor is shown.
ShownSoFar == \A a \in Attempts : row[a].at \in Accepted =>
                \A i \in Said(a) : i <= row[a].cursor => i \in projected[a]

\* Nothing follows the end of an attempt.
EndsLast == /\ \A a \in Attempts : \A i, j \in Said(a) : i < j => journal[i].kind = "event"
            /\ broker.active # 0 => \A i \in Said(broker.active) : journal[i].kind = "event"

OnceInv == PromptRunsOnce /\ RunsSpend /\ CursorsPrecede /\ ShownSoFar /\ EndsLast /\ AckedWasProjected
-----------------------------------------------------------------------------
(* The initial state.                                                        *)

USE DispatchAssumption DEF DispatchConstants, TailCursor, Attempts, Invocations

LEMMA Kinds0 == Idle \in ExecSet /\ NoReply \in Replies /\ Resting \in Pis
  BY DEF Idle, ExecSet, NoReply, Replies, Resting, Pis, Pcs

LEMMA DispatchStarts == Init => DispatchInv
  <1> SUFFICES ASSUME Init PROVE DispatchInv
    OBVIOUS
  <1> USE DEF Init
  <1>1. Typed
    <2>1. row \in [Attempts -> RowSet]
      BY DEF RowSet, Ats
    <2>2. exec \in [Executors -> ExecSet]
      BY Kinds0
    <2>3. broker \in Brokers
      BY DEF Brokers, Nothing
    <2>4. journal \in Seq(Records) /\ pi \in Pis /\ runs \in [Attempts -> Nat]
      BY Kinds0
    <2>5. QED
      BY <2>1, <2>2, <2>3, <2>4 DEF Typed
  <1>2. Within
    BY DEF Within, Reaches, Idle, NoReply
  <1>3. RowsAgree
    BY DEF RowsAgree, Ended, Accepted
  <1>4. ExecutorsAgree
    BY DEF ExecutorsAgree, Stands, Knows, OwnersWork, Idle, Dispatching
  <1>5. BoxAgrees
    BY DEF BoxAgrees, Resting, Nothing
  <1>6. EndIsShown /\ ProjectedIsItsOwn
    BY DEF EndIsShown, ProjectedIsItsOwn
  <1>7. QED
    BY <1>1, <1>2, <1>3, <1>4, <1>5, <1>6 DEF DispatchInv

LEMMA OnceStarts == Init => OnceInv
  <1> SUFFICES ASSUME Init PROVE OnceInv
    OBVIOUS
  <1> USE DEF Init
  <1>1. PromptRunsOnce /\ RunsSpend
    BY DEF PromptRunsOnce, RunsSpend, Resting
  <1>2. CursorsPrecede
    BY DEF CursorsPrecede, ToldAccepted, Idle
  <1>3. ShownSoFar /\ AckedWasProjected
    BY DEF ShownSoFar, AckedWasProjected, Accepted
  <1>4. EndsLast
    BY DEF EndsLast, Said
  <1> QED
    BY <1>1, <1>2, <1>3, <1>4 DEF OnceInv
-----------------------------------------------------------------------------
(* The steps of an executor: what is left to show of each.                   *)

\* What it takes for executor e to stand at x.
Place(e, x) == x \in ExecSet /\ Reaches(x) /\ Stands(x) /\ Knows(e, x)
                 /\ \A a \in Attempts : row[a].owner = e => x.at # "idle" /\ x.attempt = a

LEMMA Places == ASSUME DispatchInv, NEW e \in Executors PROVE Place(e, exec[e])
  BY DEF DispatchInv, Typed, Within, ExecutorsAgree, OwnersWork, Place

\* An executor that moves, and may send a prompt that is pinned.
LEMMA ExecutorMoves ==
  ASSUME DispatchInv, NEW e \in Executors, NEW x, Place(e, x), Goes(e, x),
         UNCHANGED <<row, projected, box>>, net' \in SUBSET Prompts,
         \A m \in net' \ net : Pinned(m.attempt, m.inv)
  PROVE  DispatchInv'
  <1> USE DEF Goes, box
  <1>1. Typed'
    BY DEF DispatchInv, Typed, Place
  <1>2. Within'
    BY DEF DispatchInv, Typed, Within, Place, Reaches
  <1>3. RowsAgree'
    BY DEF DispatchInv, RowsAgree
  <1>4. ExecutorsAgree'
    <2>1. ASSUME NEW f \in Executors PROVE (Stands(exec[f]) /\ Knows(f, exec[f]))'
      <3>1. CASE f = e
        <4>1. exec'[f] = x
          BY <3>1 DEF DispatchInv, Typed
        <4>2. Stands(exec[f])' /\ Knows(f, exec[f])'
          BY <3>1, <4>1 DEF Place, Stands, Knows
        <4> QED
          BY <4>2
      <3>2. CASE f # e
        <4>1. exec'[f] = exec[f]
          BY <3>2 DEF DispatchInv, Typed
        <4> QED
          BY <4>1 DEF DispatchInv, ExecutorsAgree, Stands, Knows
      <3>3. QED
        BY <3>1, <3>2
    <2>2. OwnersWork'
      BY DEF DispatchInv, Typed, RowSet, ExecutorsAgree, OwnersWork, Place
    <2>3. QED
      BY <2>1, <2>2 DEF ExecutorsAgree
  <1>5. BoxAgrees'
    BY DEF DispatchInv, BoxAgrees, Pinned
  <1>6. EndIsShown' /\ ProjectedIsItsOwn'
    BY DEF DispatchInv, EndIsShown, ProjectedIsItsOwn
  <1>7. QED
    BY <1>1, <1>2, <1>3, <1>4, <1>5, <1>6 DEF DispatchInv

\* The row of an attempt whose lease nobody else has becomes r, its executor stands at x,
\* and the attempt shows shown.
Pins(r, a) == /\ row[a].at # "starting" => r.at # "starting" /\ r.inv = row[a].inv
              /\ r.at # "starting" => r.inv \in 1..broker.inv
Follows(r, a) == /\ r.owner # "none" => r.status = "active"
                 /\ row[a].status \in Terminals => r.status \in Terminals
                 /\ r.status # "queued" => \A b \in 1..(a - 1) : row[b].status \in Terminals
                 /\ r.status = "queued" => r.at = "starting"
                 /\ Ended(r.status, r.at)
Shows(r, a, shown) ==
  /\ r.at \notin Accepted => shown = {}
  /\ shown \subseteq 1..TailCursor
  /\ \A i \in shown : journal[i].attempt = a /\ \A j \in i..r.cursor : j \in shown
  /\ r.at = "settled" => \E i \in 1..r.cursor : journal[i].attempt = a /\ journal[i].kind = "settled"
  /\ r.at = "exited" => \E i \in 1..r.cursor : journal[i].attempt = a /\ journal[i].kind = "exit"

LEMMA RowMoves ==
  ASSUME DispatchInv, NEW e \in Executors, NEW a \in Attempts, NEW r \in RowSet, NEW x \in ExecSet, NEW shown,
         row' = [row EXCEPT ![a] = r], Goes(e, x), projected' = [projected EXCEPT ![a] = shown],
         UNCHANGED <<net, box>>,
         row[a].owner \in {"none", e}, r.owner \in {"none", e}, r.cursor <= TailCursor,
         Pins(r, a), Follows(r, a), Shows(r, a, shown),
         Reaches(x), Stands(x)', Knows(e, x)',
         \A b \in Attempts : row'[b].owner = e => x.at # "idle" /\ x.attempt = b
  PROVE  DispatchInv'
  <1> USE DEF Goes, box
  <1>a. row'[a] = r /\ \A b \in Attempts \ {a} : row'[b] = row[b]
    BY DEF DispatchInv, Typed
  <1>b. projected'[a] = shown /\ \A b \in Attempts \ {a} : projected'[b] = projected[b]
    BY DEF DispatchInv, Typed
  <1>c. exec'[e] = x /\ \A f \in Executors \ {e} : exec'[f] = exec[f]
    BY DEF DispatchInv, Typed
  <1>d. \A b \in Attempts : row[b].at # "starting" => row'[b].at # "starting" /\ row'[b].inv = row[b].inv
    BY <1>a DEF Pins
  <1>1. Typed'
    BY DEF DispatchInv, Typed, Shows
  <1>2. Within'
    <2>1. \A b \in Attempts : row'[b].cursor <= TailCursor /\ projected'[b] \subseteq 1..TailCursor
      BY <1>a, <1>b DEF DispatchInv, Within, Shows
    <2>2. \A f \in Executors : Reaches(exec'[f])
      BY <1>c DEF DispatchInv, Within
    <2>3. QED
      BY <2>1, <2>2 DEF DispatchInv, Within, Reaches
  <1>3. RowsAgree'
    <2> SUFFICES ASSUME NEW b \in Attempts
                 PROVE  /\ row'[b].owner # "none" => row'[b].status = "active"
                        /\ row'[b].status # "queued" => \A c \in 1..(b - 1) : row'[c].status \in Terminals
                        /\ row'[b].status = "queued" => row'[b].at = "starting"
                        /\ Ended(row'[b].status, row'[b].at)
                        /\ row'[b].at # "starting" => row'[b].inv \in 1..broker.inv
                        /\ row'[b].at \notin Accepted => projected'[b] = {}
      BY DEF RowsAgree, Ended
    <2>1. \A c \in Attempts : row[c].status \in Terminals => row'[c].status \in Terminals
      BY <1>a DEF Follows
    <2>2. CASE b = a
      <3>1. \A c \in 1..(a - 1) : c \in Attempts
        OBVIOUS
      <3>2. r.status # "queued" => \A c \in 1..(a - 1) : row'[c].status \in Terminals
        BY <2>1, <3>1 DEF Follows
      <3>3. r.at # "starting" => r.inv \in 1..broker.inv
        BY DEF Pins
      <3> QED
        BY <2>2, <3>2, <3>3, <1>a, <1>b DEF Follows, Shows
    <2>3. CASE b # a
      BY <2>1, <2>3, <1>a, <1>b DEF DispatchInv, RowsAgree
    <2>4. QED
      BY <2>2, <2>3
  <1>4. ExecutorsAgree'
    <2>1. ASSUME NEW f \in Executors PROVE (Stands(exec[f]) /\ Knows(f, exec[f]))'
      <3>1. CASE f = e
        BY <3>1, <1>c DEF Stands, Knows
      <3>2. CASE f # e
        <4>1. exec'[f] = exec[f]
          BY <3>2, <1>c
        <4>2. Stands(exec[f]) /\ Knows(f, exec[f])
          BY DEF DispatchInv, ExecutorsAgree
        <4>3. Stands(exec[f])'
          BY <4>1, <4>2, <1>d DEF Stands, Dispatching
        <4>4. Knows(f, exec[f])'
          <5>1. CASE exec[f].at = "idle"
            BY <4>1, <5>1 DEF Knows
          <5>2. CASE exec[f].at # "idle" /\ exec[f].attempt = a
            <6>1. f # "none"
              OBVIOUS
            <6> QED
              BY <4>1, <5>2, <1>a, <3>2, <6>1 DEF Knows
          <5>3. CASE exec[f].at # "idle" /\ exec[f].attempt # a
            <6>1. exec[f].attempt \in Attempts \ {a}
              BY <5>3, <4>2 DEF Stands
            <6>2. row'[exec[f].attempt] = row[exec[f].attempt]
              BY <6>1, <1>a
            <6> QED
              BY <4>1, <4>2, <6>2 DEF Knows
          <5>4. QED
            BY <5>1, <5>2, <5>3
        <4>5. QED
          BY <4>3, <4>4
      <3>3. QED
        BY <3>1, <3>2
    <2>2. OwnersWork'
      <3> SUFFICES ASSUME NEW b \in Attempts, row'[b].owner # "none"
                   PROVE  exec'[row'[b].owner].at # "idle" /\ exec'[row'[b].owner].attempt = b
        BY DEF OwnersWork
      <3>1. CASE row'[b].owner = e
        BY <3>1, <1>c
      <3>2. CASE row'[b].owner # e
        <4>1. b # a
          BY <3>2, <1>a
        <4>2. row'[b] = row[b] /\ row[b].owner \in Executors
          BY <4>1, <1>a DEF DispatchInv, Typed, RowSet
        <4> QED
          BY <3>2, <4>2, <1>c DEF DispatchInv, ExecutorsAgree, OwnersWork
      <3>3. QED
        BY <3>1, <3>2
    <2>3. QED
      BY <2>1, <2>2 DEF ExecutorsAgree
  <1>5. BoxAgrees'
    <2>1. \A b \in Attempts, i \in Nat : Pinned(b, i) => Pinned(b, i)'
      BY <1>d DEF Pinned
    <2>2. \A m \in net : Pinned(m.attempt, m.inv)'
      BY <2>1 DEF DispatchInv, Typed, Prompts, BoxAgrees
    <2>3. \A i \in DOMAIN journal : Pinned(journal[i].attempt, journal[i].inv)'
      <3>1. \A i \in DOMAIN journal : journal[i] \in Records
        BY DEF DispatchInv, Typed
      <3> QED
        BY <3>1, <2>1 DEF DispatchInv, Records, BoxAgrees
    <2>4. \A i \in DOMAIN broker.ledger : Pinned(broker.ledger[i].attempt, broker.inv)'
      <3>1. broker.inv \in Nat /\ \A i \in DOMAIN broker.ledger : broker.ledger[i] \in Notes
        BY DEF DispatchInv, Typed, Brokers
      <3>2. \A i \in DOMAIN broker.ledger : Pinned(broker.ledger[i].attempt, broker.inv)
        BY DEF DispatchInv, BoxAgrees
      <3> QED
        BY <3>1, <3>2, <2>1 DEF Notes, Pinned
    <2>5. broker.active # 0 => Pinned(broker.active, broker.inv)' /\ ~pi.dead
      BY <2>1 DEF DispatchInv, Typed, Brokers, BoxAgrees, Pinned
    <2>6. \A b \in Attempts : row'[b].at = "starting" => runs[b] = 0
      BY <1>d DEF DispatchInv, BoxAgrees
    <2>7. ASSUME broker.asked # Nothing
          PROVE  /\ broker.asked.attempt = broker.asked.m.attempt /\ Pinned(broker.asked.attempt, broker.inv)'
                 /\ broker.active \in {0, broker.asked.attempt}
                 /\ ~broker.asked.takes => pi.busy = 0
      <3>1. broker.asked \in Asks
        BY <2>7 DEF DispatchInv, Typed, Brokers
      <3>2. broker.inv \in Nat /\ broker.asked.attempt \in Attempts
        BY <3>1 DEF DispatchInv, Typed, Brokers, Asks
      <3>3. /\ broker.asked.attempt = broker.asked.m.attempt /\ Pinned(broker.asked.attempt, broker.inv)
            /\ broker.active \in {0, broker.asked.attempt}
            /\ ~broker.asked.takes => pi.busy = 0
        BY <2>7 DEF DispatchInv, BoxAgrees
      <3>4. Pinned(broker.asked.attempt, broker.inv)'
        BY <3>2, <3>3, <2>1 DEF Pinned
      <3> QED
        BY <3>3, <3>4
    <2>8. QED
      BY <2>2, <2>3, <2>4, <2>5, <2>6, <2>7 DEF DispatchInv, BoxAgrees, Pinned
  <1>6. EndIsShown'
    BY <1>a DEF DispatchInv, EndIsShown, Shows
  <1>7. ProjectedIsItsOwn'
    <2> SUFFICES ASSUME NEW b \in Attempts
                 PROVE  /\ \A i \in projected'[b] : journal[i].attempt = b /\ journal[i].inv = row'[b].inv
                        /\ \A i \in projected'[b] : \A j \in i..row'[b].cursor : j \in projected'[b]
      BY DEF ProjectedIsItsOwn
    <2>1. CASE b # a
      BY <2>1, <1>a, <1>b DEF DispatchInv, ProjectedIsItsOwn
    <2>2. CASE b = a
      <3>1. \A i \in shown : i \in DOMAIN journal /\ journal[i].attempt = a
        BY DEF Shows, DispatchInv, Typed
      <3>2. \A i \in shown : journal[i].inv = row'[a].inv
        BY <3>1, <1>5 DEF BoxAgrees, Pinned
      <3> QED
        BY ZenonT(30), <2>2, <3>1, <3>2, <1>a, <1>b DEF Shows
    <2>3. QED
      BY <2>1, <2>2
  <1>8. QED
    BY <1>1, <1>2, <1>3, <1>4, <1>5, <1>6, <1>7 DEF DispatchInv
-----------------------------------------------------------------------------
(* The steps of the Box: what is left to show of each.                       *)

\* The journal keeps what it has.
Grows == /\ journal' \in Seq(Records) /\ Len(journal) <= Len(journal')
         /\ \A i \in 1..Len(journal) : journal'[i] = journal[i]

LEMMA BoxMoves ==
  ASSUME DispatchInv, UNCHANGED <<row, projected>>, net' \in SUBSET net,
         exec' \in [Executors -> ExecSet], \A f \in Executors : Place(f, exec'[f]),
         broker' \in Brokers, pi' \in Pis, runs' \in [Attempts -> Nat],
         Grows, broker.inv <= broker'.inv,
         broker'.acked <= Len(journal'), broker'.asked # Nothing => broker'.asked.cursor <= Len(journal'),
         \A i \in DOMAIN broker'.ledger : broker'.ledger[i].cursor <= Len(journal'),
         BoxAgrees'
  PROVE  DispatchInv'
  <1>a. /\ Len(journal) \in Nat /\ Len(journal') \in Nat /\ DOMAIN journal = 1..Len(journal)
        /\ DOMAIN journal' = 1..Len(journal')
    BY DEF DispatchInv, Typed, Grows
  <1>b. broker.inv \in Nat /\ broker'.inv \in Nat
    BY SMTT(20) DEF DispatchInv, Typed, Brokers
  <1>c. \A a \in Attempts : row[a].cursor \in Nat /\ row[a].cursor <= Len(journal)
    BY DEF DispatchInv, Typed, RowSet, Within
  <1>1. Typed'
    BY DEF DispatchInv, Typed, Grows
  <1>2. Within'
    <2>1. \A a \in Attempts : row'[a].cursor <= Len(journal') /\ projected'[a] \subseteq 1..Len(journal')
      BY <1>a, <1>c DEF DispatchInv, Within, Grows
    <2>2. \A f \in Executors : Reaches(exec'[f])
      BY DEF Place
    <2>3. \A f \in Executors : exec'[f].tail \in Nat /\ exec'[f].through \in Nat /\ exec'[f].reply.cursor \in Nat
      BY DEF ExecSet, Replies
    <2>4. \A f \in Executors : Reaches(exec[f])'
      BY <1>a, <2>2, <2>3 DEF Reaches, Grows
    <2>5. QED
      BY <2>1, <2>4 DEF Within
  <1>3. RowsAgree'
    <2>1. \A a \in Attempts : row[a].at # "starting" => row[a].inv \in 1..broker'.inv
      <3>1. \A a \in Attempts : row[a].inv \in Nat
        <4>1. 0..MaxInv \subseteq Nat
          OBVIOUS
        <4>2. \A a \in Attempts : row[a] \in RowSet
          BY DEF DispatchInv, Typed
        <4> QED
          BY <4>1, <4>2 DEF RowSet
      <3>2. \A a \in Attempts : row[a].at # "starting" => row[a].inv \in 1..broker.inv
        BY DEF DispatchInv, RowsAgree
      <3> QED
        BY <3>1, <3>2, <1>b
    <2> QED
      BY <2>1 DEF DispatchInv, RowsAgree
  <1>4. ExecutorsAgree'
    <2>1. ASSUME NEW f \in Executors PROVE (Stands(exec[f]) /\ Knows(f, exec[f]))'
      <3>1. exec'[f] \in ExecSet /\ Stands(exec'[f]) /\ Knows(f, exec'[f]) /\ Reaches(exec'[f])
        BY DEF Place
      <3>2. Stands(exec[f])'
        BY <3>1, <1>b DEF Stands
      <3>3. Knows(f, exec[f])'
        <4> SUFFICES ASSUME exec'[f].at # "idle", row[exec'[f].attempt].owner = f,
                            exec'[f].at = "project", NEW i \in (row[exec'[f].attempt].cursor + 1)..exec'[f].through
                     PROVE  journal'[i].attempt = exec'[f].attempt
          BY <3>1 DEF Knows
        <4>1. journal[i].attempt = exec'[f].attempt
          BY <3>1 DEF Knows
        <4>2. exec'[f].through \in Nat /\ exec'[f].through <= Len(journal)
          BY <3>1 DEF Reaches, ExecSet
        <4>3. exec'[f].attempt \in Attempts
          BY <3>1 DEF Stands
        <4>4. i \in 1..Len(journal)
          BY SMTT(20), <4>2, <4>3, <1>a, <1>c
        <4> QED
          BY <4>1, <4>4 DEF Grows
      <3>4. QED
        BY <3>2, <3>3
    <2>2. OwnersWork'
      BY SMTT(20) DEF OwnersWork, Place, DispatchInv, Typed, RowSet
    <2>3. QED
      BY <2>1, <2>2 DEF ExecutorsAgree
  <1>5. EndIsShown'
    <2> SUFFICES ASSUME NEW a \in Attempts
                 PROVE  /\ row[a].at = "settled" =>
                             \E i \in 1..row[a].cursor : journal'[i].attempt = a /\ journal'[i].kind = "settled"
                        /\ row[a].at = "exited" =>
                             \E i \in 1..row[a].cursor : journal'[i].attempt = a /\ journal'[i].kind = "exit"
      BY SMTT(20) DEF EndIsShown
    <2>1. \A i \in 1..row[a].cursor : journal'[i] = journal[i]
      BY <1>a, <1>c DEF Grows
    <2>2. /\ row[a].at = "settled" => \E i \in 1..row[a].cursor : journal[i].attempt = a /\ journal[i].kind = "settled"
          /\ row[a].at = "exited" => \E i \in 1..row[a].cursor : journal[i].attempt = a /\ journal[i].kind = "exit"
      BY DEF DispatchInv, EndIsShown
    <2> QED
      BY <2>1, <2>2
  <1>6. ProjectedIsItsOwn'
    <2>1. \A a \in Attempts : \A i \in projected[a] : journal'[i] = journal[i]
      BY DEF DispatchInv, Within, Grows
    <2> QED
      BY SMTT(20), <2>1 DEF DispatchInv, ProjectedIsItsOwn
  <1>7. QED
    BY <1>1, <1>2, <1>3, <1>4, <1>5, <1>6 DEF DispatchInv

\* A record of the bound attempt, or none.
LEMMA Journals ==
  ASSUME DispatchInv, NEW kind \in {"event", "settled", "exit"}, Journaled(kind)
  PROVE  /\ Grows
         /\ \A i \in 1..Len(journal') : Pinned(journal'[i].attempt, journal'[i].inv)
         /\ \A i \in 1..Len(journal') : i \in 1..Len(journal)
              \/ /\ i = Len(journal) + 1 /\ broker.active # 0
                 /\ journal'[i] = [attempt |-> broker.active, inv |-> broker.inv, kind |-> kind]
  <1>a. journal \in Seq(Records) /\ Len(journal) \in Nat /\ DOMAIN journal = 1..Len(journal)
    BY DEF DispatchInv, Typed
  <1>b. \A i \in 1..Len(journal) : Pinned(journal[i].attempt, journal[i].inv)
    BY <1>a DEF DispatchInv, BoxAgrees
  <1>1. CASE broker.active = 0
    <2>1. journal' = journal
      BY <1>1 DEF Journaled
    <2> QED
      BY <2>1, <1>a, <1>b DEF Grows
  <1>2. CASE broker.active # 0
    <2> DEFINE new == [attempt |-> broker.active, inv |-> broker.inv, kind |-> kind]
    <2>1. new \in Records
      BY <1>2 DEF DispatchInv, Typed, Brokers, Records
    <2>2. journal' = Append(journal, new)
      BY <1>2 DEF Journaled
    <2> HIDE DEF new
    <2>3. journal' \in Seq(Records) /\ Len(journal') = Len(journal) + 1
      BY <2>1, <2>2, <1>a
    <2>4. (\A i \in 1..Len(journal) : journal'[i] = journal[i]) /\ journal'[Len(journal) + 1] = new
      BY <2>1, <2>2, <1>a
    <2>5. Pinned(new.attempt, new.inv)
      BY <1>2 DEF new, DispatchInv, BoxAgrees
    <2>6. \A i \in 1..Len(journal') : i \in 1..Len(journal) \/ i = Len(journal) + 1
      BY <2>3, <1>a
    <2>7. ASSUME NEW i \in 1..Len(journal') PROVE Pinned(journal'[i].attempt, journal'[i].inv)
      <3>1. CASE i \in 1..Len(journal)
        <4>1. journal'[i] = journal[i]
          BY <3>1, <2>4
        <4> QED
          BY <4>1, <3>1, <1>b DEF Pinned
      <3>2. CASE i = Len(journal) + 1
        <4>1. journal'[i] = new
          BY <3>2, <2>4
        <4> QED
          BY <4>1, <2>5 DEF Pinned
      <3> QED
        BY <3>1, <3>2, <2>6
    <2>8. \A i \in 1..Len(journal') : i \in 1..Len(journal) \/ (i = Len(journal) + 1 /\ journal'[i] = new)
      BY <2>4, <2>6
    <2>9. Grows
      BY <2>3, <2>4, <1>a DEF Grows
    <2> QED
      BY <2>7, <2>8, <2>9, <1>2 DEF new
  <1>3. QED
    BY <1>1, <1>2
-----------------------------------------------------------------------------
(* The executor's own steps.                                                 *)

\* What is known of an executor, field by field.
LEMMA Fields ==
  ASSUME DispatchInv, NEW e \in Executors
  PROVE  LET x == exec[e] IN
         /\ x \in ExecSet /\ Reaches(x) /\ Stands(x) /\ Knows(e, x)
         /\ x.at \in Pcs /\ x.attempt \in 0..N /\ x.inv \in 0..MaxInv /\ x.tail \in Nat /\ x.sends \in 0..MaxSends
         /\ x.reply \in Replies /\ x.through \in Nat /\ x.goal \in {"none"} \cup Terminals
         /\ x.at # "idle" => x.attempt \in Attempts
  BY DEF DispatchInv, Typed, Within, ExecutorsAgree, ExecSet, Stands

LEMMA Rows == ASSUME DispatchInv, NEW a \in Attempts
              PROVE  /\ row[a] \in RowSet /\ row[a].status \in {"queued", "active"} \cup Terminals
                     /\ row[a].at \in Ats /\ row[a].inv \in 0..MaxInv /\ row[a].cursor \in Nat
                     /\ row[a].owner \in Executors \cup {"none"} /\ row[a].cursor <= Len(journal)
                     /\ projected[a] \subseteq 1..Len(journal)
  BY DEF DispatchInv, Typed, RowSet, Within

LEMMA Owned == ASSUME DispatchInv, NEW e \in Executors, NEW a \in Attempts, row[a].owner = e
               PROVE  exec[e].at # "idle" /\ exec[e].attempt = a
  BY DEF DispatchInv, ExecutorsAgree, OwnersWork

LEMMA LosesFenceKeeps == ASSUME DispatchInv, NEW e \in Executors, LosesFence(e) PROVE DispatchInv'
  <1>1. \A a \in Attempts : row[a].owner # e
    BY Owned DEF LosesFence, Mine
  <1>2. Idle \in ExecSet /\ Reaches(Idle)
    BY Kinds0 DEF Idle, Reaches, NoReply, DispatchInv, Typed
  <1>3. Stands(Idle) /\ Knows(e, Idle)
    BY DEF Stands, Knows, Idle, Dispatching
  <1>4. Place(e, Idle)
    BY <1>1, <1>2, <1>3 DEF Place
  <1>5. Goes(e, Idle) /\ UNCHANGED <<row, projected, net, box>>
    BY DEF LosesFence
  <1> QED
    BY <1>4, <1>5, ExecutorMoves DEF DispatchInv, Typed

\* Executor e goes on with the same attempt.
LEMMA GoesOn ==
  ASSUME DispatchInv, NEW e \in Executors, exec[e].at # "idle", NEW x \in ExecSet, Reaches(x),
         x.at # "idle", x.attempt = exec[e].attempt, Stands(x), Mine(e) => Knows(e, x)
  PROVE  Place(e, x)
  <1>1. Knows(e, x)
    BY DEF Knows, Mine
  <1>2. \A a \in Attempts : row[a].owner = e => x.at # "idle" /\ x.attempt = a
    BY Owned
  <1> QED
    BY <1>1, <1>2 DEF Place

\* Executor e ends the work of its attempt.
LEMMA EndFields ==
  ASSUME DispatchInv, NEW e \in Executors, NEW goal \in Terminals, Ends(e, goal)
  PROVE  \E x \in ExecSet : /\ Goes(e, x) /\ Reaches(x) /\ x.at \in {"cleanup", "settle"}
                            /\ x.goal = goal /\ x.attempt = exec[e].attempt
  <1> DEFINE at == IF goal = "interrupted" THEN "cleanup" ELSE "settle"
             x == [exec[e] EXCEPT !.at = at, !.goal = goal]
  <1>a. exec[e] \in ExecSet /\ Reaches(exec[e])
    BY Fields
  <1>b. at \in {"cleanup", "settle"}
    OBVIOUS
  <1>c. Goes(e, x)
    BY DEF Ends
  <1> HIDE DEF at
  <1>1. /\ x.at = at /\ x.goal = goal /\ x.attempt = exec[e].attempt /\ x.tail = exec[e].tail
        /\ x.reply = exec[e].reply /\ x.through = exec[e].through
    BY <1>a DEF ExecSet
  <1>2. x \in ExecSet
    BY <1>a, <1>b DEF ExecSet, Pcs
  <1> HIDE DEF x
  <1> QED
    BY <1>a, <1>b, <1>c, <1>1, <1>2 DEF Reaches

LEMMA EndPlace ==
  ASSUME DispatchInv, NEW e \in Executors, exec[e].at # "idle", NEW goal \in Terminals, Ends(e, goal),
         Mine(e) => Ended(goal, row[exec[e].attempt].at)
  PROVE  \E x \in ExecSet : Place(e, x) /\ Goes(e, x) /\ x.at \in {"cleanup", "settle"}
  <1>1. PICK x \in ExecSet : /\ Goes(e, x) /\ Reaches(x) /\ x.at \in {"cleanup", "settle"}
                             /\ x.goal = goal /\ x.attempt = exec[e].attempt
    BY EndFields
  <1>2. Stands(x)
    BY <1>1, Fields DEF Stands, Dispatching
  <1>3. Mine(e) => Knows(e, x)
    BY <1>1 DEF Knows, Mine, Dispatching, Consuming
  <1>4. Place(e, x)
    BY <1>1, <1>2, <1>3, GoesOn
  <1> QED
    BY <1>1, <1>4

\* Executor e goes to pc, where it knows no more.
LEMMA StepPlace ==
  ASSUME DispatchInv, NEW e \in Executors, exec[e].at # "idle", NEW pc \in Pcs \ {"idle", "loop", "intent", "repair", "recheck"},
         pc \in {"prove", "send"} => exec[e].sends = 0,
         pc \in Dispatching => Pinned(exec[e].attempt, exec[e].inv),
         Mine(e) => /\ pc \in Dispatching => row[exec[e].attempt].at = "write_intent"
                    /\ pc \in Consuming => row[exec[e].attempt].at \in Accepted
                    /\ pc \notin {"project", "ack", "settle", "cleanup"}
  PROVE  Place(e, [exec[e] EXCEPT !.at = pc])
  <1> DEFINE x == [exec[e] EXCEPT !.at = pc]
  <1>a. exec[e] \in ExecSet /\ Reaches(exec[e]) /\ Stands(exec[e])
    BY Fields
  <1>1. /\ x.at = pc /\ x.goal = exec[e].goal /\ x.attempt = exec[e].attempt /\ x.inv = exec[e].inv /\ x.tail = exec[e].tail
        /\ x.sends = exec[e].sends /\ x.reply = exec[e].reply /\ x.through = exec[e].through
    BY <1>a DEF ExecSet
  <1>2. x \in ExecSet
    BY <1>a DEF ExecSet
  <1> HIDE DEF x
  <1>3. Reaches(x) /\ Stands(x)
    BY <1>a, <1>1 DEF Reaches, Stands, Pinned
  <1>4. Mine(e) => Knows(e, x)
    BY <1>1 DEF Knows, Mine
  <1>5. Place(e, x)
    BY <1>a, <1>1, <1>2, <1>3, <1>4, GoesOn
  <1> QED
    BY <1>5 DEF x

\* Executor e found the broker at rest, or not.
LEMMA LookPlace ==
  ASSUME DispatchInv, NEW e \in Executors, exec[e].at \in {"loop", "recheck"}, Mine(e),
         row[exec[e].attempt].at = "starting", NEW pc \in {"intent", "repair"},
         Goes(e, [exec[e] EXCEPT !.at = pc, !.inv = broker.inv, !.tail = TailCursor])
  PROVE  \E x \in ExecSet : Place(e, x) /\ Goes(e, x) /\ x.at = pc
  <1> DEFINE x == [exec[e] EXCEPT !.at = pc, !.inv = broker.inv, !.tail = TailCursor]
  <1>a. exec[e] \in ExecSet /\ Reaches(exec[e]) /\ Stands(exec[e])
    BY Fields
  <1>b. broker.inv \in 1..MaxInv /\ broker.inv \in 0..MaxInv /\ Len(journal) \in Nat /\ pc \in Pcs
    BY DEF DispatchInv, Typed, Brokers, Pcs
  <1>1. /\ x.at = pc /\ x.inv = broker.inv /\ x.attempt = exec[e].attempt /\ x.sends = exec[e].sends
        /\ x.tail = Len(journal) /\ x.through = exec[e].through /\ x.reply = exec[e].reply
    BY <1>a DEF ExecSet
  <1>2. x \in ExecSet
    BY <1>a, <1>b DEF ExecSet
  <1>3. Goes(e, x)
    OBVIOUS
  <1> HIDE DEF x
  <1>4. Reaches(x) /\ Stands(x)
    BY <1>a, <1>b, <1>1 DEF Reaches, Stands, Dispatching
  <1>5. Knows(e, x)
    BY <1>1 DEF Knows, Dispatching, Consuming
  <1>6. Place(e, x)
    BY <1>a, <1>1, <1>2, <1>4, <1>5, GoesOn
  <1> QED
    BY <1>1, <1>2, <1>3, <1>6

\* Executor e sent its prompt.
LEMMA SendPlace ==
  ASSUME DispatchInv, NEW e \in Executors, exec[e].at \in {"send", "resolve"}, Sent(e), exec[e].sends < MaxSends
  PROVE  /\ \E x \in ExecSet : Place(e, x) /\ Goes(e, x) /\ x.at = "await" /\ x.reply = NoReply
         /\ net' \in SUBSET Prompts /\ \A m \in net' \ net : Pinned(m.attempt, m.inv)
  <1> DEFINE x == [exec[e] EXCEPT !.at = "await", !.sends = @ + 1, !.reply = NoReply]
             m == [from |-> e, attempt |-> exec[e].attempt, inv |-> exec[e].inv, nth |-> exec[e].sends + 1]
  <1>a. exec[e] \in ExecSet /\ Reaches(exec[e]) /\ Stands(exec[e]) /\ Knows(e, exec[e])
    BY Fields
  <1>b. exec[e].sends \in Nat /\ exec[e].sends + 1 \in 1..MaxSends
    BY <1>a DEF ExecSet
  <1>c. Pinned(exec[e].attempt, exec[e].inv) /\ exec[e].attempt \in Attempts
    BY <1>a DEF Stands, Dispatching, Pinned
  <1>d. exec[e].inv \in Invocations
    BY SMTT(20), <1>c, Rows DEF Pinned, DispatchInv, RowsAgree, Typed, Brokers
  <1>1. /\ x.at = "await" /\ x.inv = exec[e].inv /\ x.attempt = exec[e].attempt /\ x.reply = NoReply
        /\ x.tail = exec[e].tail /\ x.through = exec[e].through
    BY <1>a DEF ExecSet
  <1>2. x \in ExecSet
    <2>1. /\ x.sends = exec[e].sends + 1 /\ exec[e].sends + 1 \in 0..MaxSends
      BY <1>a, <1>b DEF ExecSet
    <2> QED
      BY <1>a, <2>1, Kinds0 DEF ExecSet, Pcs
  <1>3. Goes(e, x) /\ net' = net \cup {m}
    BY DEF Sent
  <1>4. m \in Prompts
    BY <1>b, <1>c, <1>d DEF Prompts
  <1>5. Pinned(m.attempt, m.inv)
    BY <1>c
  <1> HIDE DEF x, m
  <1>6. Reaches(x) /\ Stands(x)
    BY <1>a, <1>c, <1>1 DEF Reaches, Stands, Dispatching, NoReply, Pinned, DispatchInv, Typed
  <1>7. Mine(e) => Knows(e, x)
    BY <1>a, <1>1 DEF Knows, Dispatching, Consuming, Mine
  <1>8. Place(e, x)
    BY <1>1, <1>2, <1>6, <1>7, GoesOn
  <1>9. net' \in SUBSET Prompts /\ \A n \in net' \ net : Pinned(n.attempt, n.inv)
    BY <1>3, <1>4, <1>5 DEF DispatchInv, Typed
  <1> QED
    BY <1>1, <1>2, <1>3, <1>8, <1>9

LEMMA ResumeKeeps == ASSUME DispatchInv, NEW e \in Executors, Resume(e) PROVE DispatchInv'
  <1>a. exec[e].at = "loop" /\ Mine(e) /\ UNCHANGED <<row, projected, net, box>> /\ net \in SUBSET Prompts
    BY DEF Resume, At, DispatchInv, Typed
  <1>b. exec[e].attempt \in Attempts /\ Knows(e, exec[e])
    BY <1>a, Fields
  <1>1. \E x \in ExecSet : Place(e, x) /\ Goes(e, x)
    <2>1. CASE /\ row[exec[e].attempt].at = "starting"
               /\ Goes(e, [exec[e] EXCEPT !.at = IF BrokerIdle THEN "intent" ELSE "repair",
                                          !.inv = broker.inv, !.tail = TailCursor])
      <3> DEFINE pc == IF BrokerIdle THEN "intent" ELSE "repair"
      <3>1. pc \in {"intent", "repair"}
        OBVIOUS
      <3>2. Goes(e, [exec[e] EXCEPT !.at = pc, !.inv = broker.inv, !.tail = TailCursor])
        BY <2>1
      <3> HIDE DEF pc
      <3> QED
        BY <1>a, <2>1, <3>1, <3>2, LookPlace
    <2>2. CASE row[exec[e].attempt].at = "rejected" /\ Ends(e, "failed")
      BY <1>a, <2>2, EndPlace DEF Ended, Terminals
    <2>3. CASE row[exec[e].attempt].at \in Accepted /\ Goes(e, [exec[e] EXCEPT !.at = "consume"])
      <3>1. Place(e, [exec[e] EXCEPT !.at = "consume"])
        BY <1>a, <2>3, StepPlace DEF Pcs, Dispatching, Consuming
      <3> QED
        BY <2>3, <3>1 DEF Place
    <2> QED
      BY <2>1, <2>2, <2>3 DEF Resume, Accepted
  <1> QED
    BY <1>a, <1>1, ExecutorMoves

LEMMA RecheckKeeps == ASSUME DispatchInv, NEW e \in Executors, Recheck(e) PROVE DispatchInv'
  <1>a. exec[e].at = "recheck" /\ Mine(e) /\ UNCHANGED <<row, projected, net, box>> /\ net \in SUBSET Prompts
    BY DEF Recheck, At, DispatchInv, Typed
  <1>b. row[exec[e].attempt].at = "starting"
    BY <1>a, Fields DEF Knows, Mine
  <1>1. \E x \in ExecSet : Place(e, x) /\ Goes(e, x)
    <2>1. CASE BrokerIdle
      BY <1>a, <1>b, <2>1, LookPlace DEF Recheck
    <2>2. CASE ~BrokerIdle
      BY <1>a, <1>b, <2>2, EndPlace DEF Recheck, Ended, Terminals
    <2> QED
      BY <2>1, <2>2
  <1> QED
    BY <1>a, <1>1, ExecutorMoves

LEMMA ProveKeeps == ASSUME DispatchInv, NEW e \in Executors, Prove(e) PROVE DispatchInv'
  <1>a. exec[e].at = "prove" /\ Mine(e) /\ UNCHANGED <<row, projected, net, box>> /\ net \in SUBSET Prompts
        /\ Goes(e, [exec[e] EXCEPT !.at = "send"])
    BY DEF Prove, At, DispatchInv, Typed
  <1>b. Stands(exec[e]) /\ Knows(e, exec[e])
    BY Fields
  <1>1. Place(e, [exec[e] EXCEPT !.at = "send"])
    BY <1>a, <1>b, StepPlace DEF Pcs, Dispatching, Consuming, Stands, Knows, Mine, Pinned
  <1> QED
    BY <1>a, <1>1, ExecutorMoves DEF Place

LEMMA SendKeeps == ASSUME DispatchInv, NEW e \in Executors, Send(e) PROVE DispatchInv'
  <1>a. exec[e].at = "send" /\ Sent(e) /\ UNCHANGED <<row, projected, box>>
    BY DEF Send
  <1>b. exec[e].sends < MaxSends
    BY <1>a, Fields DEF Stands
  <1> QED
    BY <1>a, <1>b, SendPlace, ExecutorMoves

LEMMA ReceiveKeeps == ASSUME DispatchInv, NEW e \in Executors, Receive(e) PROVE DispatchInv'
  <1>a. exec[e].at = "await" /\ UNCHANGED <<row, projected, net, box>> /\ net \in SUBSET Prompts
    BY DEF Receive, DispatchInv, Typed
  <1>b. Stands(exec[e]) /\ Knows(e, exec[e])
    BY Fields
  <1>1. PICK pc \in {"accept", "reject", "resolve"} : Goes(e, [exec[e] EXCEPT !.at = pc])
    BY DEF Receive
  <1>2. Place(e, [exec[e] EXCEPT !.at = pc])
    BY <1>a, <1>b, StepPlace DEF Pcs, Dispatching, Consuming, Stands, Knows, Mine, Pinned
  <1> QED
    BY <1>a, <1>1, <1>2, ExecutorMoves DEF Place

LEMMA ResolveKeeps == ASSUME DispatchInv, NEW e \in Executors, Resolve(e) PROVE DispatchInv'
  <1>a. exec[e].at = "resolve" /\ UNCHANGED <<row, projected, box>> /\ net \in SUBSET Prompts
    BY DEF Resolve, DispatchInv, Typed
  <1>b. Stands(exec[e]) /\ Knows(e, exec[e]) /\ Reaches(exec[e]) /\ exec[e] \in ExecSet
    BY Fields
  <1>1. ASSUME NEW r \in Recorded(exec[e].attempt), UNCHANGED net,
               Goes(e, [exec[e] EXCEPT !.at = "accept",
                          !.reply = [is |-> "accepted", inv |-> broker.inv, cursor |-> r.cursor]])
        PROVE  DispatchInv'
    <2> DEFINE reply == [is |-> "accepted", inv |-> broker.inv, cursor |-> r.cursor]
               x == [exec[e] EXCEPT !.at = "accept", !.reply = reply]
    <2>1. r.cursor \in Nat /\ r.cursor <= Len(journal)
      <3>1. PICK i \in DOMAIN broker.ledger : r = broker.ledger[i]
        BY <1>1 DEF Recorded
      <3>2. broker.ledger[i] \in Notes
        BY DEF DispatchInv, Typed, Brokers
      <3> QED
        BY <3>1, <3>2 DEF Notes, DispatchInv, Within
    <2>2. reply \in Replies /\ reply.cursor <= Len(journal)
      BY <2>1 DEF Replies, DispatchInv, Typed, Brokers
    <2>3. Goes(e, x)
      BY <1>1
    <2> HIDE DEF reply
    <2>4. /\ x.at = "accept" /\ x.inv = exec[e].inv /\ x.attempt = exec[e].attempt /\ x.reply = reply
          /\ x.tail = exec[e].tail /\ x.through = exec[e].through
      BY <1>b DEF ExecSet
    <2>5. x \in ExecSet
      BY <1>b, <2>2 DEF ExecSet, Pcs
    <2> HIDE DEF x
    <2>6. Reaches(x) /\ Stands(x)
      BY <1>a, <1>b, <2>2, <2>4 DEF Reaches, Stands, Dispatching
    <2>7. Mine(e) => Knows(e, x)
      BY <1>a, <1>b, <2>4 DEF Knows, Dispatching, Consuming, Mine
    <2>8. Place(e, x)
      BY <1>a, <2>4, <2>5, <2>6, <2>7, GoesOn
    <2> QED
      BY <1>a, <1>1, <2>3, <2>8, ExecutorMoves
  <1>2. CASE exec[e].sends < MaxSends /\ Sent(e)
    BY <1>a, <1>2, SendPlace, ExecutorMoves
  <1>3. CASE Goes(e, [exec[e] EXCEPT !.at = "ambiguous"]) /\ UNCHANGED net
    <2>1. Place(e, [exec[e] EXCEPT !.at = "ambiguous"])
      BY <1>a, <1>b, StepPlace DEF Pcs, Dispatching, Consuming, Stands, Knows, Mine, Pinned
    <2> QED
      BY <1>a, <1>3, <2>1, ExecutorMoves DEF Place
  <1> QED
    BY <1>1, <1>2, <1>3 DEF Resolve

\* Executor e holds a page, or goes to acknowledge one.
LEMMA PagePlace ==
  ASSUME DispatchInv, NEW e \in Executors, exec[e].at # "idle", NEW n \in Nat, n <= Len(journal), NEW pc \in {"project", "ack"},
         Goes(e, [exec[e] EXCEPT !.at = pc, !.through = n]),
         Mine(e) => LET r == row[exec[e].attempt] IN
           /\ r.at \in Accepted
           /\ pc = "project" => r.at = "accepted" /\ r.cursor < n
                                /\ \A i \in (r.cursor + 1)..n : journal[i].attempt = exec[e].attempt
           /\ pc = "ack" => n = r.cursor
  PROVE  \E x \in ExecSet : Place(e, x) /\ Goes(e, x) /\ x.at \in {"project", "ack"}
  <1> DEFINE x == [exec[e] EXCEPT !.at = pc, !.through = n]
  <1>a. exec[e] \in ExecSet /\ Reaches(exec[e]) /\ Stands(exec[e])
    BY Fields
  <1>1. /\ x.at = pc /\ x.attempt = exec[e].attempt /\ x.tail = exec[e].tail
        /\ x.reply = exec[e].reply /\ x.through = n
    BY <1>a DEF ExecSet
  <1>2. x \in ExecSet
    BY <1>a DEF ExecSet, Pcs
  <1>3. Goes(e, x)
    OBVIOUS
  <1> HIDE DEF x
  <1>4. Reaches(x) /\ Stands(x)
    BY <1>a, <1>1 DEF Reaches, Stands, Dispatching
  <1>5. Mine(e) => Knows(e, x)
    BY <1>1 DEF Knows, Dispatching, Consuming, Mine
  <1>6. Place(e, x)
    BY <1>1, <1>2, <1>4, <1>5, GoesOn
  <1> QED
    BY <1>1, <1>2, <1>3, <1>6

LEMMA ReadKeeps == ASSUME DispatchInv, NEW e \in Executors, Read(e) PROVE DispatchInv'
  <1> DEFINE a == exec[e].attempt
  <1>a. exec[e].at = "consume" /\ Mine(e) /\ UNCHANGED <<row, projected, net, box>> /\ net \in SUBSET Prompts
    BY DEF Read, At, DispatchInv, Typed
  <1>b. a \in Attempts /\ row[a].at \in Accepted
    BY <1>a, Fields DEF Knows, Mine, Consuming
  <1>c. row[a].cursor \in Nat /\ row[a].cursor <= Len(journal) /\ Len(journal) \in Nat /\ broker.acked \in Nat
    BY <1>b, Rows DEF DispatchInv, Typed, Brokers
  <1>1. \E x \in ExecSet : Place(e, x) /\ Goes(e, x)
    <2>1. CASE /\ row[a].at \in {"settled", "exited"}
               /\ Goes(e, [exec[e] EXCEPT !.at = "ack", !.through = row[a].cursor])
      BY <1>a, <1>b, <1>c, <2>1, PagePlace
    <2>2. CASE Ends(e, "interrupted")
      BY <1>a, <2>2, EndPlace DEF Ended, Terminals
    <2>3. ASSUME row[a].at \notin {"settled", "exited"}, NEW n \in Pages(row[a].cursor), Correlated(e, n),
                 n > row[a].cursor, Goes(e, [exec[e] EXCEPT !.at = AfterRead, !.through = n])
          PROVE  \E x \in ExecSet : Place(e, x) /\ Goes(e, x)
      <3>1. n \in Nat /\ n <= Len(journal)
        BY <1>c DEF Pages
      <3>2. \A i \in (row[a].cursor + 1)..n : journal[i].attempt = a
        BY <2>3 DEF Correlated
      <3>3. row[a].at = "accepted"
        BY <1>b, <2>3 DEF Accepted
      <3>4. Goes(e, [exec[e] EXCEPT !.at = "project", !.through = n]) /\ row[a].cursor < n
        BY <1>c, <2>3, <3>1 DEF AfterRead
      <3> QED
        BY <1>a, <1>b, <3>1, <3>2, <3>3, <3>4, PagePlace
    <2> QED
      BY <2>1, <2>2, <2>3 DEF Read
  <1> QED
    BY <1>a, <1>1, ExecutorMoves
-----------------------------------------------------------------------------
(* The steps that write the row of an attempt.                               *)

LEMMA AsItIs == ASSUME DispatchInv, NEW a \in Attempts
                PROVE  Pins(row[a], a) /\ Follows(row[a], a) /\ Shows(row[a], a, projected[a])
  <1>1. Pins(row[a], a) /\ Follows(row[a], a)
    BY DEF DispatchInv, RowsAgree, Pins, Follows
  <1>2. Shows(row[a], a, projected[a])
    BY DEF DispatchInv, RowsAgree, Within, EndIsShown, ProjectedIsItsOwn, Shows
  <1> QED
    BY <1>1, <1>2

LEMMA ClaimKeeps == ASSUME DispatchInv, NEW e \in Executors, Claim(e) PROVE DispatchInv'
  <1>1. PICK a \in Attempts :
          /\ row[a].status \in {"queued", "active"} /\ row[a].owner = "none"
          /\ \A b \in 1..(a - 1) : row[b].status \in Terminals
          /\ IF row[a].at \in {"write_intent", "ambiguous"}
               THEN row' = [row EXCEPT ![a].status = "interrupted", ![a].at = "ambiguous"] /\ UNCHANGED exec
               ELSE /\ row' = [row EXCEPT ![a].status = "active", ![a].owner = e]
                    /\ Goes(e, [Idle EXCEPT !.at = "loop", !.attempt = a])
    BY DEF Claim
  <1>a. exec[e].at = "idle" /\ UNCHANGED <<projected, net, box>>
    BY DEF Claim
  <1>b. row[a] \in RowSet /\ row \in [Attempts -> RowSet] /\ exec \in [Executors -> ExecSet]
        /\ projected \in [Attempts -> SUBSET Nat]
    BY DEF DispatchInv, Typed
  <1>c. projected' = [projected EXCEPT ![a] = projected[a]] /\ row[a].cursor <= TailCursor
    BY <1>a, <1>b DEF DispatchInv, Within
  <1>d. \A b \in Attempts : row[b].owner # e
    BY <1>a, Owned
  <1>e. Pins(row[a], a) /\ Follows(row[a], a) /\ Shows(row[a], a, projected[a])
    BY AsItIs
  <1>2. CASE row[a].at \in {"write_intent", "ambiguous"}
    <2> DEFINE r == [row[a] EXCEPT !.status = "interrupted", !.at = "ambiguous"]
    <2>1. r \in RowSet
      BY <1>b DEF RowSet, Ats, Terminals
    <2>2. r.status = "interrupted" /\ r.at = "ambiguous" /\ r.owner = "none" /\ r.inv = row[a].inv /\ r.cursor = row[a].cursor
      BY <1>1, <1>b DEF RowSet
    <2>3. row' = [row EXCEPT ![a] = r]
      BY <1>1, <1>2, <1>b
    <2>4. PICK x \in ExecSet : x = exec[e]
      BY <1>b
    <2>5. Goes(e, x) /\ Reaches(x) /\ x.at = "idle"
      BY <1>1, <1>2, <1>a, <1>b, <2>4, Fields DEF Goes
    <2> HIDE DEF r
    <2>6. Pins(r, a) /\ Follows(r, a)
      BY <1>1, <1>2, <1>e, <2>2 DEF Pins, Follows, Ended, Terminals
    <2>7. Shows(r, a, projected[a])
      BY <1>2, <1>e, <2>2 DEF Shows, Accepted
    <2>8. Stands(x)' /\ Knows(e, x)'
      BY <2>5 DEF Stands, Knows, Dispatching
    <2>9. \A b \in Attempts : row'[b].owner # e
      BY <1>b, <1>d, <2>2, <2>3
    <2> QED
      BY <1>1, <1>a, <1>c, <2>1, <2>2, <2>3, <2>5, <2>6, <2>7, <2>8, <2>9, RowMoves
  <1>3. CASE row[a].at \notin {"write_intent", "ambiguous"}
    <2> DEFINE r == [row[a] EXCEPT !.status = "active", !.owner = e]
               x == [Idle EXCEPT !.at = "loop", !.attempt = a]
    <2>1. r \in RowSet /\ x \in ExecSet
      <3>1. r \in RowSet
        <4>1. e \in Executors \cup {"none"} /\ "active" \in {"queued", "active"} \cup Terminals
          OBVIOUS
        <4> QED
          BY <1>b, <4>1 DEF RowSet
      <3>2. x \in ExecSet
        <4>1. Idle \in ExecSet /\ a \in 0..N /\ "loop" \in Pcs
          BY Kinds0 DEF Pcs
        <4> QED
          BY <4>1 DEF ExecSet
      <3> QED
        BY <3>1, <3>2
    <2>2. r.status = "active" /\ r.at = row[a].at /\ r.owner = e /\ r.inv = row[a].inv /\ r.cursor = row[a].cursor
      BY <1>1, <1>b DEF RowSet
    <2>3. row' = [row EXCEPT ![a] = r] /\ Goes(e, x)
      BY <1>1, <1>3, <1>b
    <2>4. x.at = "loop" /\ x.attempt = a /\ x.sends = 0 /\ x.tail = 0 /\ x.through = 0 /\ x.reply.cursor = 0
      BY DEF Idle, NoReply
    <2> HIDE DEF r, x
    <2>5. Pins(r, a) /\ Follows(r, a)
      BY <1>1, <1>e, <2>2 DEF Pins, Follows, Ended, Terminals
    <2>6. Shows(r, a, projected[a])
      BY <1>e, <2>2 DEF Shows, Accepted
    <2>7. row'[a] = r /\ \A b \in Attempts \ {a} : row'[b] = row[b]
      BY <1>b, <2>3
    <2>8. Stands(x)' /\ Knows(e, x)' /\ Reaches(x)
      BY <1>3, <2>2, <2>4, <2>7 DEF Stands, Knows, Dispatching, Consuming, Reaches, DispatchInv, Typed
    <2>9. \A b \in Attempts : row'[b].owner = e => x.at # "idle" /\ x.attempt = b
      BY <1>d, <2>4, <2>7
    <2> QED
      BY <1>1, <1>a, <1>c, <2>1, <2>2, <2>3, <2>5, <2>6, <2>8, <2>9, RowMoves
  <1> QED
    BY <1>2, <1>3

LEMMA ExpireKeeps == ASSUME DispatchInv, Expire PROVE DispatchInv'
  <1>1. PICK a \in Attempts : row[a].owner # "none" /\ row' = [row EXCEPT ![a].owner = "none"]
    BY DEF Expire
  <1>a. UNCHANGED <<projected, exec, net, box>>
    BY DEF Expire
  <1>b. row[a] \in RowSet /\ row \in [Attempts -> RowSet] /\ exec \in [Executors -> ExecSet]
        /\ projected \in [Attempts -> SUBSET Nat]
    BY DEF DispatchInv, Typed
  <1>c. projected' = [projected EXCEPT ![a] = projected[a]] /\ row[a].cursor <= TailCursor
    BY <1>a, <1>b DEF DispatchInv, Within
  <1>2. PICK e \in Executors : row[a].owner = e
    BY <1>1, <1>b DEF RowSet
  <1>3. PICK x \in ExecSet : x = exec[e]
    BY <1>b
  <1>d. Pins(row[a], a) /\ Follows(row[a], a) /\ Shows(row[a], a, projected[a])
    BY AsItIs
  <1> DEFINE r == [row[a] EXCEPT !.owner = "none"]
  <1>4. r \in RowSet
    BY <1>b DEF RowSet
  <1>5. r.status = row[a].status /\ r.at = row[a].at /\ r.owner = "none" /\ r.inv = row[a].inv /\ r.cursor = row[a].cursor
    BY <1>b DEF RowSet
  <1>6. row' = [row EXCEPT ![a] = r] /\ Goes(e, x)
    BY <1>1, <1>3, <1>a, <1>b DEF Goes
  <1>7. x.at # "idle" /\ x.attempt = a /\ Reaches(x) /\ Stands(x)
    BY <1>2, <1>3, Owned, Fields
  <1> HIDE DEF r
  <1>8. Pins(r, a) /\ Follows(r, a)
    BY <1>d, <1>5 DEF Pins, Follows
  <1>9. Shows(r, a, projected[a])
    BY <1>d, <1>5 DEF Shows
  <1>10. row'[a] = r /\ \A b \in Attempts \ {a} : row'[b] = row[b]
    BY <1>b, <1>6
  <1>11. Stands(x)'
    BY <1>5, <1>7, <1>10, <1>a DEF Stands, box
  <1>12. Knows(e, x)'
    BY <1>5, <1>7, <1>10 DEF Knows
  <1>13. \A b \in Attempts : row'[b].owner # e
    BY <1>3, <1>5, <1>7, <1>10, Owned
  <1> QED
    BY ZenonT(30), <1>a, <1>c, <1>2, <1>4, <1>5, <1>6, <1>7, <1>8, <1>9, <1>11, <1>12, <1>13, RowMoves

\* Executor e writes the row of its attempt a and goes on with it.
LEMMA WriterMoves ==
  ASSUME DispatchInv, NEW e \in Executors, exec[e].at # "idle", Mine(e), NEW a, a = exec[e].attempt,
         NEW r \in RowSet, NEW x \in ExecSet, NEW shown,
         row' = [row EXCEPT ![a] = r], Goes(e, x), projected' = [projected EXCEPT ![a] = shown],
         UNCHANGED <<net, box>>, r.owner = e, r.status = row[a].status, r.cursor <= TailCursor,
         Pins(r, a), Ended(r.status, r.at), Shows(r, a, shown),
         Reaches(x), Stands(x)', Knows(e, x)', x.at # "idle", x.attempt = a
  PROVE  DispatchInv'
  <1>1. a \in Attempts /\ row[a].owner = e
    BY Fields DEF Mine
  <1>2. row[a].status = "active"
    BY <1>1 DEF DispatchInv, RowsAgree
  <1>3. Follows(r, a)
    BY <1>1, <1>2, AsItIs DEF Follows, Terminals
  <1>4. \A b \in Attempts : row'[b].owner = e => b = a
    BY <1>1, Owned DEF DispatchInv, Typed
  <1> QED
    BY <1>1, <1>3, <1>4, RowMoves

LEMMA WriteIntentKeeps == ASSUME DispatchInv, NEW e \in Executors, WriteIntent(e) PROVE DispatchInv'
  <1> DEFINE a == exec[e].attempt
             r == [row[a] EXCEPT !.at = "write_intent", !.inv = exec[e].inv]
  <1>a. exec[e].at = "intent" /\ Mine(e) /\ UNCHANGED <<projected, net, box>>
    BY DEF WriteIntent, At
  <1>b. /\ exec[e] \in ExecSet /\ Reaches(exec[e]) /\ Stands(exec[e]) /\ Knows(e, exec[e]) /\ a \in Attempts
        /\ exec[e].inv \in 0..MaxInv
    BY <1>a, Fields
  <1>c. row[a] \in RowSet /\ row \in [Attempts -> RowSet] /\ projected \in [Attempts -> SUBSET Nat]
    BY <1>b DEF DispatchInv, Typed
  <1>d. row[a].at = "starting" /\ row[a].owner = e /\ exec[e].inv \in 1..broker.inv /\ exec[e].sends = 0
    BY <1>a, <1>b DEF Knows, Mine, Stands
  <1>e. Follows(row[a], a) /\ Shows(row[a], a, projected[a]) /\ row[a].cursor <= TailCursor
    BY <1>b, AsItIs, Rows
  <1>1. r \in RowSet
    BY <1>b, <1>c DEF RowSet, Ats
  <1>x. [exec[e] EXCEPT !.at = "prove"] \in ExecSet
    BY <1>b DEF ExecSet, Pcs
  <1>y. PICK x \in ExecSet : x = [exec[e] EXCEPT !.at = "prove"]
    BY <1>x
  <1>2. /\ r.at = "write_intent" /\ r.inv = exec[e].inv /\ r.status = row[a].status /\ r.owner = e
        /\ r.cursor = row[a].cursor
    BY <1>c, <1>d DEF RowSet
  <1>3. /\ x.at = "prove" /\ x.attempt = a /\ x.inv = exec[e].inv /\ x.sends = 0 /\ x.tail = exec[e].tail
        /\ x.through = exec[e].through /\ x.reply = exec[e].reply
    BY <1>b, <1>d, <1>y DEF ExecSet
  <1>4. row' = [row EXCEPT ![a] = r]
    BY <1>b, <1>c DEF WriteIntent
  <1>5. Goes(e, x)
    BY <1>y DEF WriteIntent
  <1> HIDE DEF r
  <1>6. Pins(r, a)
    BY <1>d, <1>2 DEF Pins
  <1>7. row[a].status = "active"
    BY <1>b, <1>d DEF DispatchInv, RowsAgree
  <1>8. Ended(r.status, r.at) /\ Shows(r, a, projected[a])
    <2>1. row[a].at \notin Accepted /\ r.at \notin Accepted
      BY <1>d, <1>2 DEF Accepted
    <2>2. Shows(r, a, projected[a])
      BY <1>e, <1>2, <2>1 DEF Shows, Accepted
    <2> QED
      BY <1>2, <1>7, <2>2 DEF Ended
  <1>9. row'[a] = r
    BY <1>b, <1>c, <1>4
  <1>10. Reaches(x) /\ Stands(x)' /\ Knows(e, x)'
    BY <1>b, <1>2, <1>3, <1>9 DEF Reaches, Stands, Knows, Dispatching, Consuming
  <1>11. projected' = [projected EXCEPT ![a] = projected[a]]
    BY <1>a, <1>c
  <1> QED
    BY <1>a, <1>e, <1>1, <1>2, <1>3, <1>4, <1>5, <1>6, <1>8, <1>10, <1>11, WriterMoves

LEMMA AcceptKeeps == ASSUME DispatchInv, NEW e \in Executors, Accept(e) PROVE DispatchInv'
  <1> DEFINE a == exec[e].attempt
             c == exec[e].reply.cursor
             r == [row[a] EXCEPT !.at = "accepted", !.cursor = c]
  <1>a. exec[e].at = "accept" /\ Mine(e) /\ UNCHANGED <<projected, net, box>> /\ net \in SUBSET Prompts
    BY DEF Accept, At, DispatchInv, Typed
  <1>b. /\ exec[e] \in ExecSet /\ Reaches(exec[e]) /\ Stands(exec[e]) /\ Knows(e, exec[e]) /\ a \in Attempts
        /\ c \in Nat /\ c <= TailCursor
    BY <1>a, Fields DEF Reaches, Replies
  <1>c. row[a] \in RowSet /\ row \in [Attempts -> RowSet] /\ projected \in [Attempts -> SUBSET Nat]
    BY <1>b DEF DispatchInv, Typed
  <1>d. row[a].at = "write_intent" /\ row[a].owner = e /\ Pinned(a, exec[e].inv)
    BY <1>a, <1>b DEF Knows, Mine, Stands, Dispatching, Pinned
  <1>1. CASE Goes(e, [exec[e] EXCEPT !.at = "ambiguous"]) /\ UNCHANGED row
    <2>1. Place(e, [exec[e] EXCEPT !.at = "ambiguous"])
      BY <1>a, <1>d, StepPlace DEF Pcs, Dispatching, Consuming
    <2> QED
      BY <1>a, <1>1, <2>1, ExecutorMoves DEF Place
  <1>2. CASE /\ row' = [row EXCEPT ![a].at = "accepted", ![a].cursor = c]
             /\ Goes(e, [exec[e] EXCEPT !.at = "consume"])
    <2>e. Pins(row[a], a) /\ Shows(row[a], a, projected[a])
      BY <1>b, AsItIs
    <2>1. r \in RowSet
      BY <1>b, <1>c DEF RowSet, Ats
    <2>x. [exec[e] EXCEPT !.at = "consume"] \in ExecSet
      BY <1>b DEF ExecSet, Pcs
    <2>y. PICK x \in ExecSet : x = [exec[e] EXCEPT !.at = "consume"]
      BY <2>x
    <2>2. /\ r.at = "accepted" /\ r.inv = row[a].inv /\ r.status = row[a].status /\ r.owner = e /\ r.cursor = c
      BY <1>c, <1>d DEF RowSet
    <2>3. /\ x.at = "consume" /\ x.attempt = a /\ x.inv = exec[e].inv /\ x.tail = exec[e].tail
          /\ x.through = exec[e].through /\ x.reply = exec[e].reply
      BY <1>b, <2>y DEF ExecSet
    <2>4. row' = [row EXCEPT ![a] = r]
      BY <1>2, <1>b, <1>c
    <2>5. Goes(e, x)
      BY <1>2, <2>y
    <2> HIDE DEF r
    <2>6. Pins(r, a)
      BY <1>d, <2>e, <2>2 DEF Pins
    <2>7. row[a].status = "active"
      BY <1>b, <1>d DEF DispatchInv, RowsAgree
    <2>8. Ended(r.status, r.at) /\ Shows(r, a, projected[a])
      BY <1>d, <2>e, <2>2, <2>7 DEF Ended, Shows, Accepted
    <2>9. row'[a] = r
      BY <1>b, <1>c, <2>4
    <2>10. Reaches(x) /\ Stands(x)' /\ Knows(e, x)'
      BY <1>b, <2>2, <2>3, <2>9 DEF Reaches, Stands, Knows, Dispatching, Consuming, Accepted
    <2>11. projected' = [projected EXCEPT ![a] = projected[a]]
      BY <1>a, <1>c
    <2> QED
      BY <1>a, <1>b, <2>1, <2>2, <2>3, <2>4, <2>5, <2>6, <2>8, <2>10, <2>11, WriterMoves
  <1> QED
    BY <1>1, <1>2 DEF Accept

LEMMA CloseDispatchKeeps == ASSUME DispatchInv, NEW e \in Executors, CloseDispatch(e) PROVE DispatchInv'
  <1> DEFINE a == exec[e].attempt
  <1>1. PICK pc \in {"rejected", "ambiguous"}, goal \in {"failed", "interrupted"} :
          /\ goal = "failed" => pc = "rejected"
          /\ At(e, "reject") \/ At(e, "ambiguous")
          /\ row' = [row EXCEPT ![a].at = pc] /\ Ends(e, goal)
    BY DEF CloseDispatch
  <1>a. exec[e].at \in {"reject", "ambiguous"} /\ Mine(e) /\ UNCHANGED <<projected, net, box>>
    BY <1>1 DEF CloseDispatch, At
  <1>b. Knows(e, exec[e]) /\ Stands(exec[e]) /\ a \in Attempts
    BY <1>a, Fields
  <1>c. row[a] \in RowSet /\ row \in [Attempts -> RowSet] /\ projected \in [Attempts -> SUBSET Nat]
    BY <1>b DEF DispatchInv, Typed
  <1>d. row[a].at = "write_intent" /\ row[a].owner = e
    BY <1>a, <1>b DEF Knows, Mine, Dispatching
  <1>e. Pins(row[a], a) /\ Shows(row[a], a, projected[a]) /\ row[a].cursor <= TailCursor
    BY <1>b, AsItIs, Rows
  <1> DEFINE r == [row[a] EXCEPT !.at = pc]
  <1>2. r \in RowSet
    BY <1>c DEF RowSet, Ats
  <1>3. r.at = pc /\ r.inv = row[a].inv /\ r.status = row[a].status /\ r.owner = e /\ r.cursor = row[a].cursor
    BY <1>c, <1>d DEF RowSet
  <1>4. row' = [row EXCEPT ![a] = r]
    BY <1>1, <1>b, <1>c
  <1> HIDE DEF r
  <1>5. PICK x \in ExecSet : /\ Goes(e, x) /\ Reaches(x) /\ x.at \in {"cleanup", "settle"}
                             /\ x.goal = goal /\ x.attempt = a
    BY <1>1, EndFields DEF Terminals
  <1>6. Pins(r, a)
    BY <1>d, <1>e, <1>3 DEF Pins
  <1>7. row[a].status = "active"
    BY <1>b, <1>d DEF DispatchInv, RowsAgree
  <1>8. Ended(r.status, r.at) /\ Shows(r, a, projected[a])
    <2>1. row[a].at \notin Accepted /\ r.at \notin Accepted
      BY <1>d, <1>3 DEF Accepted
    <2>2. Shows(r, a, projected[a])
      BY <1>e, <1>3, <2>1 DEF Shows, Accepted
    <2> QED
      BY <1>3, <1>7, <2>2 DEF Ended
  <1>9. row'[a] = r
    BY <1>b, <1>c, <1>4
  <1>10. Stands(x)'
    BY <1>b, <1>5 DEF Stands, Dispatching
  <1>11. Knows(e, x)'
    BY <1>1, <1>3, <1>5, <1>9 DEF Knows, Dispatching, Consuming, Ended, Terminals
  <1>12. projected' = [projected EXCEPT ![a] = projected[a]]
    BY <1>a, <1>c
  <1> QED
    BY <1>a, <1>e, <1>2, <1>3, <1>4, <1>5, <1>6, <1>8, <1>10, <1>11, <1>12, WriterMoves

LEMMA SettleKeeps == ASSUME DispatchInv, NEW e \in Executors, Settle(e) PROVE DispatchInv'
  <1> DEFINE a == exec[e].attempt
             goal == exec[e].goal
             r == [row[a] EXCEPT !.status = goal, !.owner = "none"]
  <1>a. exec[e].at = "settle" /\ Mine(e) /\ Goes(e, Idle) /\ UNCHANGED <<projected, net, box>>
    BY DEF Settle, At
  <1>b. Knows(e, exec[e]) /\ a \in Attempts
    BY <1>a, Fields
  <1>c. row[a] \in RowSet /\ row \in [Attempts -> RowSet] /\ projected \in [Attempts -> SUBSET Nat]
    BY <1>b DEF DispatchInv, Typed
  <1>d. row[a].owner = e /\ goal \in Terminals /\ Ended(goal, row[a].at)
    BY <1>a, <1>b DEF Knows, Mine
  <1>e. Pins(row[a], a) /\ Follows(row[a], a) /\ Shows(row[a], a, projected[a]) /\ row[a].cursor <= TailCursor
    BY <1>b, AsItIs, Rows
  <1>1. r \in RowSet
    BY <1>c, <1>d DEF RowSet
  <1>2. r.at = row[a].at /\ r.inv = row[a].inv /\ r.status = goal /\ r.owner = "none" /\ r.cursor = row[a].cursor
    BY <1>c DEF RowSet
  <1>3. row' = [row EXCEPT ![a] = r]
    BY <1>b, <1>c DEF Settle
  <1> HIDE DEF r
  <1>4. Pins(r, a)
    BY <1>e, <1>2 DEF Pins
  <1>5. row[a].status = "active"
    BY <1>b, <1>d DEF DispatchInv, RowsAgree
  <1>6. Follows(r, a)
    BY <1>d, <1>e, <1>2, <1>5 DEF Follows, Terminals
  <1>7. Shows(r, a, projected[a])
    BY <1>e, <1>2 DEF Shows
  <1>8. Idle \in ExecSet /\ Reaches(Idle)
    BY Kinds0 DEF Idle, NoReply, Reaches, DispatchInv, Typed
  <1>9. Stands(Idle)' /\ Knows(e, Idle)'
    BY DEF Idle, Stands, Knows, Dispatching
  <1>10. \A b \in Attempts : row'[b].owner # e
    BY <1>b, <1>c, <1>2, <1>3, Owned
  <1>11. projected' = [projected EXCEPT ![a] = projected[a]]
    BY <1>a, <1>c
  <1> QED
    BY <1>a, <1>b, <1>d, <1>e, <1>1, <1>2, <1>3, <1>4, <1>6, <1>7, <1>8, <1>9, <1>10, <1>11, RowMoves

LEMMA ProjectKeeps == ASSUME DispatchInv, NEW e \in Executors, Project(e) PROVE DispatchInv'
  <1> DEFINE a == exec[e].attempt
             n == exec[e].through
             c == row[a].cursor
             at == IF "settled" \in Kinds(c, n) THEN "settled" ELSE IF "exit" \in Kinds(c, n) THEN "exited" ELSE "accepted"
             r == [row[a] EXCEPT !.cursor = n, !.at = at]
             shown == projected[a] \cup (c + 1)..n
  <1>a. exec[e].at = "project" /\ Mine(e) /\ UNCHANGED <<net, box>> /\ Goes(e, [exec[e] EXCEPT !.at = "ack"])
    BY DEF Project, At
  <1>b. Knows(e, exec[e]) /\ Stands(exec[e]) /\ Reaches(exec[e]) /\ a \in Attempts /\ exec[e] \in ExecSet /\ n \in Nat
    BY <1>a, Fields
  <1>c. row[a] \in RowSet /\ row \in [Attempts -> RowSet] /\ projected \in [Attempts -> SUBSET Nat]
    BY <1>b DEF DispatchInv, Typed
  <1>d. /\ row[a].at = "accepted" /\ row[a].owner = e /\ c < n /\ c \in Nat
        /\ \A i \in (c + 1)..n : journal[i].attempt = a
    BY <1>a, <1>b, <1>c DEF Knows, Mine, RowSet
  <1>e. Pins(row[a], a) /\ Shows(row[a], a, projected[a]) /\ n <= TailCursor
    BY <1>b, AsItIs DEF Reaches
  <1>f. at \in Accepted
    BY DEF Accepted
  <1>g. /\ at = "settled" => \E i \in (c + 1)..n : journal[i].kind = "settled"
        /\ at = "exited" => \E i \in (c + 1)..n : journal[i].kind = "exit"
    BY DEF Kinds
  <1>3. row' = [row EXCEPT ![a] = r]
    <2>1. row' = [row EXCEPT ![a].cursor = n, ![a].at = at]
      BY DEF Project
    <2> HIDE DEF at
    <2> QED
      BY <1>b, <1>c, <2>1
  <1>4. projected' = [projected EXCEPT ![a] = shown]
    BY <1>b, <1>c DEF Project
  <1> HIDE DEF at
  <1>1. r \in RowSet
    BY <1>b, <1>c, <1>f DEF RowSet, Ats, Accepted
  <1>2. r.at = at /\ r.inv = row[a].inv /\ r.status = row[a].status /\ r.owner = e /\ r.cursor = n
    BY <1>c, <1>d DEF RowSet
  <1>x. [exec[e] EXCEPT !.at = "ack"] \in ExecSet
    BY <1>b DEF ExecSet, Pcs
  <1>y. PICK x \in ExecSet : x = [exec[e] EXCEPT !.at = "ack"]
    BY <1>x
  <1>5. x.at = "ack" /\ x.attempt = a /\ x.through = n /\ x.tail = exec[e].tail /\ x.reply = exec[e].reply
    BY <1>b, <1>y DEF ExecSet
  <1> HIDE DEF r
  <1>6. Pins(r, a)
    BY <1>d, <1>e, <1>f, <1>2 DEF Pins, Accepted
  <1>7. row[a].status = "active"
    BY <1>b, <1>d DEF DispatchInv, RowsAgree
  <1>8. Ended(r.status, r.at)
    BY <1>2, <1>7 DEF Ended
  <1>9. Shows(r, a, shown)
    <2>1. shown \subseteq 1..TailCursor
      BY <1>b, <1>d, <1>e DEF Shows, DispatchInv, Typed
    <2>2. ASSUME NEW i \in shown PROVE journal[i].attempt = a /\ \A j \in i..n : j \in shown
      <3>1. i \in Nat
        BY <1>b, <1>c, <1>d
      <3>2. journal[i].attempt = a
        BY <1>d, <1>e DEF Shows
      <3>3. ASSUME NEW j \in i..n PROVE j \in shown
        <4>1. CASE j <= c
          BY <3>1, <1>d, <1>e, <4>1 DEF Shows
        <4>2. CASE j > c
          BY <3>1, <1>b, <1>d, <4>2
        <4> QED
          BY <3>1, <1>b, <1>d, <4>1, <4>2
      <3> QED
        BY <3>2, <3>3
    <2>3. /\ r.at = "settled" => \E i \in 1..n : journal[i].attempt = a /\ journal[i].kind = "settled"
          /\ r.at = "exited" => \E i \in 1..n : journal[i].attempt = a /\ journal[i].kind = "exit"
      <3>1. \A i \in (c + 1)..n : i \in 1..n
        BY <1>b, <1>d
      <3> QED
        BY <3>1, <1>d, <1>g, <1>2
    <2>4. r.at \in Accepted
      BY <1>f, <1>2
    <2> HIDE DEF shown
    <2> QED
      BY <2>1, <2>2, <2>3, <2>4, <1>2 DEF Shows
  <1>10. row'[a] = r
    BY <1>b, <1>c, <1>3
  <1>11. Reaches(x) /\ Stands(x)' /\ Knows(e, x)'
    BY <1>b, <1>f, <1>2, <1>5, <1>10 DEF Reaches, Stands, Knows, Dispatching, Consuming
  <1>12. Goes(e, x)
    BY <1>a, <1>y
  <1> HIDE DEF shown
  <1> QED
    BY <1>a, <1>e, <1>1, <1>2, <1>3, <1>4, <1>5, <1>6, <1>8, <1>9, <1>11, <1>12, WriterMoves
-----------------------------------------------------------------------------
(* The steps of the Box.                                                     *)

\* What is known of the broker and of Pi, field by field.
LEMMA BoxFields ==
  ASSUME DispatchInv
  PROVE  /\ broker \in Brokers /\ broker.inv \in Invocations /\ broker.active \in 0..N /\ broker.ledger \in Seq(Notes)
         /\ broker.acked \in Nat /\ broker.asked \in Asks \cup {Nothing} /\ broker.acked <= Len(journal)
         /\ broker.asked # Nothing => broker.asked \in Asks /\ broker.asked.cursor <= Len(journal)
         /\ \A i \in DOMAIN broker.ledger : broker.ledger[i] \in Notes /\ broker.ledger[i].cursor <= Len(journal)
         /\ pi \in Pis /\ runs \in [Attempts -> Nat] /\ Len(journal) \in Nat /\ journal \in Seq(Records)
         /\ DOMAIN journal = 1..Len(journal) /\ net \in SUBSET Prompts /\ exec \in [Executors -> ExecSet]
  <1>1. /\ broker \in Brokers /\ journal \in Seq(Records) /\ net \in SUBSET Prompts /\ exec \in [Executors -> ExecSet]
        /\ pi \in Pis /\ runs \in [Attempts -> Nat]
    BY DEF DispatchInv, Typed
  <1>2. /\ broker.inv \in Invocations /\ broker.active \in 0..N /\ broker.ledger \in Seq(Notes)
        /\ broker.acked \in Nat /\ broker.asked \in Asks \cup {Nothing}
    BY <1>1 DEF Brokers
  <1>3. \A i \in DOMAIN broker.ledger : broker.ledger[i] \in Notes
    BY <1>2
  <1>4. Len(journal) \in Nat /\ DOMAIN journal = 1..Len(journal)
    BY <1>1
  <1>5. /\ broker.acked <= Len(journal)
        /\ broker.asked # Nothing => broker.asked.cursor <= Len(journal)
        /\ \A i \in DOMAIN broker.ledger : broker.ledger[i].cursor <= Len(journal)
    BY DEF DispatchInv, Within
  <1> QED
    BY <1>1, <1>2, <1>3, <1>4, <1>5

LEMMA StillGrows == ASSUME DispatchInv, journal' = journal PROVE Grows
  BY BoxFields DEF Grows

LEMMA AllStay == ASSUME DispatchInv, exec' = exec
                 PROVE  exec' \in [Executors -> ExecSet] /\ \A f \in Executors : Place(f, exec'[f])
  BY Places, BoxFields

LEMMA OneGoes == ASSUME DispatchInv, NEW e \in Executors, NEW x, Place(e, x), Goes(e, x)
                 PROVE  exec' \in [Executors -> ExecSet] /\ \A f \in Executors : Place(f, exec'[f])
  <1>1. exec' \in [Executors -> ExecSet] /\ exec'[e] = x /\ \A f \in Executors \ {e} : exec'[f] = exec[f]
    BY BoxFields DEF Goes, Place
  <1> QED
    BY <1>1, Places

\* The answer of a command changes the reply of one executor, if any.
LEMMA Answers ==
  ASSUME DispatchInv, NEW m \in Prompts, NEW is \in {"accepted", "refused", "ambiguous"}, NEW c \in Nat, c <= Len(journal),
         Answered(m, is, c)
  PROVE  /\ exec' \in [Executors -> ExecSet] /\ \A f \in Executors : Place(f, exec'[f])
         /\ \A f \in Executors :
              /\ exec'[f].at = exec[f].at /\ exec'[f].attempt = exec[f].attempt
              /\ \/ exec'[f] = exec[f]
                 \/ exec[f].at = "await" /\ exec[f].attempt = m.attempt /\ exec'[f].reply.is = is /\ exec'[f].reply.cursor = c
  <1> DEFINE e == m.from
             reply == [is |-> is, inv |-> broker.inv, cursor |-> c]
             x == [exec[e] EXCEPT !.reply = reply]
  <1>a. e \in Executors /\ m.attempt \in Attempts
    BY DEF Prompts
  <1>1. CASE exec' = exec
    BY <1>1, AllStay
  <1>2. CASE /\ exec' = [exec EXCEPT ![m.from].reply = [is |-> is, inv |-> broker.inv, cursor |-> c]]
             /\ exec[e].at = "await" /\ exec[e].attempt = m.attempt
    <2>1. /\ exec[e] \in ExecSet /\ Reaches(exec[e]) /\ Stands(exec[e]) /\ Knows(e, exec[e])
      BY <1>a, Fields
    <2>2. reply \in Replies
      <3>1. broker.inv \in 0..MaxInv
        BY BoxFields
      <3> QED
        BY <3>1 DEF Replies
    <2>3. reply.is = is /\ reply.cursor = c
      OBVIOUS
    <2>4. exec' = [exec EXCEPT ![e] = x]
      BY <1>2, <1>a, BoxFields
    <2> HIDE DEF reply
    <2>5. /\ x.at = exec[e].at /\ x.goal = exec[e].goal /\ x.attempt = exec[e].attempt /\ x.inv = exec[e].inv
          /\ x.tail = exec[e].tail /\ x.sends = exec[e].sends /\ x.reply = reply /\ x.through = exec[e].through
      BY <2>1 DEF ExecSet
    <2>6. x \in ExecSet
      BY <2>1, <2>2 DEF ExecSet
    <2> HIDE DEF x
    <2>7. Reaches(x) /\ Stands(x) /\ Knows(e, x)
      BY <2>1, <2>3, <2>5 DEF Reaches, Stands, Knows
    <2>8. Place(e, x)
      BY <1>2, <1>a, <2>5, <2>6, <2>7, GoesOn
    <2>9. exec'[e] = x /\ \A f \in Executors \ {e} : exec'[f] = exec[f]
      BY <1>a, <2>4, BoxFields
    <2>10. Goes(e, x)
      BY <2>4 DEF Goes
    <2> QED
      BY <1>2, <1>a, <2>3, <2>5, <2>8, <2>9, <2>10, OneGoes
  <1> QED
    BY <1>1, <1>2 DEF Answered

LEMMA LosesMessageKeeps == ASSUME DispatchInv, NEW m \in net, LosesMessage(m) PROVE DispatchInv'
  <1>1. UNCHANGED <<row, projected, exec, broker, journal, pi, runs>> /\ net' \in SUBSET net
    BY DEF LosesMessage, box
  <1>2. BoxAgrees'
    BY <1>1 DEF DispatchInv, BoxAgrees, Pinned
  <1> QED
    BY <1>1, <1>2, AllStay, StillGrows, BoxFields, BoxMoves

LEMMA CleanupKeeps == ASSUME DispatchInv, NEW e \in Executors, Cleanup(e) PROVE DispatchInv'
  <1>a. /\ exec[e].at = "cleanup" /\ Goes(e, [exec[e] EXCEPT !.at = "settle"])
        /\ UNCHANGED <<row, projected, net, journal, pi, runs>> /\ broker' \in {broker, [broker EXCEPT !.active = 0]}
    BY DEF Cleanup
  <1>b. broker.asked = Nothing
    BY DEF Cleanup, Free
  <1>c. exec[e] \in ExecSet /\ Reaches(exec[e]) /\ Stands(exec[e]) /\ Knows(e, exec[e])
    BY Fields
  <1>1. \E x \in ExecSet : Place(e, x) /\ Goes(e, x)
    <2> DEFINE x == [exec[e] EXCEPT !.at = "settle"]
    <2>1. /\ x.at = "settle" /\ x.goal = exec[e].goal /\ x.attempt = exec[e].attempt /\ x.tail = exec[e].tail
          /\ x.reply = exec[e].reply /\ x.through = exec[e].through
      BY <1>c DEF ExecSet
    <2>2. x \in ExecSet
      BY <1>c DEF ExecSet, Pcs
    <2>3. Goes(e, x)
      BY <1>a
    <2> HIDE DEF x
    <2>4. Reaches(x) /\ Stands(x)
      BY <1>a, <1>c, <2>1 DEF Reaches, Stands, Dispatching
    <2>5. Knows(e, x)
      BY <1>a, <1>c, <2>1 DEF Knows, Dispatching, Consuming
    <2> QED
      BY <1>a, <2>1, <2>2, <2>3, <2>4, <2>5, GoesOn
  <1>2. /\ broker' \in Brokers /\ broker'.inv = broker.inv /\ broker'.ledger = broker.ledger
        /\ broker'.acked = broker.acked /\ broker'.asked = broker.asked /\ broker'.active \in {0, broker.active}
    BY <1>a, BoxFields DEF Brokers
  <1>3. BoxAgrees'
    BY <1>a, <1>b, <1>2 DEF DispatchInv, BoxAgrees, Pinned
  <1>4. exec' \in [Executors -> ExecSet] /\ \A f \in Executors : Place(f, exec'[f])
    BY <1>1, OneGoes
  <1> QED
    BY <1>a, <1>2, <1>3, <1>4, StillGrows, BoxFields, BoxMoves

LEMMA AckKeeps == ASSUME DispatchInv, NEW e \in Executors, Ack(e) PROVE DispatchInv'
  <1> DEFINE a == exec[e].attempt
  <1>a. /\ exec[e].at = "ack" /\ Mine(e) /\ UNCHANGED <<row, projected, net, journal, pi, runs>>
        /\ broker' = [broker EXCEPT !.acked = IF exec[e].through > @ THEN exec[e].through ELSE @]
    BY DEF Ack, At
  <1>b. /\ exec[e] \in ExecSet /\ Knows(e, exec[e]) /\ a \in Attempts /\ exec[e].through \in Nat
        /\ exec[e].through <= Len(journal)
    BY <1>a, Fields DEF Reaches
  <1>c. row[a].at \in Accepted
    BY <1>a, <1>b DEF Knows, Mine, Consuming
  <1>1. \E x \in ExecSet : Place(e, x) /\ Goes(e, x)
    <2>1. CASE row[a].at = "settled" /\ Ends(e, "succeeded")
      BY <1>a, <2>1, EndPlace DEF Ended, Terminals
    <2>2. CASE row[a].at = "exited" /\ Ends(e, "failed")
      BY <1>a, <2>2, EndPlace DEF Ended, Terminals
    <2>3. CASE Goes(e, [exec[e] EXCEPT !.at = "consume"])
      <3>1. Place(e, [exec[e] EXCEPT !.at = "consume"])
        BY <1>a, <1>c, StepPlace DEF Pcs, Dispatching, Consuming
      <3> QED
        BY <2>3, <3>1 DEF Place
    <2> QED
      BY <2>1, <2>2, <2>3 DEF Ack
  <1>2. /\ broker' \in Brokers /\ broker'.inv = broker.inv /\ broker'.ledger = broker.ledger
        /\ broker'.acked <= Len(journal) /\ broker'.asked = broker.asked /\ broker'.active = broker.active
    <2> DEFINE n == IF exec[e].through > broker.acked THEN exec[e].through ELSE broker.acked
    <2>1. n \in Nat /\ n <= Len(journal)
      BY <1>b, BoxFields
    <2>2. broker' = [broker EXCEPT !.acked = n]
      BY <1>a
    <2> HIDE DEF n
    <2> QED
      BY <2>1, <2>2, BoxFields DEF Brokers
  <1>3. BoxAgrees'
    BY <1>a, <1>2 DEF DispatchInv, BoxAgrees, Pinned
  <1>4. exec' \in [Executors -> ExecSet] /\ \A f \in Executors : Place(f, exec'[f])
    BY <1>1, OneGoes
  <1> QED
    BY <1>a, <1>2, <1>3, <1>4, StillGrows, BoxFields, BoxMoves

LEMMA Restarts ==
  ASSUME DispatchInv, Restarted
  PROVE  /\ broker' \in Brokers /\ broker'.inv = broker.inv + 1 /\ broker'.ledger = <<>> /\ broker'.acked = Len(journal)
         /\ broker'.asked = Nothing /\ broker'.active = 0 /\ pi' = Resting /\ pi' \in Pis
  <1>1. broker.inv + 1 \in Invocations
    BY BoxFields DEF Restarted
  <1>2. broker' = [inv |-> broker.inv + 1, active |-> 0, ledger |-> <<>>, acked |-> Len(journal), asked |-> Nothing]
    BY DEF Restarted
  <1>3. pi' = Resting
    BY DEF Restarted
  <1> QED
    BY <1>1, <1>2, <1>3, Kinds0, BoxFields DEF Brokers

LEMMA RestartedAgrees ==
  ASSUME DispatchInv, Restarted, UNCHANGED <<row, net, journal, runs>>
  PROVE  BoxAgrees'
  <1>1. broker'.ledger = <<>> /\ broker'.asked = Nothing /\ broker'.active = 0 /\ pi'.busy = 0
    BY Restarts DEF Resting
  <1>2. /\ \A m \in net' : Pinned(m.attempt, m.inv)'
        /\ \A i \in DOMAIN journal' : Pinned(journal'[i].attempt, journal'[i].inv)
        /\ \A a \in Attempts : row'[a].at = "starting" => runs'[a] = 0
    BY DEF DispatchInv, BoxAgrees, Pinned
  <1> QED
    BY <1>1, <1>2 DEF BoxAgrees, Pinned

LEMMA RepairKeeps == ASSUME DispatchInv, NEW e \in Executors, Repair(e) PROVE DispatchInv'
  <1>a. exec[e].at = "repair" /\ Mine(e) /\ UNCHANGED <<row, projected, net, journal, runs>>
    BY DEF Repair, At
  <1>b. /\ exec[e] \in ExecSet /\ Knows(e, exec[e]) /\ Reaches(exec[e]) /\ Stands(exec[e])
    BY Fields
  <1>c. row[exec[e].attempt].at = "starting"
    BY <1>a, <1>b DEF Knows, Mine
  <1>1. CASE Restarted /\ Goes(e, [exec[e] EXCEPT !.at = "recheck"])
    <2> DEFINE x == [exec[e] EXCEPT !.at = "recheck"]
    <2>1. /\ x.at = "recheck" /\ x.goal = exec[e].goal /\ x.attempt = exec[e].attempt /\ x.tail = exec[e].tail
          /\ x.sends = exec[e].sends /\ x.reply = exec[e].reply /\ x.through = exec[e].through
      BY <1>b DEF ExecSet
    <2>2. x \in ExecSet
      BY <1>b DEF ExecSet, Pcs
    <2>3. Goes(e, x)
      BY <1>1
    <2> HIDE DEF x
    <2>4. Reaches(x) /\ Stands(x)
      BY <1>a, <1>b, <2>1 DEF Reaches, Stands, Dispatching
    <2>5. Knows(e, x)
      BY <1>c, <2>1 DEF Knows, Dispatching, Consuming
    <2>6. Place(e, x)
      BY <1>a, <2>1, <2>2, <2>4, <2>5, GoesOn
    <2>7. exec' \in [Executors -> ExecSet] /\ \A f \in Executors : Place(f, exec'[f])
      BY <2>3, <2>6, OneGoes
    <2>8. BoxAgrees'
      BY <1>1, <1>a, RestartedAgrees
    <2>9. broker.inv <= broker'.inv
      BY <1>1, Restarts, BoxFields
    <2> QED
      BY <1>a, <1>1, <2>7, <2>8, <2>9, Restarts, StillGrows, BoxFields, BoxMoves
  <1>2. CASE Ends(e, "failed") /\ UNCHANGED <<broker, pi>>
    <2>1. \E x \in ExecSet : Place(e, x) /\ Goes(e, x)
      BY <1>a, <1>c, <1>2, EndPlace DEF Ended, Terminals
    <2> QED
      BY <1>a, <1>2, <2>1, ExecutorMoves, BoxFields DEF box
  <1> QED
    BY <1>1, <1>2 DEF Repair

LEMMA DaemonRestartsKeeps == ASSUME DispatchInv, DaemonRestarts PROVE DispatchInv'
  <1>a. UNCHANGED <<row, projected, exec, net, journal, runs>> /\ Restarted
    BY DEF DaemonRestarts
  <1>1. BoxAgrees'
    BY <1>a, RestartedAgrees
  <1>2. broker.inv <= broker'.inv
    BY <1>a, Restarts, BoxFields
  <1> QED
    BY <1>a, <1>1, <1>2, AllStay, Restarts, StillGrows, BoxFields, BoxMoves

LEMMA JournaledKeeps ==
  ASSUME DispatchInv, NEW kind \in {"event", "settled", "exit"}, Journaled(kind) \/ journal' = journal,
         UNCHANGED <<row, projected, exec, net, runs>>,
         pi' \in Pis, pi'.busy \in {0, pi.busy}, pi'.dead => pi'.busy = 0,
         \/ broker' = broker /\ pi'.dead = pi.dead
         \/ broker' = [broker EXCEPT !.active = 0]
  PROVE  DispatchInv' /\ Grows
  <1>1. /\ Grows
        /\ \A i \in 1..Len(journal') : Pinned(journal'[i].attempt, journal'[i].inv)
    <2>1. CASE journal' = journal
      <3>1. \A i \in 1..Len(journal) : Pinned(journal[i].attempt, journal[i].inv)
        BY BoxFields DEF DispatchInv, BoxAgrees
      <3> QED
        BY <2>1, <3>1, StillGrows DEF Pinned
    <2> QED
      BY <2>1, Journals
  <1>2. /\ broker' \in Brokers /\ broker'.inv = broker.inv /\ broker'.ledger = broker.ledger /\ broker'.acked = broker.acked
        /\ broker'.asked = broker.asked /\ ((broker'.active = broker.active /\ pi'.dead = pi.dead) \/ broker'.active = 0)
    BY BoxFields DEF Brokers
  <1>3. BoxAgrees'
    <2>1. \A m \in net' : Pinned(m.attempt, m.inv)'
      BY DEF DispatchInv, BoxAgrees, Pinned
    <2>2. \A i \in DOMAIN journal' : Pinned(journal'[i].attempt, journal'[i].inv)
      BY <1>1 DEF Grows, Pinned
    <2>3. \A i \in DOMAIN broker'.ledger : Pinned(broker'.ledger[i].attempt, broker'.inv)
      BY <1>2 DEF DispatchInv, BoxAgrees, Pinned
    <2>4. broker'.active # 0 => Pinned(broker'.active, broker'.inv) /\ ~pi'.dead
      BY <1>2 DEF DispatchInv, BoxAgrees, Pinned
    <2>5. \A a \in Attempts : row'[a].at = "starting" => runs'[a] = 0
      BY DEF DispatchInv, BoxAgrees
    <2>6. pi'.busy # 0 /\ broker'.active # 0 => broker'.active = pi'.busy
      BY <1>2 DEF DispatchInv, BoxAgrees
    <2>7. broker'.asked # Nothing =>
            /\ broker'.asked.attempt = broker'.asked.m.attempt /\ Pinned(broker'.asked.attempt, broker'.inv)
            /\ broker'.active \in {0, broker'.asked.attempt}
            /\ ~broker'.asked.takes => pi'.busy = 0
      BY <1>2 DEF DispatchInv, BoxAgrees, Pinned
    <2> QED
      BY <2>1, <2>2, <2>3, <2>4, <2>5, <2>6, <2>7 DEF BoxAgrees, Pinned
  <1>4. broker'.acked <= Len(journal') /\ (broker'.asked # Nothing => broker'.asked.cursor <= Len(journal'))
        /\ \A i \in DOMAIN broker'.ledger : broker'.ledger[i].cursor <= Len(journal')
    <2>1. Len(journal') \in Nat /\ Len(journal) <= Len(journal')
      BY <1>1 DEF Grows
    <2> QED
      BY SMTT(20), <2>1, <1>2, BoxFields DEF Asks, Notes
  <1> QED
    BY <1>1, <1>2, <1>3, <1>4, AllStay, BoxFields, BoxMoves

LEMMA PiEventKeeps == ASSUME DispatchInv, PiEvent PROVE DispatchInv' /\ Grows
  <1>1. pi.busy # 0 /\ ~pi.dead /\ Journaled("event") /\ UNCHANGED <<row, projected, exec, net, broker, runs>>
    BY DEF PiEvent
  <1>2. pi' \in Pis /\ pi'.busy = pi.busy /\ pi'.dead = pi.dead
    <2>1. /\ pi \in Pis /\ pi.events \in 0..MaxEvents /\ pi.events < MaxEvents
          /\ pi' = [pi EXCEPT !.events = pi.events + 1]
      BY BoxFields DEF PiEvent, Pis
    <2>2. pi.events + 1 \in 0..MaxEvents
      BY <2>1
    <2> QED
      BY <2>1, <2>2 DEF Pis
  <1> QED
    BY <1>1, <1>2, JournaledKeeps

LEMMA PiSettlesKeeps == ASSUME DispatchInv, PiSettles PROVE DispatchInv' /\ Grows
  <1>1. Journaled("settled") /\ UNCHANGED <<row, projected, exec, net, runs>> /\ broker' = [broker EXCEPT !.active = 0]
    BY DEF PiSettles
  <1>2. pi' \in Pis /\ pi'.busy = 0 /\ pi'.dead = FALSE /\ pi.dead = FALSE /\ pi.busy # 0
    BY Kinds0, BoxFields DEF PiSettles, Resting, Pis
  <1> QED
    BY <1>1, <1>2, JournaledKeeps

LEMMA PiExitsKeeps == ASSUME DispatchInv, PiExits PROVE DispatchInv' /\ Grows
  <1>1. /\ Journaled("exit") \/ journal' = journal
        /\ UNCHANGED <<row, projected, exec, net, runs>> /\ broker' = [broker EXCEPT !.active = 0]
    BY DEF PiExits
  <1>2. pi' \in Pis /\ pi'.busy = 0
    BY Kinds0 DEF PiExits, Resting, Pis
  <1> QED
    BY <1>1, <1>2, JournaledKeeps

LEMMA DeliverKeeps == ASSUME DispatchInv, NEW m \in net, Deliver(m) PROVE DispatchInv'
  <1>a. /\ broker.asked = Nothing /\ net' \in SUBSET net /\ UNCHANGED <<row, projected>> /\ m \in Prompts
        /\ Pinned(m.attempt, m.inv) /\ m.attempt \in Attempts
    BY BoxFields DEF Deliver, Free, Prompts, DispatchInv, BoxAgrees
  <1>1. ASSUME NEW is \in {"accepted", "refused", "ambiguous"}, NEW c \in Nat, c <= Len(journal),
               Answered(m, is, c), UNCHANGED box
        PROVE  DispatchInv'
    <2>1. exec' \in [Executors -> ExecSet] /\ \A f \in Executors : Place(f, exec'[f])
      BY <1>a, <1>1, Answers
    <2>2. BoxAgrees'
      BY <1>a, <1>1 DEF DispatchInv, BoxAgrees, Pinned, box
    <2> QED
      BY SMTT(20), <1>a, <1>1, <2>1, <2>2, StillGrows, BoxFields, BoxMoves DEF box
  <1>2. CASE (Stale(m) \/ pi.dead) /\ Answered(m, "ambiguous", 0) /\ UNCHANGED box
    BY <1>1, <1>2, BoxFields
  <1>3. ASSUME NEW r \in Recorded(m.attempt), Answered(m, "accepted", r.cursor), UNCHANGED box PROVE DispatchInv'
    <2>1. PICK i \in DOMAIN broker.ledger : r = broker.ledger[i]
      BY <1>3 DEF Recorded
    <2>2. r.cursor \in Nat /\ r.cursor <= Len(journal)
      BY <2>1, BoxFields DEF Notes
    <2> QED
      BY <1>1, <1>3, <2>2
  <1>4. CASE Answered(m, IF broker.active # 0 THEN "ambiguous" ELSE "refused", 0) /\ UNCHANGED box
    <2> DEFINE is == IF broker.active # 0 THEN "ambiguous" ELSE "refused"
    <2>1. is \in {"accepted", "refused", "ambiguous"}
      OBVIOUS
    <2>2. Answered(m, is, 0)
      BY <1>4
    <2> HIDE DEF is
    <2> QED
      BY <1>1, <1>4, <2>1, <2>2, BoxFields
  <1>5. ASSUME NEW takes \in BOOLEAN, ~Stale(m), ~pi.dead, broker.active = 0, pi.busy = 0,
               broker' = [broker EXCEPT !.active = m.attempt,
                            !.asked = [attempt |-> m.attempt, m |-> m, takes |-> takes, cursor |-> TailCursor]],
               IF takes THEN pi' = [Resting EXCEPT !.busy = m.attempt] /\ runs' = [runs EXCEPT ![m.attempt] = @ + 1]
                        ELSE UNCHANGED <<pi, runs>>,
               UNCHANGED <<exec, journal>>
        PROVE  DispatchInv'
    <2> DEFINE q == [attempt |-> m.attempt, m |-> m, takes |-> takes, cursor |-> Len(journal)]
    <2>1. q \in Asks /\ q # Nothing
      BY <1>a, BoxFields DEF Asks, Nothing
    <2>2. q.attempt = m.attempt /\ q.m = m /\ q.takes = takes /\ q.cursor = Len(journal)
      OBVIOUS
    <2>3. broker' = [broker EXCEPT !.active = m.attempt, !.asked = q]
      BY <1>5
    <2> HIDE DEF q
    <2>b. broker \in Brokers /\ pi \in Pis /\ runs \in [Attempts -> Nat] /\ m.attempt \in Attempts /\ m.attempt \in 0..N
      BY <1>a, BoxFields
    <2>c. /\ broker'.inv = broker.inv /\ broker'.ledger = broker.ledger /\ broker'.acked = broker.acked
          /\ broker'.asked = q /\ broker'.active = m.attempt
      BY <2>b, <2>3 DEF Brokers
    <2>d. broker' \in Brokers
      BY <2>b, <2>1, <2>3 DEF Brokers
    <2>4. /\ broker' \in Brokers /\ broker'.inv = broker.inv /\ broker'.ledger = broker.ledger /\ broker'.acked = broker.acked
          /\ broker'.asked = q /\ broker'.active = m.attempt
      BY <2>c, <2>d
    <2>5. /\ pi' \in Pis /\ pi'.dead = FALSE /\ pi'.busy \in {0, m.attempt} /\ (~takes => pi'.busy = 0)
          /\ runs' \in [Attempts -> Nat] /\ \A a \in Attempts \ {m.attempt} : runs'[a] = runs[a]
      <3>1. CASE takes
        <4>1. pi' = [Resting EXCEPT !.busy = m.attempt] /\ runs' = [runs EXCEPT ![m.attempt] = runs[m.attempt] + 1]
          BY <1>5, <3>1
        <4>2. pi' = [busy |-> m.attempt, events |-> 0, dead |-> FALSE]
          BY <4>1 DEF Resting
        <4>3. 0 \in 0..MaxEvents
          OBVIOUS
        <4>4. pi' \in Pis /\ pi'.dead = FALSE /\ pi'.busy = m.attempt
          BY <2>b, <4>2, <4>3 DEF Pis
        <4> QED
          BY <2>b, <3>1, <4>1, <4>4
      <3>2. CASE ~takes
        BY <2>b, <1>5, <3>2 DEF Pis
      <3> QED
        BY <3>1, <3>2
    <2>7. m.inv = broker.inv
      BY <1>5 DEF Stale
    <2>8. BoxAgrees'
      <3>1. \A n \in net' : Pinned(n.attempt, n.inv)'
        BY <1>a DEF DispatchInv, BoxAgrees, Pinned
      <3>2. \A i \in DOMAIN journal' : Pinned(journal'[i].attempt, journal'[i].inv)
        BY <1>a, <1>5 DEF DispatchInv, BoxAgrees, Pinned
      <3>3. \A i \in DOMAIN broker'.ledger : Pinned(broker'.ledger[i].attempt, broker'.inv)
        BY <1>a, <2>4 DEF DispatchInv, BoxAgrees, Pinned
      <3>4. Pinned(broker'.active, broker'.inv) /\ ~pi'.dead
        BY <1>a, <2>4, <2>5, <2>7 DEF Pinned
      <3>5. \A a \in Attempts : row'[a].at = "starting" => runs'[a] = 0
        BY <1>a, <2>5 DEF DispatchInv, BoxAgrees, Pinned
      <3>6. /\ broker'.asked.attempt = broker'.asked.m.attempt /\ Pinned(broker'.asked.attempt, broker'.inv)
            /\ broker'.active \in {0, broker'.asked.attempt}
            /\ ~broker'.asked.takes => pi'.busy = 0
        BY <1>a, <2>2, <2>4, <2>5, <2>7 DEF Pinned
      <3>7. pi'.busy # 0 => broker'.active = pi'.busy
        BY <2>4, <2>5
      <3> QED
        BY <1>a, <3>1, <3>2, <3>3, <3>4, <3>5, <3>6, <3>7 DEF BoxAgrees, Pinned
    <2> QED
      BY <1>a, <1>5, <2>2, <2>4, <2>5, <2>8, AllStay, StillGrows, BoxFields, BoxMoves
  <1> QED
    BY <1>2, <1>3, <1>4, <1>5 DEF Deliver

LEMMA PiAnswersKeeps == ASSUME DispatchInv, PiAnswers PROVE DispatchInv'
  <1> DEFINE q == broker.asked
  <1>a. /\ q # Nothing /\ q \in Asks /\ UNCHANGED <<row, projected, net, journal, pi, runs>>
        /\ q.m \in Prompts /\ q.attempt \in Attempts /\ q.cursor \in Nat /\ q.cursor <= Len(journal)
        /\ q.attempt = q.m.attempt /\ Pinned(q.attempt, broker.inv) /\ Nothing \notin Asks
    BY BoxFields DEF PiAnswers, Free, Asks, DispatchInv, BoxAgrees, Nothing
  <1>1. ASSUME NEW is \in {"accepted", "refused", "ambiguous"}, NEW c \in Nat, c <= Len(journal), Answered(q.m, is, c),
               broker' \in Brokers, broker'.inv = broker.inv, broker'.acked = broker.acked, broker'.asked = Nothing,
               broker'.active \in {0, broker.active},
               \A i \in DOMAIN broker'.ledger : /\ broker'.ledger[i].cursor <= Len(journal)
                                                /\ Pinned(broker'.ledger[i].attempt, broker.inv)
        PROVE  DispatchInv'
    <2>1. exec' \in [Executors -> ExecSet] /\ \A f \in Executors : Place(f, exec'[f])
      BY <1>a, <1>1, Answers
    <2>2. BoxAgrees'
      <3>1. \A i \in DOMAIN broker'.ledger : Pinned(broker'.ledger[i].attempt, broker'.inv)
        BY <1>a, <1>1 DEF Pinned
      <3> QED
        BY <1>a, <1>1, <3>1 DEF DispatchInv, BoxAgrees, Pinned
    <2> QED
      BY <1>a, <1>1, <2>1, <2>2, StillGrows, BoxFields, BoxMoves
  <1>b. \A i \in DOMAIN broker.ledger : broker.ledger[i].cursor <= Len(journal) /\ Pinned(broker.ledger[i].attempt, broker.inv)
    BY BoxFields DEF DispatchInv, BoxAgrees
  <1>2. CASE /\ broker' = [[broker EXCEPT !.asked = Nothing]
                             EXCEPT !.ledger = Append(@, [attempt |-> q.attempt, cursor |-> LedgerCursor])]
             /\ Answered(q.m, "accepted", LedgerCursor)
    <2> DEFINE new == [attempt |-> q.attempt, cursor |-> q.cursor]
    <2>1. new \in Notes /\ new.attempt = q.attempt /\ new.cursor = q.cursor
      BY <1>a DEF Notes
    <2>2. broker' = [broker EXCEPT !.asked = Nothing, !.ledger = Append(broker.ledger, new)]
      BY <1>2, BoxFields DEF LedgerCursor, Brokers
    <2> HIDE DEF new
    <2>3. /\ broker'.inv = broker.inv /\ broker'.acked = broker.acked /\ broker'.asked = Nothing
          /\ broker'.active = broker.active /\ broker'.ledger = Append(broker.ledger, new)
      BY <2>2, BoxFields DEF Brokers
    <2>4. Append(broker.ledger, new) \in Seq(Notes)
      BY <2>1, BoxFields
    <2>5. broker' \in Brokers
      BY <2>2, <2>4, BoxFields DEF Brokers
    <2>6. \A i \in DOMAIN broker'.ledger :
            broker'.ledger[i] = new \/ (i \in DOMAIN broker.ledger /\ broker'.ledger[i] = broker.ledger[i])
      BY <2>1, <2>3, BoxFields
    <2>7. \A i \in DOMAIN broker'.ledger :
            broker'.ledger[i].cursor <= Len(journal) /\ Pinned(broker'.ledger[i].attempt, broker.inv)
      BY <1>a, <1>b, <2>1, <2>6 DEF Pinned
    <2> QED
      BY <1>1, <1>2, <1>a, <2>3, <2>5, <2>7 DEF LedgerCursor
  <1>3. ASSUME NEW is \in {"refused", "ambiguous"}, Answered(q.m, is, 0),
               broker' = [broker EXCEPT !.asked = Nothing] \/ broker' = [broker EXCEPT !.asked = Nothing, !.active = 0]
        PROVE  DispatchInv'
    <2>a. broker \in Brokers
      BY BoxFields
    <2>b. /\ broker'.inv = broker.inv /\ broker'.acked = broker.acked /\ broker'.asked = Nothing
          /\ broker'.active \in {0, broker.active} /\ broker'.ledger = broker.ledger
      BY <1>3, <2>a DEF Brokers
    <2>c. broker' \in Brokers
      <3>1. Nothing \in Asks \cup {Nothing} /\ 0 \in 0..N
        OBVIOUS
      <3>2. /\ [broker EXCEPT !.asked = Nothing] \in Brokers
            /\ [broker EXCEPT !.asked = Nothing, !.active = 0] \in Brokers
        BY <2>a, <3>1 DEF Brokers
      <3> QED
        BY <1>3, <3>2
    <2>1. /\ broker' \in Brokers /\ broker'.inv = broker.inv /\ broker'.acked = broker.acked /\ broker'.asked = Nothing
          /\ broker'.active \in {0, broker.active} /\ broker'.ledger = broker.ledger
      BY <2>b, <2>c
    <2> QED
      BY SMTT(20), <1>1, <1>3, <1>b, <2>1, BoxFields
  <1> QED
    BY <1>2, <1>3 DEF PiAnswers
-----------------------------------------------------------------------------
(* Rows, executors and the Box agree.                                        *)

LEMMA StepHolds == DispatchInv /\ [Next]_vars => DispatchInv'
  <1> SUFFICES ASSUME DispatchInv, [Next]_vars PROVE DispatchInv'
    OBVIOUS
  <1>1. CASE UNCHANGED vars
    <2>1. BoxAgrees'
      BY <1>1 DEF vars, DispatchInv, BoxAgrees, Pinned
    <2> QED
      BY <1>1, <2>1, AllStay, StillGrows, BoxFields, BoxMoves DEF vars
  <1>2. ASSUME NEW e \in Executors, Executor(e) PROVE DispatchInv'
    BY <1>2, ClaimKeeps, LosesFenceKeeps, ResumeKeeps, RepairKeeps, RecheckKeeps, WriteIntentKeeps, ProveKeeps, SendKeeps,
       ReceiveKeeps, ResolveKeeps, AcceptKeeps, CloseDispatchKeeps, CleanupKeeps, SettleKeeps, ReadKeeps,
       ProjectKeeps, AckKeeps DEF Executor
  <1>3. ASSUME NEW m \in net, Deliver(m) \/ LosesMessage(m) PROVE DispatchInv'
    BY <1>3, DeliverKeeps, LosesMessageKeeps
  <1>4. CASE PiAnswers \/ PiEvent \/ PiSettles \/ DaemonRestarts \/ Expire \/ PiExits
    BY <1>4, PiAnswersKeeps, PiEventKeeps, PiSettlesKeeps, DaemonRestartsKeeps, ExpireKeeps, PiExitsKeeps
  <1> QED
    BY <1>1, <1>2, <1>3, <1>4 DEF Next, Broker

\* An attempt is pinned to an invocation before anything of it leaves for the Box, executors that lost
\* their lease included, and the cursors, ends and records of rows, executors and the Box agree.
THEOREM DispatchHolds == Spec => []DispatchInv
  <1>1. DispatchInv /\ [Next]_vars => DispatchInv'
    BY StepHolds
  <1> QED
    BY DispatchStarts, <1>1, PTL DEF Spec

LEMMA InvTyped == DispatchInv => TypeOK
  <1> SUFFICES ASSUME DispatchInv PROVE TypeOK
    OBVIOUS
  <1>a. Len(journal) \in Nat
    BY BoxFields
  <1>1. \A a \in Attempts : row[a] \in RowSet /\ row[a].cursor \in 0..Len(journal)
    BY <1>a DEF DispatchInv, Typed, Within, RowSet
  <1>2. \A e \in Executors : exec[e] \in ExecSet /\ exec[e].tail \in 0..Len(journal) /\ exec[e].through \in 0..Len(journal)
    BY <1>a DEF DispatchInv, Typed, Within, Reaches, ExecSet
  <1>3. row \in [Attempts -> [status : {"queued", "active"} \cup Terminals, at : Ats, inv : 0..MaxInv,
                              cursor : 0..Len(journal), owner : Executors \cup {"none"}]]
    BY <1>1 DEF DispatchInv, Typed, RowSet
  <1>4. exec \in [Executors -> [at : Pcs, attempt : 0..N, inv : 0..MaxInv, tail : 0..Len(journal), sends : 0..MaxSends,
                                reply : Replies, through : 0..Len(journal), goal : {"none"} \cup Terminals]]
    BY <1>2 DEF DispatchInv, Typed, ExecSet
  <1>5. projected \in [Attempts -> SUBSET (1..Len(journal))]
    BY DEF DispatchInv, Typed, Within
  <1>6. broker.inv \in Invocations /\ broker.active \in 0..N /\ broker.acked \in 0..Len(journal)
    BY BoxFields
  <1>7. pi \in [busy : 0..N, events : 0..MaxEvents, dead : BOOLEAN] /\ runs \in [Attempts -> Nat]
    BY BoxFields DEF Pis
  <1> QED
    BY <1>3, <1>4, <1>5, <1>6, <1>7 DEF TypeOK

\* Rows, executors and the Box hold values of their kinds, and no cursor or acknowledgement passes
\* the journal's tail (handleAttempt, CompanionPiBroker).
THEOREM DispatchTyped == Spec => []TypeOK
  BY DispatchHolds, InvTyped, PTL

\* What is shown for an attempt was journaled for it by the invocation its prompt was pinned to, and
\* the journal is shown without gaps up to the attempt's cursor, whatever is lost on the way.
THEOREM ProjectsItsOwn == Spec => []ProjectedIsItsOwn
  <1>1. DispatchInv => ProjectedIsItsOwn
    BY DEF DispatchInv
  <1> QED
    BY DispatchHolds, <1>1, PTL
-----------------------------------------------------------------------------
(* While Pi's answers arrive.                                                *)

\* What DispatchInv says of the records and rows that OnceInv speaks of.
LEMMA OnceFields ==
  ASSUME DispatchInv
  PROVE  /\ Len(journal) \in Nat /\ DOMAIN journal = 1..Len(journal) /\ broker.inv \in Nat
         /\ \A i \in 1..Len(journal) : /\ journal[i].attempt \in Attempts /\ row[journal[i].attempt].at # "starting"
                                       /\ journal[i].inv = row[journal[i].attempt].inv
         /\ \A a \in Attempts : /\ row[a].cursor \in Nat /\ row[a].cursor <= Len(journal)
                                /\ row[a].at # "starting" => row[a].inv \in Nat /\ row[a].inv <= broker.inv
                                /\ row[a].at = "starting" => runs[a] = 0
  <1>1. \A i \in 1..Len(journal) : journal[i] \in Records
    BY BoxFields
  <1>2. \A i \in 1..Len(journal) : Pinned(journal[i].attempt, journal[i].inv)
    BY BoxFields DEF DispatchInv, BoxAgrees
  <1>3. Len(journal) \in Nat /\ DOMAIN journal = 1..Len(journal) /\ broker.inv \in Nat
    BY BoxFields
  <1>4. \A a \in Attempts : /\ row[a].cursor \in Nat /\ row[a].cursor <= Len(journal)
                            /\ row[a].at # "starting" => row[a].inv \in Nat /\ row[a].inv <= broker.inv
                            /\ row[a].at = "starting" => runs[a] = 0
    BY <1>3 DEF DispatchInv, Typed, RowSet, Within, RowsAgree, BoxAgrees
  <1> QED
    BY <1>1, <1>2, <1>3, <1>4 DEF Records, Pinned

\* The cursors that executors were told.
Told == \A e \in Executors : ToldAccepted(exec[e]) => Precedes(exec[e].reply.cursor, exec[e].attempt)

\* Steps that leave rows and Box alone.
LEMMA OnceExec ==
  ASSUME OnceInv, UNCHANGED <<row, projected, box>>, Told'
  PROVE  OnceInv'
  <1> USE DEF box
  <1>1. PromptRunsOnce' /\ RunsSpend'
    BY DEF OnceInv, PromptRunsOnce, RunsSpend, Said, Spent, Recorded
  <1>2. CursorsPrecede'
    BY DEF OnceInv, CursorsPrecede, ToldAccepted, Told, Precedes, Said
  <1>3. ShownSoFar' /\ EndsLast' /\ AckedWasProjected'
    BY DEF OnceInv, ShownSoFar, EndsLast, AckedWasProjected, Said
  <1> QED
    BY <1>1, <1>2, <1>3 DEF OnceInv

\* Steps that change the row of one attempt and what it shows.
LEMMA OnceRow ==
  ASSUME DispatchInv, OnceInv, NEW a \in Attempts, NEW r,
         row' = [row EXCEPT ![a] = r], UNCHANGED box, Told',
         \A b \in Attempts \ {a} : projected'[b] = projected[b], projected[a] \subseteq projected'[a],
         Pins(r, a),
         row[a].status = "interrupted" => r.status = "interrupted",
         row[a].at = "rejected" => r.at = "rejected",
         r.at \in Accepted => \A i \in Said(a) : i <= r.cursor => i \in projected'[a]
  PROVE  OnceInv'
  <1> USE DEF box
  <1>a. row'[a] = r /\ \A b \in Attempts \ {a} : row'[b] = row[b]
    BY DEF DispatchInv, Typed
  <1>b. \A b \in Attempts : Said(b)' = Said(b) /\ Recorded(b)' = Recorded(b)
    BY DEF Said, Recorded
  <1>1. PromptRunsOnce'
    BY DEF OnceInv, PromptRunsOnce
  <1>2. RunsSpend'
    <2> SUFFICES ASSUME NEW b \in Attempts, row'[b].at # "starting", runs[b] # 0 \/ Said(b) # {}
                 PROVE  Spent(b)'
      BY <1>b DEF RunsSpend, OnceInv
    <2>1. row[b].at # "starting"
      <3>1. CASE runs[b] # 0
        BY <3>1, OnceFields
      <3>2. CASE Said(b) # {}
        BY <3>2, OnceFields DEF Said
      <3> QED
        BY <3>1, <3>2
    <2>2. Spent(b)
      BY <2>1 DEF OnceInv, RunsSpend
    <2>3. row'[b].inv = row[b].inv
      BY <1>a, <2>1 DEF Pins
    <2> QED
      BY <2>2, <2>3, <1>b DEF Spent
  <1>3. CursorsPrecede'
    BY DEF OnceInv, CursorsPrecede, ToldAccepted, Told, Precedes, Said
  <1>4. ShownSoFar'
    BY <1>a, <1>b DEF OnceInv, ShownSoFar
  <1>5. EndsLast'
    BY DEF OnceInv, EndsLast, Said
  <1>6. AckedWasProjected'
    <2> SUFFICES ASSUME NEW i \in 1..broker.acked, journal[i].inv = broker.inv,
                        row'[journal[i].attempt].status # "interrupted", row'[journal[i].attempt].at # "rejected"
                 PROVE  i \in projected'[journal[i].attempt]
      BY DEF AckedWasProjected
    <2>1. journal[i].attempt \in Attempts
      BY OnceFields, BoxFields
    <2>2. row[journal[i].attempt].status # "interrupted" /\ row[journal[i].attempt].at # "rejected"
      BY <1>a, <2>1
    <2>3. i \in projected[journal[i].attempt]
      BY <2>2 DEF OnceInv, AckedWasProjected
    <2> QED
      BY <2>1, <2>3
  <1> QED
    BY <1>1, <1>2, <1>3, <1>4, <1>5, <1>6 DEF OnceInv

\* Executor e moves, and waits for no answer or was told a cursor that precedes.
LEMMA ToldGoes ==
  ASSUME DispatchInv, OnceInv, NEW e \in Executors, NEW x, Goes(e, x), journal' = journal,
         ToldAccepted(x) => Precedes(x.reply.cursor, x.attempt)
  PROVE  Told'
  <1>1. exec'[e] = x /\ \A f \in Executors \ {e} : exec'[f] = exec[f]
    BY BoxFields DEF Goes
  <1>2. \A f \in Executors : ToldAccepted(exec'[f]) => Precedes(exec'[f].reply.cursor, exec'[f].attempt)
    BY <1>1 DEF OnceInv, CursorsPrecede
  <1> QED
    BY <1>2 DEF Told, ToldAccepted, Precedes, Said

LEMMA ToldStays == ASSUME OnceInv, exec' = exec, journal' = journal PROVE Told'
  BY DEF OnceInv, CursorsPrecede, ToldAccepted, Told, Precedes, Said

\* An executor that goes where no answer is waited for.
LEMMA ToldOff ==
  ASSUME DispatchInv, OnceInv, NEW e \in Executors, journal' = journal,
         NEW pc \in Pcs \ {"await", "accept"}, Goes(e, [exec[e] EXCEPT !.at = pc])
  PROVE  Told'
  <1>1. [exec[e] EXCEPT !.at = pc].at = pc
    BY Fields DEF ExecSet
  <1> DEFINE x == [exec[e] EXCEPT !.at = pc]
  <1>2. Goes(e, x) /\ x.at \notin {"await", "accept"}
    BY <1>1
  <1> HIDE DEF x
  <1> QED
    BY <1>2, ToldGoes DEF ToldAccepted

LEMMA ToldEnds ==
  ASSUME DispatchInv, OnceInv, NEW e \in Executors, journal' = journal, NEW goal \in Terminals, Ends(e, goal)
  PROVE  Told'
  <1>1. PICK x \in ExecSet : Goes(e, x) /\ x.at \in {"cleanup", "settle"}
    BY EndFields
  <1> QED
    BY <1>1, ToldGoes DEF ToldAccepted

LEMMA LookTold ==
  ASSUME DispatchInv, OnceInv, NEW e \in Executors, journal' = journal, NEW pc \in {"intent", "repair"}, NEW i, NEW t,
         Goes(e, [exec[e] EXCEPT !.at = pc, !.inv = i, !.tail = t])
  PROVE  Told'
  <1> DEFINE x == [exec[e] EXCEPT !.at = pc, !.inv = i, !.tail = t]
  <1>1. x.at = pc
    BY Fields DEF ExecSet
  <1>2. Goes(e, x)
    OBVIOUS
  <1> HIDE DEF x
  <1> QED
    BY <1>1, <1>2, ToldGoes DEF ToldAccepted

LEMMA LosesFenceOnce == ASSUME DispatchInv, OnceInv, NEW e \in Executors, LosesFence(e) PROVE OnceInv'
  <1>1. UNCHANGED <<row, projected, box>> /\ journal' = journal /\ Goes(e, Idle) /\ Idle.at = "idle"
    BY DEF LosesFence, box, Idle
  <1> QED
    BY <1>1, ToldGoes, OnceExec DEF ToldAccepted

LEMMA ResumeOnce == ASSUME DispatchInv, OnceInv, NEW e \in Executors, Resume(e) PROVE OnceInv'
  <1>a. UNCHANGED <<row, projected, box>> /\ journal' = journal
    BY DEF Resume, box
  <1>1. CASE Goes(e, [exec[e] EXCEPT !.at = IF BrokerIdle THEN "intent" ELSE "repair",
                                     !.inv = broker.inv, !.tail = TailCursor])
    <2> DEFINE pc == IF BrokerIdle THEN "intent" ELSE "repair"
    <2>1. pc \in {"intent", "repair"}
      OBVIOUS
    <2>2. Goes(e, [exec[e] EXCEPT !.at = pc, !.inv = broker.inv, !.tail = TailCursor])
      BY <1>1
    <2> HIDE DEF pc
    <2>3. Told'
      BY <1>a, <2>1, <2>2, LookTold
    <2> QED
      BY <1>a, <2>3, OnceExec
  <1>2. CASE Ends(e, "failed")
    BY <1>a, <1>2, ToldEnds, OnceExec DEF Terminals
  <1>3. CASE Goes(e, [exec[e] EXCEPT !.at = "consume"])
    BY <1>a, <1>3, ToldOff, OnceExec DEF Pcs
  <1> QED
    BY <1>1, <1>2, <1>3 DEF Resume

LEMMA RecheckOnce == ASSUME DispatchInv, OnceInv, NEW e \in Executors, Recheck(e) PROVE OnceInv'
  <1>a. UNCHANGED <<row, projected, box>> /\ journal' = journal
    BY DEF Recheck, box
  <1>1. Told'
    <2>1. CASE Goes(e, [exec[e] EXCEPT !.at = "intent", !.inv = broker.inv, !.tail = TailCursor])
      BY <1>a, <2>1, LookTold
    <2>2. CASE Ends(e, "failed")
      BY <1>a, <2>2, ToldEnds DEF Terminals
    <2> QED
      BY <2>1, <2>2 DEF Recheck
  <1> QED
    BY <1>a, <1>1, OnceExec

LEMMA ProveOnce == ASSUME DispatchInv, OnceInv, NEW e \in Executors, Prove(e) PROVE OnceInv'
  <1>a. UNCHANGED <<row, projected, box>> /\ journal' = journal /\ Goes(e, [exec[e] EXCEPT !.at = "send"])
    BY DEF Prove, box
  <1> QED
    BY <1>a, ToldOff, OnceExec DEF Pcs

LEMMA SentTold == ASSUME DispatchInv, OnceInv, NEW e \in Executors, Sent(e), journal' = journal PROVE Told'
  <1> DEFINE x == [exec[e] EXCEPT !.at = "await", !.sends = @ + 1, !.reply = NoReply]
  <1>1. Goes(e, x)
    BY DEF Sent
  <1>2. x.at = "await" /\ x.reply = NoReply
    BY Fields DEF ExecSet
  <1> HIDE DEF x
  <1>3. x.reply.is # "accepted"
    BY <1>2 DEF NoReply
  <1> QED
    BY <1>1, <1>2, <1>3, ToldGoes DEF ToldAccepted

LEMMA SendOnce == ASSUME DispatchInv, OnceInv, NEW e \in Executors, Send(e) PROVE OnceInv'
  <1>a. UNCHANGED <<row, projected, box>> /\ journal' = journal /\ Sent(e)
    BY DEF Send, box
  <1> QED
    BY <1>a, SentTold, OnceExec

LEMMA ReceiveOnce == ASSUME DispatchInv, OnceInv, NEW e \in Executors, Receive(e) PROVE OnceInv'
  <1>a. UNCHANGED <<row, projected, box>> /\ journal' = journal /\ exec[e].at = "await"
    BY DEF Receive, box
  <1>1. PICK pc \in {"accept", "reject", "resolve"} :
          Goes(e, [exec[e] EXCEPT !.at = pc]) /\ (pc = "accept" => exec[e].reply.is = "accepted")
    BY DEF Receive
  <1> DEFINE x == [exec[e] EXCEPT !.at = pc]
  <1>2. x.at = pc /\ x.reply = exec[e].reply /\ x.attempt = exec[e].attempt
    BY Fields DEF ExecSet
  <1>3. Goes(e, x)
    BY <1>1
  <1> HIDE DEF x
  <1>4. ToldAccepted(x) => Precedes(x.reply.cursor, x.attempt)
    BY <1>a, <1>1, <1>2 DEF OnceInv, CursorsPrecede, ToldAccepted
  <1> QED
    BY <1>a, <1>3, <1>4, ToldGoes, OnceExec DEF ToldAccepted

\* A cursor of the ledger precedes what its attempt said.
LEMMA RecordedPrecedes ==
  ASSUME DispatchInv, OnceInv, NEW a \in Attempts, NEW r \in Recorded(a)
  PROVE  Precedes(r.cursor, a) /\ r.cursor \in Nat /\ r.cursor <= Len(journal)
  <1>1. PICK i \in DOMAIN broker.ledger : r = broker.ledger[i] /\ r.attempt = a
    BY DEF Recorded
  <1> QED
    BY <1>1, BoxFields DEF OnceInv, CursorsPrecede, Notes

LEMMA ResolveOnce == ASSUME DispatchInv, OnceInv, NEW e \in Executors, Resolve(e) PROVE OnceInv'
  <1>a. UNCHANGED <<row, projected, box>> /\ journal' = journal /\ exec[e].at = "resolve"
    BY DEF Resolve, box
  <1>1. Told'
    <2>1. ASSUME NEW r \in Recorded(exec[e].attempt),
                 Goes(e, [exec[e] EXCEPT !.at = "accept",
                            !.reply = [is |-> "accepted", inv |-> broker.inv, cursor |-> r.cursor]])
          PROVE  Told'
      <3> DEFINE reply == [is |-> "accepted", inv |-> broker.inv, cursor |-> r.cursor]
                 x == [exec[e] EXCEPT !.at = "accept", !.reply = reply]
      <3>1. Goes(e, x) /\ reply.cursor = r.cursor
        BY <2>1
      <3> HIDE DEF reply
      <3>2. x.reply = reply /\ x.attempt = exec[e].attempt
        BY Fields DEF ExecSet
      <3> HIDE DEF x
      <3>3. exec[e].attempt \in Attempts
        BY <1>a, Fields
      <3>4. Precedes(x.reply.cursor, x.attempt)
        BY <3>1, <3>2, <3>3, RecordedPrecedes
      <3> QED
        BY <1>a, <3>1, <3>4, ToldGoes DEF ToldAccepted
    <2>2. CASE Sent(e)
      BY <1>a, <2>2, SentTold
    <2>3. CASE Goes(e, [exec[e] EXCEPT !.at = "ambiguous"])
      BY <1>a, <2>3, ToldOff DEF Pcs
    <2> QED
      BY <2>1, <2>2, <2>3 DEF Resolve
  <1> QED
    BY <1>a, <1>1, OnceExec

LEMMA ReadOnce == ASSUME DispatchInv, OnceInv, NEW e \in Executors, Read(e) PROVE OnceInv'
  <1>a. UNCHANGED <<row, projected, box>> /\ journal' = journal
    BY DEF Read, box
  <1>1. Told'
    <2>1. ASSUME NEW pc \in {"ack", "project"}, NEW n, Goes(e, [exec[e] EXCEPT !.at = pc, !.through = n]) PROVE Told'
      <3> DEFINE x == [exec[e] EXCEPT !.at = pc, !.through = n]
      <3>1. x.at = pc
        BY Fields DEF ExecSet
      <3>2. Goes(e, x)
        BY <2>1
      <3> HIDE DEF x
      <3> QED
        BY <1>a, <3>1, <3>2, ToldGoes DEF ToldAccepted
    <2>2. CASE Ends(e, "interrupted")
      BY <1>a, <2>2, ToldEnds DEF Terminals
    <2> QED
      BY <2>1, <2>2 DEF Read, AfterRead
  <1> QED
    BY <1>a, <1>1, OnceExec

LEMMA LosesMessageOnce == ASSUME DispatchInv, OnceInv, NEW m \in net, LosesMessage(m) PROVE OnceInv'
  <1>a. UNCHANGED <<row, projected, box>> /\ journal' = journal /\ exec' = exec
    BY DEF LosesMessage, box
  <1> QED
    BY <1>a, ToldStays, OnceExec

LEMMA ClaimOnce == ASSUME DispatchInv, OnceInv, NEW e \in Executors, Claim(e) PROVE OnceInv'
  <1>1. PICK a \in Attempts :
          /\ row[a].status \in {"queued", "active"}
          /\ IF row[a].at \in {"write_intent", "ambiguous"}
               THEN row' = [row EXCEPT ![a].status = "interrupted", ![a].at = "ambiguous"] /\ UNCHANGED exec
               ELSE /\ row' = [row EXCEPT ![a].status = "active", ![a].owner = e]
                    /\ Goes(e, [Idle EXCEPT !.at = "loop", !.attempt = a])
    BY DEF Claim
  <1>a. UNCHANGED box /\ journal' = journal /\ projected' = projected
    BY DEF Claim, box
  <1>b. row[a] \in RowSet /\ row \in [Attempts -> RowSet]
    BY DEF DispatchInv, Typed
  <1>c. Pins(row[a], a) /\ (row[a].at \in Accepted => \A i \in Said(a) : i <= row[a].cursor => i \in projected[a])
    BY AsItIs DEF OnceInv, ShownSoFar
  <1>2. CASE row[a].at \in {"write_intent", "ambiguous"}
    <2> DEFINE r == [row[a] EXCEPT !.status = "interrupted", !.at = "ambiguous"]
    <2>1. r.status = "interrupted" /\ r.at = "ambiguous" /\ r.inv = row[a].inv
      BY <1>b DEF RowSet
    <2>2. row' = [row EXCEPT ![a] = r]
      BY <1>1, <1>2, <1>b
    <2>3. Told'
      BY <1>1, <1>2, <1>a, ToldStays
    <2> HIDE DEF r
    <2>4. Pins(r, a) /\ row[a].at # "rejected" /\ r.at \notin Accepted
      BY <1>2, <1>c, <2>1 DEF Pins, Accepted
    <2> QED
      BY <1>a, <2>1, <2>2, <2>3, <2>4, OnceRow
  <1>3. CASE row[a].at \notin {"write_intent", "ambiguous"}
    <2> DEFINE r == [row[a] EXCEPT !.status = "active", !.owner = e]
               x == [Idle EXCEPT !.at = "loop", !.attempt = a]
    <2>1. r.at = row[a].at /\ r.inv = row[a].inv /\ r.cursor = row[a].cursor
      BY <1>b DEF RowSet
    <2>2. row' = [row EXCEPT ![a] = r] /\ Goes(e, x)
      BY <1>1, <1>3, <1>b
    <2>3. x.at = "loop"
      BY DEF Idle
    <2> HIDE DEF r, x
    <2>4. Told'
      BY <1>a, <2>2, <2>3, ToldGoes DEF ToldAccepted
    <2>5. Pins(r, a) /\ row[a].status # "interrupted"
      BY <1>1, <1>c, <2>1 DEF Pins
    <2>6. r.at \in Accepted => \A i \in Said(a) : i <= r.cursor => i \in projected'[a]
      BY <1>a, <1>c, <2>1
    <2> QED
      BY <1>a, <2>1, <2>2, <2>4, <2>5, <2>6, OnceRow
  <1> QED
    BY <1>2, <1>3

LEMMA ExpireOnce == ASSUME DispatchInv, OnceInv, Expire PROVE OnceInv'
  <1>1. PICK a \in Attempts : row' = [row EXCEPT ![a].owner = "none"]
    BY DEF Expire
  <1>a. UNCHANGED box /\ journal' = journal /\ projected' = projected /\ exec' = exec
    BY DEF Expire, box
  <1>b. row[a] \in RowSet /\ row \in [Attempts -> RowSet]
    BY DEF DispatchInv, Typed
  <1> DEFINE r == [row[a] EXCEPT !.owner = "none"]
  <1>2. r.status = row[a].status /\ r.at = row[a].at /\ r.inv = row[a].inv /\ r.cursor = row[a].cursor
    BY <1>b DEF RowSet
  <1>3. row' = [row EXCEPT ![a] = r]
    BY <1>1, <1>b
  <1> HIDE DEF r
  <1>4. Pins(r, a)
    BY <1>2, AsItIs DEF Pins
  <1>5. r.at \in Accepted => \A i \in Said(a) : i <= r.cursor => i \in projected'[a]
    BY <1>a, <1>2 DEF OnceInv, ShownSoFar
  <1> QED
    BY <1>a, <1>2, <1>3, <1>4, <1>5, ToldStays, OnceRow

LEMMA WriteIntentOnce == ASSUME DispatchInv, OnceInv, NEW e \in Executors, WriteIntent(e) PROVE OnceInv'
  <1> DEFINE a == exec[e].attempt
             r == [row[a] EXCEPT !.at = "write_intent", !.inv = exec[e].inv]
  <1>a. /\ exec[e].at = "intent" /\ Mine(e) /\ UNCHANGED box /\ journal' = journal /\ projected' = projected
        /\ Goes(e, [exec[e] EXCEPT !.at = "prove"])
    BY DEF WriteIntent, At, box
  <1>b. Stands(exec[e]) /\ Knows(e, exec[e]) /\ a \in Attempts
    BY <1>a, Fields
  <1>c. row[a] \in RowSet /\ row \in [Attempts -> RowSet]
    BY <1>b DEF DispatchInv, Typed
  <1>d. row[a].at = "starting" /\ exec[e].inv \in 1..broker.inv
    BY <1>a, <1>b DEF Knows, Mine, Stands
  <1>1. r.at = "write_intent" /\ r.inv = exec[e].inv /\ r.status = row[a].status
    BY <1>c DEF RowSet
  <1>2. row' = [row EXCEPT ![a] = r]
    BY <1>b, <1>c DEF WriteIntent
  <1>3. Told'
    BY <1>a, ToldOff DEF Pcs
  <1> HIDE DEF r
  <1>4. Pins(r, a) /\ r.at \notin Accepted
    BY <1>d, <1>1 DEF Pins, Accepted
  <1> QED
    BY <1>a, <1>b, <1>d, <1>1, <1>2, <1>3, <1>4, OnceRow

LEMMA AcceptOnce == ASSUME DispatchInv, OnceInv, NEW e \in Executors, Accept(e) PROVE OnceInv'
  <1> DEFINE a == exec[e].attempt
             c == exec[e].reply.cursor
             r == [row[a] EXCEPT !.at = "accepted", !.cursor = c]
  <1>a. exec[e].at = "accept" /\ Mine(e) /\ UNCHANGED box /\ journal' = journal /\ projected' = projected
    BY DEF Accept, At, box
  <1>b. Stands(exec[e]) /\ Knows(e, exec[e]) /\ a \in Attempts /\ c \in Nat
    BY <1>a, Fields DEF Replies
  <1>c. row[a] \in RowSet /\ row \in [Attempts -> RowSet]
    BY <1>b DEF DispatchInv, Typed
  <1>d. row[a].at = "write_intent"
    BY <1>a, <1>b DEF Knows, Mine, Dispatching
  <1>1. CASE Goes(e, [exec[e] EXCEPT !.at = "ambiguous"]) /\ UNCHANGED row
    <2>1. Told'
      BY <1>a, <1>1, ToldOff DEF Pcs
    <2> QED
      BY <1>a, <1>1, <2>1, OnceExec
  <1>2. CASE /\ row' = [row EXCEPT ![a].at = "accepted", ![a].cursor = c]
             /\ Goes(e, [exec[e] EXCEPT !.at = "consume"])
    <2>1. r.at = "accepted" /\ r.inv = row[a].inv /\ r.status = row[a].status /\ r.cursor = c
      BY <1>c DEF RowSet
    <2>2. row' = [row EXCEPT ![a] = r]
      BY <1>2, <1>b, <1>c
    <2>3. Told'
      BY <1>a, <1>2, ToldOff DEF Pcs
    <2> HIDE DEF r
    <2>4. Pins(r, a)
      BY <1>b, <1>d, <2>1, AsItIs DEF Pins
    <2>5. Precedes(c, a)
      BY <1>a DEF OnceInv, CursorsPrecede, ToldAccepted
    <2>6. \A i \in Said(a) : ~(i <= c)
      BY <1>b, <2>5, OnceFields DEF Precedes, Said
    <2> QED
      BY <1>a, <1>b, <1>d, <2>1, <2>2, <2>3, <2>4, <2>6, OnceRow
  <1> QED
    BY <1>1, <1>2 DEF Accept

LEMMA CloseDispatchOnce == ASSUME DispatchInv, OnceInv, NEW e \in Executors, CloseDispatch(e) PROVE OnceInv'
  <1> DEFINE a == exec[e].attempt
  <1>1. PICK pc \in {"rejected", "ambiguous"}, goal \in {"failed", "interrupted"} :
          /\ At(e, "reject") \/ At(e, "ambiguous")
          /\ row' = [row EXCEPT ![a].at = pc] /\ Ends(e, goal)
    BY DEF CloseDispatch
  <1>a. exec[e].at \in {"reject", "ambiguous"} /\ Mine(e) /\ UNCHANGED box /\ journal' = journal /\ projected' = projected
    BY <1>1 DEF CloseDispatch, At, box
  <1>b. Knows(e, exec[e]) /\ a \in Attempts
    BY <1>a, Fields
  <1>c. row[a] \in RowSet /\ row \in [Attempts -> RowSet]
    BY <1>b DEF DispatchInv, Typed
  <1>d. row[a].at = "write_intent"
    BY <1>a, <1>b DEF Knows, Mine, Dispatching
  <1> DEFINE r == [row[a] EXCEPT !.at = pc]
  <1>2. r.at = pc /\ r.inv = row[a].inv /\ r.status = row[a].status
    BY <1>c DEF RowSet
  <1>3. row' = [row EXCEPT ![a] = r]
    BY <1>1, <1>b, <1>c
  <1>4. Told'
    BY <1>1, <1>a, ToldEnds DEF Terminals
  <1> HIDE DEF r
  <1>5. Pins(r, a) /\ r.at \notin Accepted
    BY <1>b, <1>d, <1>2, AsItIs DEF Pins, Accepted
  <1> QED
    BY <1>a, <1>b, <1>d, <1>2, <1>3, <1>4, <1>5, OnceRow

LEMMA SettleOnce == ASSUME DispatchInv, OnceInv, NEW e \in Executors, Settle(e) PROVE OnceInv'
  <1> DEFINE a == exec[e].attempt
             r == [row[a] EXCEPT !.status = exec[e].goal, !.owner = "none"]
  <1>a. /\ exec[e].at = "settle" /\ Mine(e) /\ Goes(e, Idle) /\ Idle.at = "idle"
        /\ UNCHANGED box /\ journal' = journal /\ projected' = projected
    BY DEF Settle, At, Idle, box
  <1>b. a \in Attempts
    BY <1>a, Fields
  <1>c. row[a] \in RowSet /\ row \in [Attempts -> RowSet]
    BY <1>b DEF DispatchInv, Typed
  <1>1. r.at = row[a].at /\ r.inv = row[a].inv /\ r.cursor = row[a].cursor
    BY <1>c DEF RowSet
  <1>2. row' = [row EXCEPT ![a] = r]
    BY <1>b, <1>c DEF Settle
  <1>3. row[a].status = "active"
    BY <1>a, <1>b DEF DispatchInv, RowsAgree, Mine
  <1> HIDE DEF r
  <1>4. Told'
    BY <1>a, ToldGoes DEF ToldAccepted
  <1>5. Pins(r, a)
    BY <1>b, <1>1, AsItIs DEF Pins
  <1>6. r.at \in Accepted => \A i \in Said(a) : i <= r.cursor => i \in projected'[a]
    BY <1>a, <1>b, <1>1 DEF OnceInv, ShownSoFar
  <1> QED
    BY <1>a, <1>b, <1>1, <1>2, <1>3, <1>4, <1>5, <1>6, OnceRow

LEMMA ProjectOnce == ASSUME DispatchInv, OnceInv, NEW e \in Executors, Project(e) PROVE OnceInv'
  <1> DEFINE a == exec[e].attempt
             n == exec[e].through
             c == row[a].cursor
             at == IF "settled" \in Kinds(c, n) THEN "settled" ELSE IF "exit" \in Kinds(c, n) THEN "exited" ELSE "accepted"
             r == [row[a] EXCEPT !.cursor = n, !.at = at]
             shown == projected[a] \cup (c + 1)..n
  <1>a. exec[e].at = "project" /\ Mine(e) /\ UNCHANGED box /\ journal' = journal /\ Goes(e, [exec[e] EXCEPT !.at = "ack"])
    BY DEF Project, At, box
  <1>b. Knows(e, exec[e]) /\ a \in Attempts /\ n \in Nat
    BY <1>a, Fields
  <1>c. row[a] \in RowSet /\ row \in [Attempts -> RowSet] /\ projected \in [Attempts -> SUBSET Nat] /\ c \in Nat
    BY <1>b, OnceFields DEF DispatchInv, Typed
  <1>d. row[a].at = "accepted"
    BY <1>a, <1>b DEF Knows, Mine
  <1>e. at \in Accepted
    BY DEF Accepted
  <1>1. row' = [row EXCEPT ![a] = r]
    <2>1. row' = [row EXCEPT ![a].cursor = n, ![a].at = at]
      BY DEF Project
    <2> HIDE DEF at
    <2> QED
      BY <1>b, <1>c, <2>1
  <1>2. projected' = [projected EXCEPT ![a] = shown]
    BY <1>b, <1>c DEF Project
  <1> HIDE DEF at
  <1>3. r.at = at /\ r.inv = row[a].inv /\ r.status = row[a].status /\ r.cursor = n
    BY <1>c DEF RowSet
  <1>4. Told'
    BY <1>a, ToldOff DEF Pcs
  <1> HIDE DEF r
  <1>5. Pins(r, a)
    BY <1>b, <1>d, <1>e, <1>3, AsItIs DEF Pins, Accepted
  <1>6. projected'[a] = shown /\ \A b \in Attempts \ {a} : projected'[b] = projected[b]
    BY <1>b, <1>c, <1>2
  <1>7. \A i \in Said(a) : i <= n => i \in shown
    <2>1. \A i \in Said(a) : i \in Nat /\ (i <= c => i \in projected[a])
      BY <1>b, <1>d, OnceFields DEF OnceInv, ShownSoFar, Said, Accepted
    <2> QED
      BY <1>b, <1>c, <2>1
  <1>8. projected[a] \subseteq projected'[a]
    BY <1>6
  <1> HIDE DEF shown
  <1> QED
    BY <1>a, <1>b, <1>d, <1>1, <1>3, <1>4, <1>5, <1>6, <1>7, <1>8, OnceRow

\* A new daemon has nothing of its invocation to forget, and takes no prompt of an earlier one.
LEMMA RestartedOnce ==
  ASSUME DispatchInv, OnceInv, Restarted, UNCHANGED <<row, projected, journal, runs>>, Told'
  PROVE  OnceInv'
  <1>a. /\ broker'.inv = broker.inv + 1 /\ broker'.ledger = <<>> /\ broker'.acked = Len(journal)
        /\ broker'.asked = Nothing /\ broker'.active = 0 /\ pi'.busy = 0 /\ Len(journal) \in Nat
    BY Restarts, BoxFields DEF Resting
  <1>1. PromptRunsOnce' /\ ShownSoFar'
    BY DEF OnceInv, PromptRunsOnce, ShownSoFar, Said
  <1>2. RunsSpend'
    <2>1. \A a \in Attempts : row[a].at # "starting" => row[a].inv < broker'.inv
      BY <1>a, OnceFields
    <2> QED
      BY <1>a, <2>1 DEF RunsSpend, Spent
  <1>3. CursorsPrecede'
    BY <1>a DEF CursorsPrecede, Told
  <1>4. EndsLast'
    <2>1. \A b \in Attempts : Said(b)' = Said(b)
      BY DEF Said
    <2> QED
      BY <1>a, <2>1 DEF OnceInv, EndsLast
  <1>5. AckedWasProjected'
    <2>1. \A i \in 1..Len(journal) : journal[i].inv <= broker.inv /\ journal[i].inv \in Nat
      BY OnceFields
    <2>2. \A i \in 1..Len(journal) : journal[i].inv # broker.inv + 1
      BY <2>1, BoxFields
    <2> QED
      BY <1>a, <2>2 DEF AckedWasProjected
  <1> QED
    BY <1>1, <1>2, <1>3, <1>4, <1>5 DEF OnceInv

LEMMA RepairOnce == ASSUME DispatchInv, OnceInv, NEW e \in Executors, Repair(e) PROVE OnceInv'
  <1>a. UNCHANGED <<row, projected, journal, runs>>
    BY DEF Repair
  <1>1. CASE Restarted /\ Goes(e, [exec[e] EXCEPT !.at = "recheck"])
    <2>1. Told'
      BY <1>a, <1>1, ToldOff DEF Pcs
    <2> QED
      BY <1>a, <1>1, <2>1, RestartedOnce
  <1>2. CASE Ends(e, "failed") /\ UNCHANGED <<broker, pi>>
    <2>1. Told'
      BY <1>a, <1>2, ToldEnds DEF Terminals
    <2> QED
      BY <1>a, <1>2, <2>1, OnceExec DEF box
  <1> QED
    BY <1>1, <1>2 DEF Repair

LEMMA DaemonRestartsOnce == ASSUME DispatchInv, OnceInv, DaemonRestarts PROVE OnceInv'
  <1>a. UNCHANGED <<row, projected, exec, journal, runs>> /\ Restarted
    BY DEF DaemonRestarts
  <1> QED
    BY <1>a, ToldStays, RestartedOnce

LEMMA CleanupOnce == ASSUME DispatchInv, OnceInv, NEW e \in Executors, Cleanup(e) PROVE OnceInv'
  <1>a. /\ Goes(e, [exec[e] EXCEPT !.at = "settle"]) /\ UNCHANGED <<row, projected, journal, pi, runs>>
        /\ broker' \in {broker, [broker EXCEPT !.active = 0]}
    BY DEF Cleanup
  <1>b. /\ broker'.inv = broker.inv /\ broker'.ledger = broker.ledger /\ broker'.acked = broker.acked
        /\ broker'.asked = broker.asked /\ broker'.active \in {0, broker.active}
    BY <1>a, BoxFields DEF Brokers
  <1>c. Told'
    BY <1>a, ToldOff DEF Pcs
  <1>d. \A b \in Attempts : Said(b)' = Said(b) /\ Recorded(b)' = Recorded(b)
    BY <1>a, <1>b DEF Said, Recorded
  <1>1. PromptRunsOnce' /\ ShownSoFar'
    BY <1>a DEF OnceInv, PromptRunsOnce, ShownSoFar, Said
  <1>2. RunsSpend'
    BY <1>a, <1>b, <1>d DEF OnceInv, RunsSpend, Spent
  <1>3. CursorsPrecede'
    BY <1>a, <1>b, <1>c DEF OnceInv, CursorsPrecede, Told, Precedes, Said
  <1>4. EndsLast'
    BY <1>a, <1>b DEF OnceInv, EndsLast, Said
  <1>5. AckedWasProjected'
    BY <1>a, <1>b DEF OnceInv, AckedWasProjected
  <1> QED
    BY <1>1, <1>2, <1>3, <1>4, <1>5 DEF OnceInv

\* An attempt whose journal has its end shows all it said.
LEMMA Complete ==
  ASSUME DispatchInv, OnceInv, NEW a \in Attempts, row[a].at \in {"settled", "exited"}
  PROVE  Said(a) \subseteq projected[a]
  <1>1. PICK j \in 1..row[a].cursor : journal[j].attempt = a /\ journal[j].kind # "event"
    BY DEF DispatchInv, EndIsShown
  <1>2. j \in Said(a) /\ j <= row[a].cursor /\ j \in Nat /\ row[a].cursor \in Nat
    BY <1>1, OnceFields DEF Said
  <1>3. ASSUME NEW i \in Said(a) PROVE i \in projected[a]
    <2>1. i \in Nat
      BY OnceFields DEF Said
    <2>2. ~(j < i)
      BY <1>1, <1>2 DEF OnceInv, EndsLast
    <2>3. i <= row[a].cursor
      BY <1>2, <2>1, <2>2
    <2> QED
      BY <2>3 DEF OnceInv, ShownSoFar, Accepted
  <1> QED
    BY <1>3

LEMMA AckOnce == ASSUME DispatchInv, OnceInv, NEW e \in Executors, Ack(e) PROVE OnceInv'
  <1> DEFINE a == exec[e].attempt
             n == IF exec[e].through > broker.acked THEN exec[e].through ELSE broker.acked
  <1>a. /\ exec[e].at = "ack" /\ Mine(e) /\ UNCHANGED <<row, projected, journal, pi, runs>>
        /\ broker' = [broker EXCEPT !.acked = n]
    BY DEF Ack, At
  <1>b. Knows(e, exec[e]) /\ a \in Attempts
    BY <1>a, Fields
  <1>c. row[a].at \in Accepted /\ exec[e].through = row[a].cursor /\ row[a].owner = e /\ row[a].status = "active"
    BY <1>a, <1>b DEF Knows, Mine, Consuming, DispatchInv, RowsAgree
  <1>d. n \in {broker.acked, row[a].cursor}
    BY <1>c
  <1> HIDE DEF n
  <1>e. /\ broker'.inv = broker.inv /\ broker'.ledger = broker.ledger /\ broker'.acked = n
        /\ broker'.asked = broker.asked /\ broker'.active = broker.active
    BY <1>a, BoxFields DEF Brokers
  <1>f. Told'
    <2>1. CASE Ends(e, "succeeded") \/ Ends(e, "failed")
      BY <1>a, <2>1, ToldEnds DEF Terminals
    <2>2. CASE Goes(e, [exec[e] EXCEPT !.at = "consume"])
      BY <1>a, <2>2, ToldOff DEF Pcs
    <2> QED
      BY <2>1, <2>2 DEF Ack
  <1>g. \A b \in Attempts : Said(b)' = Said(b) /\ Recorded(b)' = Recorded(b)
    BY <1>a, <1>e DEF Said, Recorded
  <1>1. PromptRunsOnce' /\ ShownSoFar'
    BY <1>a DEF OnceInv, PromptRunsOnce, ShownSoFar, Said
  <1>2. RunsSpend'
    BY <1>a, <1>e, <1>g DEF OnceInv, RunsSpend, Spent
  <1>3. CursorsPrecede'
    BY <1>a, <1>e, <1>f DEF OnceInv, CursorsPrecede, Told, Precedes, Said
  <1>4. EndsLast'
    BY <1>a, <1>e DEF OnceInv, EndsLast, Said
  <1>5. AckedWasProjected'
    <2>1. ASSUME NEW i \in 1..row[a].cursor,
                 row[journal[i].attempt].status # "interrupted", row[journal[i].attempt].at # "rejected"
          PROVE  i \in projected[journal[i].attempt]
      <3> DEFINE b == journal[i].attempt
      <3>1. i \in 1..Len(journal) /\ b \in Attempts /\ row[b].at # "starting" /\ i \in Said(b)
        BY <1>b, OnceFields DEF Said
      <3>2. CASE b = a
        BY <1>c, <3>1, <3>2 DEF OnceInv, ShownSoFar
      <3>3. CASE b < a
        <4>1. b \in 1..(a - 1)
          BY <1>b, <3>1, <3>3
        <4>2. row[b].status \in Terminals
          BY <1>b, <1>c, <4>1 DEF DispatchInv, RowsAgree
        <4>3. Ended(row[b].status, row[b].at)
          BY <3>1 DEF DispatchInv, RowsAgree
        <4>4. row[b].at \in {"settled", "exited"}
          BY <2>1, <3>1, <4>2, <4>3 DEF Ended, Terminals
        <4> QED
          BY <3>1, <4>4, Complete
      <3>4. CASE b > a
        <4>1. a \in 1..(b - 1)
          BY <1>b, <3>1, <3>4
        <4>2. row[b].status = "queued"
          BY <1>c, <3>1, <4>1 DEF DispatchInv, RowsAgree, Terminals
        <4> QED
          BY <3>1, <4>2 DEF DispatchInv, RowsAgree
      <3> QED
        BY <1>b, <3>1, <3>2, <3>3, <3>4
    <2>2. CASE n = broker.acked
      BY <1>a, <1>e, <2>2 DEF OnceInv, AckedWasProjected
    <2>3. CASE n = row[a].cursor
      BY <1>a, <1>e, <2>1, <2>3 DEF AckedWasProjected
    <2> QED
      BY <1>d, <2>2, <2>3
  <1> QED
    BY <1>1, <1>2, <1>3, <1>4, <1>5 DEF OnceInv

\* The journal may get a record of the attempt that is bound, of which Pi began the prompt or which it leaves.
Later(b) == {i \in DOMAIN journal' : journal'[i].attempt = b}
LEMMA JournaledOnce ==
  ASSUME DispatchInv, OnceInv, NEW kind \in {"event", "settled", "exit"}, Journaled(kind) \/ journal' = journal,
         UNCHANGED <<row, projected, exec, runs>>, pi'.dead \/ (~pi.dead /\ pi.busy # 0),
         pi'.busy \in {0, pi.busy},
         \/ broker' = broker /\ kind = "event"
         \/ broker' = [broker EXCEPT !.active = 0]
  PROVE  OnceInv'
  <1>a. /\ broker'.inv = broker.inv /\ broker'.ledger = broker.ledger /\ broker'.acked = broker.acked
        /\ broker'.asked = broker.asked /\ (broker'.active = 0 \/ (broker'.active = broker.active /\ kind = "event"))
    BY BoxFields DEF Brokers
  <1>b. /\ Grows
        /\ \A i \in 1..Len(journal') : i \in 1..Len(journal)
              \/ /\ i = Len(journal) + 1 /\ broker.active # 0
                 /\ journal'[i].attempt = broker.active /\ journal'[i].kind = kind
    BY StillGrows, Journals
  <1>c. /\ Len(journal) \in Nat /\ Len(journal') \in Nat /\ Len(journal) <= Len(journal')
        /\ DOMAIN journal = 1..Len(journal) /\ DOMAIN journal' = 1..Len(journal')
    BY <1>b, BoxFields DEF Grows
  <1>d. \A i \in 1..Len(journal) : i \in 1..Len(journal') /\ journal'[i] = journal[i]
    BY <1>b, <1>c DEF Grows
  \* What an attempt said it still said; what is new comes after, and is of the attempt that is bound.
  <1>e. \A b \in Attempts : /\ \A i \in Said(b) : i \in 1..Len(journal)
                            /\ \A i \in Later(b) : i \in Said(b) \/ (i = Len(journal) + 1 /\ broker.active = b
                                                                      /\ broker.active # 0 /\ journal'[i].kind = kind)
    BY <1>b, <1>c, <1>d DEF Said, Later
  <1>f. \A b \in Attempts : Recorded(b)' = Recorded(b)
    BY <1>a DEF Recorded
  <1>1. PromptRunsOnce'
    BY DEF OnceInv, PromptRunsOnce
  <1>2. RunsSpend'
    <2> SUFFICES ASSUME NEW b \in Attempts, row[b].at # "starting", runs[b] # 0 \/ Later(b) # {}
                 PROVE  Spent(b)'
      BY DEF RunsSpend, Said, Later, OnceInv
    <2>1. CASE pi'.dead
      BY <2>1 DEF Spent
    <2>2. CASE ~pi'.dead
      <3>1. ~pi.dead /\ pi.busy # 0
        BY <2>2
      <3>2. runs[b] # 0 \/ Said(b) # {}
        <4>1. CASE broker.active = b /\ broker.active # 0
          <5>1. pi.busy = b
            BY <3>1, <4>1 DEF DispatchInv, BoxAgrees
          <5> QED
            BY <3>1, <5>1 DEF OnceInv, RunsSpend
        <4>2. CASE ~(broker.active = b /\ broker.active # 0)
          BY <1>e, <4>2
        <4> QED
          BY <4>1, <4>2
      <3>3. Spent(b)
        BY <3>2 DEF OnceInv, RunsSpend
      <3> QED
        BY <1>a, <1>f, <3>1, <3>3 DEF Spent
    <2> QED
      BY <2>1, <2>2
  <1>3. CursorsPrecede'
    <2> DEFINE Before(c, b) == \A i \in Later(b) : i > c
    <2>1. ASSUME NEW b \in Attempts, NEW c \in Nat, c <= Len(journal), Precedes(c, b) PROVE Before(c, b)
      BY <1>c, <1>e, <2>1 DEF Precedes
    <2>2. broker.asked # Nothing => Before(broker.asked.cursor, broker.asked.attempt)
      BY <2>1, BoxFields DEF OnceInv, CursorsPrecede, Asks
    <2>3. \A i \in DOMAIN broker.ledger : Before(broker.ledger[i].cursor, broker.ledger[i].attempt)
      BY <2>1, BoxFields DEF OnceInv, CursorsPrecede, Notes
    <2>4. ASSUME NEW e \in Executors, ToldAccepted(exec[e]) PROVE Before(exec[e].reply.cursor, exec[e].attempt)
      <3>1. exec[e].attempt \in Attempts /\ exec[e].reply.cursor \in Nat /\ exec[e].reply.cursor <= Len(journal)
        BY <2>4, Fields DEF ToldAccepted, Reaches, Replies
      <3>2. Precedes(exec[e].reply.cursor, exec[e].attempt)
        BY <2>4 DEF OnceInv, CursorsPrecede
      <3> QED
        BY <3>1, <3>2, <2>1
    <2> QED
      BY <1>a, <2>2, <2>3, <2>4 DEF Later, CursorsPrecede, Precedes, Said, ToldAccepted
  <1>4. ShownSoFar'
    <2> SUFFICES ASSUME NEW b \in Attempts, row[b].at \in Accepted, NEW i \in Later(b), i <= row[b].cursor
                 PROVE  i \in projected[b]
      BY DEF ShownSoFar, Said, Later
    <2>1. i \in Said(b)
      BY <1>c, <1>e, OnceFields
    <2> QED
      BY <2>1 DEF OnceInv, ShownSoFar
  <1>5. EndsLast'
    <2>1. \A b \in Attempts : \A i \in Said(b) : journal'[i] = journal[i] /\ i \in Nat /\ i <= Len(journal)
      BY <1>c, <1>d, <1>e
    <2>2. broker.active # 0 => broker.active \in Attempts
      BY BoxFields
    <2>3. \A b \in Attempts : \A i, j \in Later(b) : i < j => journal'[i].kind = "event"
      <3> SUFFICES ASSUME NEW b \in Attempts, NEW i \in Later(b), NEW j \in Later(b), i < j
                   PROVE  journal'[i].kind = "event"
        OBVIOUS
      <3>1. i \in Said(b)
        BY <1>c, <1>e, <2>1
      <3>2. CASE j \in Said(b)
        BY <3>1, <3>2, <2>1 DEF OnceInv, EndsLast
      <3>3. CASE broker.active = b /\ broker.active # 0
        BY <3>1, <3>3, <2>1 DEF OnceInv, EndsLast
      <3> QED
        BY <1>e, <3>2, <3>3
    <2>4. broker'.active # 0 => \A i \in Later(broker'.active) : journal'[i].kind = "event"
      BY <1>a, <1>e, <2>1, <2>2 DEF OnceInv, EndsLast
    <2> QED
      BY <2>3, <2>4 DEF EndsLast, Said, Later
  <1>6. AckedWasProjected'
    <2>1. \A i \in 1..broker.acked : i \in 1..Len(journal)
      BY BoxFields
    <2> QED
      BY <1>a, <1>d, <2>1 DEF OnceInv, AckedWasProjected
  <1> QED
    BY <1>1, <1>2, <1>3, <1>4, <1>5, <1>6 DEF OnceInv

LEMMA PiEventOnce == ASSUME DispatchInv, OnceInv, PiEvent PROVE OnceInv'
  <1>1. /\ pi.busy # 0 /\ ~pi.dead /\ Journaled("event") /\ UNCHANGED <<row, projected, exec, broker, runs>>
    BY DEF PiEvent
  <1>2. pi'.busy = pi.busy
    BY BoxFields DEF PiEvent, Pis
  <1> QED
    BY <1>1, <1>2, JournaledOnce

LEMMA PiSettlesOnce == ASSUME DispatchInv, OnceInv, PiSettles PROVE OnceInv'
  <1>1. /\ pi.busy # 0 /\ ~pi.dead /\ Journaled("settled") /\ UNCHANGED <<row, projected, exec, runs>>
        /\ broker' = [broker EXCEPT !.active = 0] /\ pi'.busy = 0
    BY DEF PiSettles, Resting
  <1> QED
    BY <1>1, JournaledOnce

LEMMA PiExitsOnce == ASSUME DispatchInv, OnceInv, PiExits PROVE OnceInv'
  <1>1. /\ Journaled("exit") \/ journal' = journal
        /\ UNCHANGED <<row, projected, exec, runs>>
        /\ broker' = [broker EXCEPT !.active = 0] /\ pi'.dead /\ pi'.busy = 0
    BY DEF PiExits, Resting
  <1> QED
    BY <1>1, JournaledOnce

\* A command that is answered tells a cursor that precedes what its attempt said.
LEMMA AnswersTold ==
  ASSUME DispatchInv, OnceInv, NEW m \in Prompts, NEW is \in {"accepted", "refused", "ambiguous"}, NEW c \in Nat,
         c <= Len(journal), Answered(m, is, c), journal' = journal, is = "accepted" => Precedes(c, m.attempt)
  PROVE  Told'
  <1>1. \A f \in Executors :
          /\ exec'[f].at = exec[f].at /\ exec'[f].attempt = exec[f].attempt
          /\ \/ exec'[f] = exec[f]
             \/ exec[f].at = "await" /\ exec[f].attempt = m.attempt /\ exec'[f].reply.is = is /\ exec'[f].reply.cursor = c
    BY Answers
  <1>2. \A f \in Executors : ToldAccepted(exec'[f]) => Precedes(exec'[f].reply.cursor, exec'[f].attempt)
    BY <1>1 DEF OnceInv, CursorsPrecede, ToldAccepted
  <1> QED
    BY <1>2 DEF Told, ToldAccepted, Precedes, Said

LEMMA DeliverOnce == ASSUME DispatchInv, OnceInv, NEW m \in net, Deliver(m) PROVE OnceInv'
  <1>a. /\ UNCHANGED <<row, projected>> /\ m \in Prompts /\ m.attempt \in Attempts /\ Pinned(m.attempt, m.inv)
        /\ broker.asked = Nothing
    BY BoxFields DEF Deliver, Free, Prompts, DispatchInv, BoxAgrees
  <1>1. CASE (Stale(m) \/ pi.dead) /\ Answered(m, "ambiguous", 0) /\ UNCHANGED box
    <2>1. Told'
      BY <1>1, <1>a, AnswersTold, BoxFields DEF box
    <2> QED
      BY <1>1, <1>a, <2>1, OnceExec
  <1>2. ASSUME NEW r \in Recorded(m.attempt), Answered(m, "accepted", r.cursor), UNCHANGED box PROVE OnceInv'
    <2>1. Precedes(r.cursor, m.attempt) /\ r.cursor \in Nat /\ r.cursor <= Len(journal)
      BY <1>a, <1>2, RecordedPrecedes
    <2>2. Told'
      BY <1>2, <1>a, <2>1, AnswersTold DEF box
    <2> QED
      BY <1>2, <1>a, <2>2, OnceExec
  <1>3. CASE Answered(m, IF broker.active # 0 THEN "ambiguous" ELSE "refused", 0) /\ UNCHANGED box
    <2> DEFINE is == IF broker.active # 0 THEN "ambiguous" ELSE "refused"
    <2>1. is \in {"refused", "ambiguous"}
      OBVIOUS
    <2>2. Answered(m, is, 0)
      BY <1>3
    <2> HIDE DEF is
    <2>3. Told'
      BY <1>3, <1>a, <2>1, <2>2, AnswersTold, BoxFields DEF box
    <2> QED
      BY <1>3, <1>a, <2>3, OnceExec
  <1>4. ASSUME NEW takes \in BOOLEAN, ~Stale(m), ~pi.dead, Recorded(m.attempt) = {}, broker.active = 0, pi.busy = 0,
               broker' = [broker EXCEPT !.active = m.attempt,
                            !.asked = [attempt |-> m.attempt, m |-> m, takes |-> takes, cursor |-> TailCursor]],
               IF takes THEN pi' = [Resting EXCEPT !.busy = m.attempt] /\ runs' = [runs EXCEPT ![m.attempt] = @ + 1]
                        ELSE UNCHANGED <<pi, runs>>,
               UNCHANGED <<exec, journal>>
        PROVE  OnceInv'
    <2> DEFINE a == m.attempt
               q == [attempt |-> m.attempt, m |-> m, takes |-> takes, cursor |-> Len(journal)]
    <2>1. q.attempt = a /\ q.takes = takes /\ q.cursor = Len(journal) /\ q # Nothing
      BY DEF Nothing
    <2>2. broker' = [broker EXCEPT !.active = a, !.asked = q]
      BY <1>4
    <2> HIDE DEF q
    <2>3. /\ broker'.inv = broker.inv /\ broker'.ledger = broker.ledger /\ broker'.acked = broker.acked
          /\ broker'.asked = q /\ broker'.active = a
      BY <2>2, BoxFields DEF Brokers
    <2>4. row[a].at # "starting" /\ row[a].inv = broker.inv
      BY <1>a, <1>4 DEF Pinned, Stale
    \* The prompt was never taken before, and nothing was said in answer to it.
    <2>5. runs[a] = 0 /\ Said(a) = {}
      <3>1. ~Spent(a)
        <4>1. ~(row[a].inv < broker.inv)
          BY <2>4, BoxFields
        <4> QED
          BY <1>a, <1>4, <4>1 DEF Spent
      <3> QED
        BY <1>a, <2>4, <3>1 DEF OnceInv, RunsSpend
    <2>6. /\ \A b \in Attempts \ {a} : runs'[b] = runs[b]
          /\ takes => runs'[a] = 1 /\ pi'.busy = a
          /\ ~takes => runs'[a] = 0 /\ pi'.busy = 0
          /\ ~pi'.dead
      <3>1. CASE takes
        <4>1. pi' = [Resting EXCEPT !.busy = a] /\ runs' = [runs EXCEPT ![a] = runs[a] + 1]
          BY <1>4, <3>1
        <4>2. ~pi'.dead /\ pi'.busy = a
          BY <4>1 DEF Resting
        <4> QED
          BY <1>a, <2>5, <3>1, <4>1, <4>2, BoxFields
      <3>2. CASE ~takes
        BY <1>4, <2>5, <3>2
      <3> QED
        BY <3>1, <3>2
    <2>7. \A b \in Attempts : Said(b)' = Said(b) /\ Recorded(b)' = Recorded(b)
      BY <1>4, <2>3 DEF Said, Recorded
    <2>8. PromptRunsOnce' /\ ShownSoFar'
      <3>1. PromptRunsOnce'
        BY <2>6 DEF OnceInv, PromptRunsOnce
      <3> QED
        BY <3>1, <1>a, <1>4 DEF OnceInv, ShownSoFar, Said
    <2>9. RunsSpend'
      <3>1. ASSUME NEW b \in Attempts, row'[b].at # "starting", runs'[b] # 0 \/ Said(b)' # {} PROVE Spent(b)'
        <4>1. CASE b = a
          BY <3>1, <4>1, <2>1, <2>3, <2>5, <2>6, <2>7 DEF Spent
        <4>2. CASE b # a
          <5>1. Spent(b)
            BY <3>1, <4>2, <1>a, <2>6, <2>7 DEF OnceInv, RunsSpend
          <5> QED
            BY <5>1, <1>a, <1>4, <2>3, <2>7 DEF Spent
        <4> QED
          BY <4>1, <4>2
      <3>2. pi'.busy # 0 => runs'[pi'.busy] # 0
        BY <2>6
      <3> QED
        BY <3>1, <3>2 DEF RunsSpend
    <2>10. CursorsPrecede'
      <3>1. Precedes(Len(journal), a)
        BY <2>5 DEF Precedes
      <3> QED
        BY <3>1, <1>4, <2>1, <2>3 DEF OnceInv, CursorsPrecede, Precedes, Said, ToldAccepted
    <2>11. EndsLast'
      BY <1>4, <2>3, <2>5 DEF OnceInv, EndsLast, Said
    <2>12. AckedWasProjected'
      BY <1>a, <1>4, <2>3 DEF OnceInv, AckedWasProjected
    <2> QED
      BY <2>8, <2>9, <2>10, <2>11, <2>12 DEF OnceInv
  <1> QED
    BY <1>1, <1>2, <1>3, <1>4 DEF Deliver

LEMMA PiAnswersOnce == ASSUME DispatchInv, OnceInv, AnswersArrive, PiAnswers PROVE OnceInv'
  <1> DEFINE q == broker.asked
  <1>a. /\ q # Nothing /\ q \in Asks /\ UNCHANGED <<row, projected, journal, pi, runs>>
        /\ q.m \in Prompts /\ q.attempt \in Attempts /\ q.cursor \in Nat /\ q.cursor <= Len(journal)
        /\ q.attempt = q.m.attempt /\ q.takes \in BOOLEAN /\ Precedes(q.cursor, q.attempt)
    BY BoxFields DEF PiAnswers, Free, Asks, DispatchInv, BoxAgrees, OnceInv, CursorsPrecede
  \* What is left to show of an answer.
  <1>1. ASSUME Told', broker'.inv = broker.inv, broker'.acked = broker.acked, broker'.asked = Nothing,
               broker'.active \in {0, broker.active},
               \A i \in DOMAIN broker'.ledger : Precedes(broker'.ledger[i].cursor, broker'.ledger[i].attempt),
               \A b \in Attempts : Spent(b) => Spent(b)'
        PROVE  OnceInv'
    <2>1. PromptRunsOnce' /\ ShownSoFar'
      BY <1>a DEF OnceInv, PromptRunsOnce, ShownSoFar, Said
    <2>2. RunsSpend'
      <3>1. \A b \in Attempts : Said(b)' = Said(b)
        BY <1>a DEF Said
      <3> QED
        BY <1>a, <1>1, <3>1 DEF OnceInv, RunsSpend
    <2>3. CursorsPrecede'
      BY <1>a, <1>1 DEF CursorsPrecede, Told, Precedes, Said
    <2>4. EndsLast'
      BY <1>a, <1>1 DEF OnceInv, EndsLast, Said
    <2>5. AckedWasProjected'
      BY <1>a, <1>1 DEF OnceInv, AckedWasProjected
    <2> QED
      BY <2>1, <2>2, <2>3, <2>4, <2>5 DEF OnceInv
  <1>2. CASE /\ q.takes
             /\ broker' = [[broker EXCEPT !.asked = Nothing]
                             EXCEPT !.ledger = Append(@, [attempt |-> q.attempt, cursor |-> LedgerCursor])]
             /\ Answered(q.m, "accepted", LedgerCursor)
    <2> DEFINE new == [attempt |-> q.attempt, cursor |-> q.cursor]
    <2>1. new \in Notes /\ new.attempt = q.attempt /\ new.cursor = q.cursor
      BY <1>a DEF Notes
    <2>2. broker' = [broker EXCEPT !.asked = Nothing, !.ledger = Append(broker.ledger, new)]
      BY <1>2, BoxFields DEF LedgerCursor, Brokers
    <2> HIDE DEF new
    <2>3. /\ broker'.inv = broker.inv /\ broker'.acked = broker.acked /\ broker'.asked = Nothing
          /\ broker'.active = broker.active /\ broker'.ledger = Append(broker.ledger, new)
      BY <2>2, BoxFields DEF Brokers
    <2>4. /\ \A i \in DOMAIN broker'.ledger :
               broker'.ledger[i] = new \/ (i \in DOMAIN broker.ledger /\ broker'.ledger[i] = broker.ledger[i])
          /\ \A i \in DOMAIN broker.ledger : i \in DOMAIN broker'.ledger /\ broker'.ledger[i] = broker.ledger[i]
          /\ \E i \in DOMAIN broker'.ledger : broker'.ledger[i] = new
      <3>1. broker.ledger \in Seq(Notes) /\ Len(broker.ledger) \in Nat
        BY BoxFields
      <3> QED
        BY <2>1, <2>3, <3>1
    <2>5. \A i \in DOMAIN broker'.ledger : Precedes(broker'.ledger[i].cursor, broker'.ledger[i].attempt)
      BY <1>a, <2>1, <2>4 DEF OnceInv, CursorsPrecede
    <2>6. Told'
      BY <1>2, <1>a, AnswersTold DEF LedgerCursor
    <2>7. ASSUME NEW b \in Attempts, Spent(b) PROVE Spent(b)'
      <3>1. CASE Recorded(b) # {} \/ b = q.attempt
        <4>1. \E i \in DOMAIN broker'.ledger : broker'.ledger[i].attempt = b
          BY <3>1, <2>1, <2>4 DEF Recorded
        <4>2. Recorded(b)' # {}
          BY <4>1 DEF Recorded
        <4> QED
          BY <4>2 DEF Spent
      <3>2. CASE ~(Recorded(b) # {} \/ b = q.attempt)
        BY <3>2, <2>7, <1>a, <2>3 DEF Spent
      <3> QED
        BY <3>1, <3>2
    <2> QED
      BY <1>1, <2>3, <2>5, <2>6, <2>7
  <1>3. ASSUME NEW is \in {"refused", "ambiguous"}, Answered(q.m, is, 0), ~q.takes \/ pi.dead,
               broker' = [broker EXCEPT !.asked = Nothing] \/ broker' = [broker EXCEPT !.asked = Nothing, !.active = 0]
        PROVE  OnceInv'
    <2>1. /\ broker'.inv = broker.inv /\ broker'.acked = broker.acked /\ broker'.asked = Nothing
          /\ broker'.active \in {0, broker.active} /\ broker'.ledger = broker.ledger
      BY <1>3, BoxFields DEF Brokers
    <2>2. Told'
      BY SMTT(20), <1>3, <1>a, AnswersTold, BoxFields
    <2>3. ASSUME NEW b \in Attempts, Spent(b) PROVE Spent(b)'
      <3>1. Recorded(b)' = Recorded(b)
        BY <2>1 DEF Recorded
      <3> QED
        BY <2>3, <3>1, <1>3, <1>a, <2>1 DEF Spent
    <2>4. \A i \in DOMAIN broker'.ledger : Precedes(broker'.ledger[i].cursor, broker'.ledger[i].attempt)
      BY <2>1 DEF OnceInv, CursorsPrecede
    <2> QED
      BY <1>1, <2>1, <2>2, <2>3, <2>4
  <1> QED
    BY <1>2, <1>3 DEF PiAnswers, AnswersArrive
-----------------------------------------------------------------------------
(* A prompt runs once, and what Pi said in its run is shown.                 *)

LEMMA OnceStepHolds == AnswersArrive /\ DispatchInv /\ OnceInv /\ [Next]_vars => OnceInv'
  <1> SUFFICES ASSUME AnswersArrive, DispatchInv, OnceInv, [Next]_vars PROVE OnceInv'
    OBVIOUS
  <1>1. CASE UNCHANGED vars
    <2>1. UNCHANGED <<row, projected, box>> /\ exec' = exec /\ journal' = journal
      BY <1>1 DEF vars, box
    <2> QED
      BY <2>1, ToldStays, OnceExec
  <1>2. ASSUME NEW e \in Executors, Executor(e) PROVE OnceInv'
    BY <1>2, ClaimOnce, LosesFenceOnce, ResumeOnce, RepairOnce, RecheckOnce, WriteIntentOnce, ProveOnce, SendOnce,
       ReceiveOnce, ResolveOnce, AcceptOnce, CloseDispatchOnce, CleanupOnce, SettleOnce, ReadOnce,
       ProjectOnce, AckOnce DEF Executor
  <1>3. ASSUME NEW m \in net, Deliver(m) \/ LosesMessage(m) PROVE OnceInv'
    BY <1>3, DeliverOnce, LosesMessageOnce
  <1>4. CASE PiAnswers \/ PiEvent \/ PiSettles \/ DaemonRestarts \/ Expire \/ PiExits
    BY <1>4, PiAnswersOnce, PiEventOnce, PiSettlesOnce, DaemonRestartsOnce, ExpireOnce, PiExitsOnce
  <1> QED
    BY <1>1, <1>2, <1>3, <1>4 DEF Next, Broker

\* While Pi's answers reach the broker and its ledger, a prompt the daemon took is never taken again, every
\* cursor told for an attempt lies before what the attempt said, and nothing follows the attempt's end
\* (CompanionPiBroker #prompt, acceptPiRecord).
THEOREM OnceHolds == AnswersArrive => (Spec => []OnceInv)
  <1> SUFFICES ASSUME AnswersArrive PROVE Spec => []OnceInv
    OBVIOUS
  <1>1. DispatchInv /\ OnceInv /\ [Next]_vars => OnceInv'
    BY OnceStepHolds
  <1> QED
    BY OnceStarts, DispatchHolds, <1>1, PTL DEF Spec

\* Pi begins the prompt of an attempt at most once, however often it is sent, whichever replica holds the
\* lane and whichever daemon receives it, while its answers arrive.
THEOREM RunsOnce == AnswersArrive => (Spec => []PromptRunsOnce)
  <1>1. OnceInv => PromptRunsOnce
    BY DEF OnceInv
  <1> QED
    BY OnceHolds, <1>1, PTL

\* The broker forgets no record of its invocation that is not durable in the conversation, but those of
\* an interrupted turn or a refused prompt (ackEvents after the projection), while Pi's answers arrive.
THEOREM AckedIsProjected == AnswersArrive => (Spec => []AckedWasProjected)
  <1>1. OnceInv => AckedWasProjected
    BY DEF OnceInv
  <1> QED
    BY OnceHolds, <1>1, PTL

LEMMA SucceededShows == DispatchInv /\ OnceInv => SucceededComplete
  <1> SUFFICES ASSUME DispatchInv, OnceInv, NEW a \in Attempts, row[a].status = "succeeded"
               PROVE  {i \in DOMAIN journal : journal[i].attempt = a /\ journal[i].inv = row[a].inv} \subseteq projected[a]
    BY DEF SucceededComplete
  <1>1. row[a].at = "settled"
    BY DEF DispatchInv, RowsAgree, Ended
  <1>2. Said(a) \subseteq projected[a]
    BY <1>1, Complete
  <1> QED
    BY <1>2 DEF Said

\* A turn that succeeded shows everything Pi said in it, also what it said before its acceptance was known,
\* whatever was lost, resent or restarted on the way, while Pi's answers arrive.
THEOREM SucceededShowsAll == AnswersArrive => (Spec => []SucceededComplete)
  <1>1. DispatchInv /\ OnceInv => SucceededComplete
    BY SucceededShows
  <1> QED
    BY DispatchHolds, OnceHolds, <1>1, PTL
=============================================================================
