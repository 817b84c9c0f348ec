--------------------------- MODULE PromptDispatch ---------------------------
(***************************************************************************)
(* How the prompt of an attempt reaches Pi once and how what Pi does comes *)
(* back: the executors of handleAttempt, the rows of the attempts, the     *)
(* transport that resends a prompt it has no answer for, and on the Box    *)
(* the broker with its active attempt, its dispatch ledger and its         *)
(* journal.  Attempts 1..N are the turns of one main lane, in their order. *)
(*                                                                         *)
(* The broker runs one command at a time; a daemon that restarts begins a  *)
(* new invocation with an empty ledger and a journal it takes as read.     *)
(***************************************************************************)
EXTENDS Integers, Sequences, FiniteSets

CONSTANTS Executors,  \* replicas that may execute the lane
          N,          \* attempts
          Mishaps,    \* subset of {"lease", "net", "ack", "ledger", "exit"}
          MaxInv,     \* bound: invocations of the daemon
          MaxSends,   \* bound: times an executor sends one prompt
          MaxEvents   \* bound: events Pi emits in one run before it settles

DispatchConstants == /\ N \in Nat \ {0} /\ MaxInv \in Nat \ {0} /\ MaxSends \in Nat \ {0}
                     /\ MaxEvents \in Nat /\ "none" \notin Executors
                     /\ Mishaps \subseteq {"lease", "net", "ack", "ledger", "exit"}
ASSUME DispatchAssumption == DispatchConstants

VARIABLES row,        \* row[a]: the attempt and its lease in the database
          projected,  \* projected[a]: the journal records projected for a
          exec,       \* exec[e]: where executor e stands in handleAttempt
          net,        \* prompts on their way to the broker
          broker,     \* CompanionPiBroker with its ledger and cursor
          journal,    \* SegmentedCompanionPiJournal: record i has sequence i
          pi,         \* the Pi process
          runs        \* runs[a]: how often Pi began the prompt of a

vars == <<row, projected, exec, net, broker, journal, pi, runs>>
box == <<broker, journal, pi, runs>>

Attempts == 1..N
Invocations == 1..MaxInv
Terminals == {"succeeded", "failed", "interrupted"}
Nothing == [attempt |-> 0]
Resting == [busy |-> 0, events |-> 0, dead |-> FALSE]
NoReply == [is |-> "none", inv |-> 0, cursor |-> 0]
Idle == [at |-> "idle", attempt |-> 0, inv |-> 0, tail |-> 0, sends |-> 0, reply |-> NoReply,
         through |-> 0, goal |-> "none"]

Init == /\ row = [a \in Attempts |-> [status |-> "queued", at |-> "starting", inv |-> 0, cursor |-> 0,
                                      owner |-> "none"]]
        /\ projected = [a \in Attempts |-> {}]
        /\ exec = [e \in Executors |-> Idle]
        /\ net = {}
        /\ broker = [inv |-> 1, active |-> 0, ledger |-> <<>>, acked |-> 0, asked |-> Nothing]
        /\ journal = <<>>
        /\ pi = Resting
        /\ runs = [a \in Attempts |-> 0]

TailCursor == Len(journal)
\* Commands to the broker run one after another: a prompt that waits for Pi holds them up.
Free == broker.asked = Nothing
Mine(e) == row[exec[e].attempt].owner = e
At(e, pc) == exec[e].at = pc /\ Mine(e)
Goes(e, x) == exec' = [exec EXCEPT ![e] = x]
-----------------------------------------------------------------------------
(* The lease of an attempt. *)

\* companion_runtime_claim_work interrupts an attempt found past its write intent.
Claim(e) ==
  /\ exec[e].at = "idle"
  /\ \E a \in Attempts :
       /\ row[a].status \in {"queued", "active"} /\ row[a].owner = "none"
       /\ \A b \in 1..(a - 1) : row[b].status \in Terminals
       /\ IF row[a].at \in {"write_intent", "ambiguous"}
            THEN row' = [row EXCEPT ![a].status = "interrupted", ![a].at = "ambiguous"] /\ UNCHANGED exec
            ELSE /\ row' = [row EXCEPT ![a].status = "active", ![a].owner = e]
                 /\ Goes(e, [Idle EXCEPT !.at = "loop", !.attempt = a])
  /\ UNCHANGED <<projected, net, box>>

Expire ==
  /\ "lease" \in Mishaps
  /\ \E a \in Attempts : row[a].owner # "none" /\ row' = [row EXCEPT ![a].owner = "none"]
  /\ UNCHANGED <<projected, exec, net, box>>

\* The next store call, or the heartbeat, tells an executor its fence is gone.
LosesFence(e) ==
  /\ exec[e].at # "idle" /\ ~Mine(e)
  /\ Goes(e, Idle)
  /\ UNCHANGED <<row, projected, net, box>>
-----------------------------------------------------------------------------
(* handleAttempt: dispatch. *)

BrokerIdle == broker.active = 0 /\ broker.acked = TailCursor /\ ~pi.dead
Ends(e, goal) == Goes(e, [exec[e] EXCEPT !.at = IF goal = "interrupted" THEN "cleanup" ELSE "settle", !.goal = goal])

Resume(e) ==
  /\ At(e, "loop") /\ Free
  /\ LET at == row[exec[e].attempt].at IN
       \/ /\ at = "starting"
          /\ Goes(e, [exec[e] EXCEPT !.at = IF BrokerIdle THEN "intent" ELSE "repair",
                                     !.inv = broker.inv, !.tail = TailCursor])
       \/ at = "rejected" /\ Ends(e, "failed")
       \/ at \in {"accepted", "settled", "exited"} /\ Goes(e, [exec[e] EXCEPT !.at = "consume"])
  /\ UNCHANGED <<row, projected, net, box>>

\* A daemon that starts retires what its predecessor's reader has not acknowledged.
Restarted == /\ broker.inv < MaxInv
             /\ broker' = [inv |-> broker.inv + 1, active |-> 0, ledger |-> <<>>, acked |-> TailCursor,
                           asked |-> Nothing]
             /\ pi' = Resting

\* repairMainBrokerBeforeDispatch, then brokerState again.
Repair(e) ==
  /\ At(e, "repair")
  /\ \/ Restarted /\ Goes(e, [exec[e] EXCEPT !.at = "recheck"])
     \/ Ends(e, "failed") /\ UNCHANGED <<broker, pi>>
  /\ UNCHANGED <<row, projected, net, journal, runs>>
Recheck(e) ==
  /\ At(e, "recheck") /\ Free
  /\ IF BrokerIdle THEN Goes(e, [exec[e] EXCEPT !.at = "intent", !.inv = broker.inv, !.tail = TailCursor])
                   ELSE Ends(e, "failed")
  /\ UNCHANGED <<row, projected, net, box>>

WriteIntent(e) ==
  /\ At(e, "intent")
  /\ row' = [row EXCEPT ![exec[e].attempt].at = "write_intent", ![exec[e].attempt].inv = exec[e].inv]
  /\ Goes(e, [exec[e] EXCEPT !.at = "prove"])
  /\ UNCHANGED <<projected, net, box>>

\* external renews the lease, and the effect starts after the answer.
Prove(e) ==
  /\ At(e, "prove")
  /\ Goes(e, [exec[e] EXCEPT !.at = "send"])
  /\ UNCHANGED <<row, projected, net, box>>

Sent(e) == /\ net' = net \cup {[from |-> e, attempt |-> exec[e].attempt, inv |-> exec[e].inv,
                                 nth |-> exec[e].sends + 1]}
           /\ Goes(e, [exec[e] EXCEPT !.at = "await", !.sends = @ + 1, !.reply = NoReply])
Send(e) ==
  /\ exec[e].at = "send" /\ Sent(e)
  /\ UNCHANGED <<row, projected, box>>

\* An answer, or the end of the wait for one: the prompt may still arrive.
Receive(e) ==
  /\ exec[e].at = "await"
  /\ \/ exec[e].reply.is # "none"
     \/ "net" \in Mishaps
  /\ Goes(e, [exec[e] EXCEPT !.at = CASE exec[e].reply.is = "accepted" -> "accept"
                                      [] exec[e].reply.is = "refused" -> "reject"
                                      [] OTHER -> "resolve"])
  /\ UNCHANGED <<row, projected, net, box>>

\* resolveDirectPrompt: the ledger answers, or the same prompt is sent again
\* until the window closes.  The lease is not asked in between.
Recorded(a) == {r \in {broker.ledger[i] : i \in DOMAIN broker.ledger} : r.attempt = a}
Resolve(e) ==
  /\ exec[e].at = "resolve" /\ Free
  /\ \/ \E r \in Recorded(exec[e].attempt) :
          /\ Goes(e, [exec[e] EXCEPT !.at = "accept",
                        !.reply = [is |-> "accepted", inv |-> broker.inv, cursor |-> r.cursor]])
          /\ UNCHANGED net
     \/ Recorded(exec[e].attempt) = {} /\ exec[e].sends < MaxSends /\ Sent(e)
     \/ Goes(e, [exec[e] EXCEPT !.at = "ambiguous"]) /\ UNCHANGED net
  /\ UNCHANGED <<row, projected, box>>

Accept(e) ==
  /\ At(e, "accept")
  /\ LET a == exec[e].attempt  r == exec[e].reply IN
       IF r.inv # exec[e].inv \/ r.cursor < exec[e].tail
         THEN Goes(e, [exec[e] EXCEPT !.at = "ambiguous"]) /\ UNCHANGED row
         ELSE /\ row' = [row EXCEPT ![a].at = "accepted", ![a].cursor = r.cursor]
              /\ Goes(e, [exec[e] EXCEPT !.at = "consume"])
  /\ UNCHANGED <<projected, net, box>>

\* checkpointDispatchRejected and checkpointDispatchAmbiguous.
CloseDispatch(e) ==
  /\ \/ At(e, "reject") /\ row' = [row EXCEPT ![exec[e].attempt].at = "rejected"] /\ Ends(e, "failed")
     \/ At(e, "ambiguous") /\ row' = [row EXCEPT ![exec[e].attempt].at = "ambiguous"] /\ Ends(e, "interrupted")
  /\ UNCHANGED <<projected, net, box>>

\* #abortAttempt, best effort: Pi stops without its binding, and settles later.
Cleanup(e) ==
  /\ exec[e].at = "cleanup" /\ Free
  /\ Goes(e, [exec[e] EXCEPT !.at = "settle"])
  /\ broker' \in {broker} \cup (IF broker.active = exec[e].attempt THEN {[broker EXCEPT !.active = 0]} ELSE {})
  /\ UNCHANGED <<row, projected, net, journal, pi, runs>>

Settle(e) ==
  /\ At(e, "settle")
  /\ row' = [row EXCEPT ![exec[e].attempt].status = exec[e].goal, ![exec[e].attempt].owner = "none"]
  /\ Goes(e, Idle)
  /\ UNCHANGED <<projected, net, box>>
-----------------------------------------------------------------------------
(* consumeEvents. *)

\* One page: some of what follows the durable cursor and is not acknowledged.
\* A page that is not all of this attempt and invocation is refused.
Pages(cursor) == (IF cursor > broker.acked THEN cursor ELSE broker.acked)..TailCursor
\* Fault: whatever the page holds is taken for the attempt's own.
FaultCorrelated(e, n) == broker.acked <= row[exec[e].attempt].cursor
Correlated(e, n) == LET a == exec[e].attempt IN
  broker.acked <= row[a].cursor
    /\ \A i \in (row[a].cursor + 1)..n : journal[i].attempt = a /\ journal[i].inv = row[a].inv

\* Fault: the broker is acknowledged before the projection is durable.
FaultAfterRead == "ack"
AfterRead == "project"
\* Fault: a daemon that restarted is not told from the one that took the prompt.
FaultBoundElsewhere(a) == broker.active \notin {0, a}
BoundElsewhere(a) == broker.inv # row[a].inv \/ broker.active \notin {0, a}
Read(e) ==
  /\ At(e, "consume") /\ Free
  /\ LET a == exec[e].attempt IN
       IF row[a].at \in {"settled", "exited"}
         THEN Goes(e, [exec[e] EXCEPT !.at = "ack", !.through = row[a].cursor])
         ELSE IF BoundElsewhere(a) THEN Ends(e, "interrupted")
         ELSE \E n \in Pages(row[a].cursor) :
                IF ~Correlated(e, n) THEN Ends(e, "interrupted")
                ELSE n > row[a].cursor /\ Goes(e, [exec[e] EXCEPT !.at = AfterRead, !.through = n])
  /\ UNCHANGED <<row, projected, net, box>>

\* The projection of a page commits with its cursor and its checkpoint.
Kinds(from, to) == {journal[i].kind : i \in (from + 1)..to}
Project(e) ==
  /\ At(e, "project")
  /\ LET a == exec[e].attempt  n == exec[e].through IN
       /\ projected' = [projected EXCEPT ![a] = @ \cup (row[a].cursor + 1)..n]
       /\ row' = [row EXCEPT ![a].cursor = n,
                    ![a].at = IF "settled" \in Kinds(row[a].cursor, n) THEN "settled"
                              ELSE IF "exit" \in Kinds(row[a].cursor, n) THEN "exited" ELSE "accepted"]
  /\ Goes(e, [exec[e] EXCEPT !.at = "ack"])
  /\ UNCHANGED <<net, box>>

\* ackEvents, then the end of the turn once its last event is durable.
\* A restarted daemon keeps its journal, so its tail never falls behind.
Ack(e) ==
  /\ At(e, "ack") /\ Free
  /\ LET a == exec[e].attempt IN
       /\ broker' = [broker EXCEPT !.acked = IF exec[e].through > @ THEN exec[e].through ELSE @]
       /\ CASE row[a].at = "settled" -> Ends(e, "succeeded")
            [] row[a].at = "exited" -> Ends(e, "failed")
            [] OTHER -> Goes(e, [exec[e] EXCEPT !.at = "consume"])
  /\ UNCHANGED <<row, projected, net, journal, pi, runs>>
-----------------------------------------------------------------------------
(* The Box: CompanionPiBroker and the Pi it owns. *)

\* The answer of a command, if its caller still waits for this one.
Answered(m, is, cursor) ==
  exec' = IF exec[m.from].at = "await" /\ exec[m.from].attempt = m.attempt /\ exec[m.from].sends = m.nth
            THEN [exec EXCEPT ![m.from].reply = [is |-> is, inv |-> broker.inv, cursor |-> cursor]]
            ELSE exec

\* #prompt up to its call to Pi.  Pi takes the prompt or refuses it.
\* Fault: a prompt is taken by whichever invocation it reaches.
FaultStale(m) == FALSE
Stale(m) == m.inv # broker.inv
Deliver(m) ==
  /\ Free /\ net' = net \ {m}
  /\ \/ (Stale(m) \/ pi.dead) /\ Answered(m, "ambiguous", 0) /\ UNCHANGED box
     \/ /\ ~Stale(m)
        /\ \E r \in Recorded(m.attempt) : Answered(m, "accepted", r.cursor)
        /\ UNCHANGED box
     \/ /\ ~Stale(m) /\ ~pi.dead /\ Recorded(m.attempt) = {} /\ (broker.active # 0 \/ pi.busy # 0)
        /\ Answered(m, IF broker.active # 0 THEN "ambiguous" ELSE "refused", 0)
        /\ UNCHANGED box
     \/ /\ ~Stale(m) /\ ~pi.dead /\ Recorded(m.attempt) = {} /\ broker.active = 0 /\ pi.busy = 0
        /\ \E takes \in BOOLEAN :
             /\ broker' = [broker EXCEPT !.active = m.attempt,
                             !.asked = [attempt |-> m.attempt, m |-> m, takes |-> takes, cursor |-> TailCursor]]
             /\ IF takes THEN pi' = [Resting EXCEPT !.busy = m.attempt] /\ runs' = [runs EXCEPT ![m.attempt] = @ + 1]
                         ELSE UNCHANGED <<pi, runs>>
        /\ UNCHANGED <<exec, journal>>
  /\ UNCHANGED <<row, projected>>

\* #prompt from Pi's answer on: the acceptance is durable before it is told.
\* Fault: the cursor is read when Pi answers.
FaultLedgerCursor == TailCursor
LedgerCursor == broker.asked.cursor
PiAnswers ==
  /\ ~Free
  /\ LET q == broker.asked  done == [broker EXCEPT !.asked = Nothing] IN
       \/ /\ q.takes /\ ~pi.dead
          /\ broker' = [done EXCEPT !.ledger = Append(@, [attempt |-> q.attempt, cursor |-> LedgerCursor])]
          /\ Answered(q.m, "accepted", LedgerCursor)
       \/ /\ ~q.takes /\ ~pi.dead
          /\ broker' = [done EXCEPT !.active = 0] /\ Answered(q.m, "refused", 0)
       \/ /\ pi.dead \/ "ack" \in Mishaps \/ (q.takes /\ "ledger" \in Mishaps)
          /\ broker' = done /\ Answered(q.m, "ambiguous", 0)
  /\ UNCHANGED <<row, projected, net, journal, pi, runs>>

LosesMessage(m) == /\ "net" \in Mishaps /\ net' = net \ {m}
                   /\ UNCHANGED <<row, projected, exec, box>>

\* acceptPiRecord and acceptPiProcessExit: only a bound attempt has records.
Journaled(kind) == journal' = IF broker.active = 0 THEN journal
                     ELSE Append(journal, [attempt |-> broker.active, inv |-> broker.inv, kind |-> kind])
PiEvent ==
  /\ pi.busy # 0 /\ ~pi.dead /\ pi.events < MaxEvents
  /\ Journaled("event") /\ pi' = [pi EXCEPT !.events = @ + 1]
  /\ UNCHANGED <<row, projected, exec, net, broker, runs>>
PiSettles ==
  /\ pi.busy # 0 /\ ~pi.dead
  /\ Journaled("settled") /\ pi' = Resting
  /\ broker' = [broker EXCEPT !.active = 0]
  /\ UNCHANGED <<row, projected, exec, net, runs>>

\* The daemon ends when its Pi exits, or is killed with it and journals nothing;
\* systemd starts another.
PiExits ==
  /\ "exit" \in Mishaps /\ ~pi.dead /\ broker.inv < MaxInv
  /\ Journaled("exit") \/ UNCHANGED journal
  /\ pi' = [Resting EXCEPT !.dead = TRUE]
  /\ broker' = [broker EXCEPT !.active = 0]
  /\ UNCHANGED <<row, projected, exec, net, runs>>
DaemonRestarts ==
  /\ pi.dead /\ Restarted
  /\ UNCHANGED <<row, projected, exec, net, journal, runs>>
-----------------------------------------------------------------------------
Executor(e) == \/ Claim(e) \/ LosesFence(e) \/ Resume(e) \/ Repair(e) \/ Recheck(e) \/ WriteIntent(e)
               \/ Prove(e) \/ Send(e) \/ Receive(e) \/ Resolve(e) \/ Accept(e) \/ CloseDispatch(e)
               \/ Cleanup(e) \/ Settle(e) \/ Read(e) \/ Project(e) \/ Ack(e)
Broker == (\E m \in net : Deliver(m)) \/ PiAnswers
Next == \/ \E e \in Executors : Executor(e)
        \/ Broker \/ PiEvent \/ PiSettles \/ DaemonRestarts
        \/ Expire \/ PiExits \/ (\E m \in net : LosesMessage(m))

Spec == Init /\ [][Next]_vars

\* Executors and the daemon run; Pi ends every run it began; processes exit at
\* will, never of necessity; leases expire at will, but not for ever.
FairSpec == Spec /\ (\A e \in Executors : WF_vars(Executor(e)))
                 /\ WF_vars(Broker) /\ WF_vars(PiSettles) /\ WF_vars(DaemonRestarts)
                 /\ <>[][~Expire]_vars
-----------------------------------------------------------------------------
Ats == {"starting", "write_intent", "rejected", "ambiguous", "accepted", "settled", "exited"}
Replies == [is : {"none", "accepted", "refused", "ambiguous"}, inv : 0..MaxInv, cursor : Nat]
Pcs == {"idle", "loop", "repair", "recheck", "intent", "prove", "send", "await", "resolve", "accept",
        "reject", "ambiguous", "cleanup", "settle", "consume", "project", "ack"}

\* Rows, executors and the Box hold values of their kinds, and the broker's
\* acknowledgement, an attempt's cursor and a page end never pass the journal's tail.
TypeOK ==
  /\ row \in [Attempts -> [status : {"queued", "active"} \cup Terminals, at : Ats, inv : 0..MaxInv,
                           cursor : 0..TailCursor, owner : Executors \cup {"none"}]]
  /\ projected \in [Attempts -> SUBSET (1..TailCursor)]
  /\ exec \in [Executors -> [at : Pcs, attempt : 0..N, inv : 0..MaxInv, tail : 0..TailCursor, sends : 0..MaxSends,
                             reply : Replies, through : 0..TailCursor, goal : {"none"} \cup Terminals]]
  /\ broker.inv \in Invocations /\ broker.active \in 0..N /\ broker.acked \in 0..TailCursor
  /\ pi \in [busy : 0..N, events : 0..MaxEvents, dead : BOOLEAN]
  /\ runs \in [Attempts -> Nat]

\* Pi begins the prompt of an attempt at most once, however often it is sent,
\* whichever replica holds the lane and whichever daemon receives it.
PromptRunsOnce == \A a \in Attempts : runs[a] <= 1

\* What is shown for an attempt was journaled for it, by the invocation its
\* prompt was pinned to, and nothing up to its cursor was skipped.
ProjectedIsItsOwn ==
  \A a \in Attempts : /\ \A i \in projected[a] : journal[i].attempt = a /\ journal[i].inv = row[a].inv
                      /\ \A i \in projected[a] : \A j \in i..row[a].cursor : j \in projected[a]

\* Unless its turn was interrupted or its prompt refused, the broker forgets no record of its invocation
\* that is not durable in the conversation: projections commit before they are
\* acknowledged.
AckedWasProjected ==
  \A i \in 1..broker.acked :
    LET a == journal[i].attempt IN
      journal[i].inv = broker.inv /\ row[a].status # "interrupted" /\ row[a].at # "rejected" => i \in projected[a]

\* A turn that succeeded shows everything Pi said in it, also what it said
\* before its acceptance was known.
SucceededComplete ==
  \A a \in Attempts : row[a].status = "succeeded" =>
    {i \in DOMAIN journal : journal[i].attempt = a /\ journal[i].inv = row[a].inv} \subseteq projected[a]

\* A replica that takes an attempt over with its prompt in flight asks the ledger,
\* and interrupts no attempt whose acceptance the ledger proves
\* (docs/companions-runtime.md, dispatch resolution).  Does not hold: the claim settles a
\* write intent before its executor may ask.
TakeoverAsksLedger ==
  [][\A a \in Attempts : row[a].at = "write_intent" /\ row[a].status = "active" /\ row'[a].status = "interrupted"
       => ~(broker.inv = row[a].inv /\ Recorded(a) # {})]_vars

\* Every turn of the lane ends: no lost answer, refused prompt, exit of Pi or
\* leftover of an earlier turn leaves one waiting.
TurnsEnd == \A a \in Attempts : <>(row[a].status \in Terminals)
-----------------------------------------------------------------------------
(* What a document or a comment says and the code does not keep: README,     *)
(* section 4.                                                               *)

\* A turn that ends because Pi rejected its prompt before accepting it never ran
\* (attempt.ts, the message of dispatch_rejected).
RejectedNeverRan == \A a \in Attempts : row[a].at = "rejected" => runs[a] = 0
=============================================================================
