---------------------------- MODULE PiActivation ----------------------------
(***************************************************************************)
(* How a Pi daemon comes to run the settings of its Companion, and how     *)
(* PostgreSQL comes to believe it: the tails of Start and Restart Box,     *)
(* Restart Pi, settings work and health work, over the files and the       *)
(* systemd unit of a Box that is up.                                       *)
(*                                                                         *)
(* Believing is the material proof: material_pi_invocation_id names the    *)
(* invocation that was started with the credentials staged last.  A turn   *)
(* is dispatched warm, with nothing staged, only to a proven invocation.   *)
(*                                                                         *)
(* One executor holds the lease; what a lost one leaves behind is a call   *)
(* on its way to the Box.                                                  *)
(***************************************************************************)
EXTENDS Integers, FiniteSets, FiniteSetsExt

CONSTANTS Tokenless,   \* the work is for native_mobile, which mints no hub token
          MaxRevision, \* bound: settings revisions
          MaxRequests, \* bound: lifecycle operations asked for
          MaxMishaps   \* bound: leases lost, calls that fail, daemons that end or restart by themselves

VARIABLES desired,    \* desired_settings_revision
          row,        \* the instance: Pi identity and state, proof, applied revision, live hub token
          op,         \* the running operation: kind, checkpoint, revision captured when it was filed
          asked,      \* the pending operations with their queue_sequence
          claim,      \* the settings claim: revision and checkpoint
          held,       \* what the executor that holds the lease works on
          mem,        \* what that executor did last, with the token or the invocation it got
          late,       \* calls of lost executors
          files,      \* in the Box: revision on disk, staged and tmpfs credentials
          pi,         \* the daemon: its invocation and what it was started from
          requests, mishaps

database == <<desired, row, op, asked, claim>>
executor == <<held, mem>>
box == <<files, pi>>
vars == <<database, executor, late, box, requests, mishaps>>

None == 0
NoOp == [kind |-> "none", cp |-> "none", rev |-> 0]
Nothing == [did |-> "nothing", tok |-> None, inv |-> None]
Init ==
  /\ desired = 1 /\ op = NoOp /\ asked = {} /\ claim = [rev |-> 0, cp |-> "pending"]
  /\ row = [inv |-> None, idle |-> FALSE, proof |-> None, applied |-> 0, live |-> None]
  /\ held = "none" /\ mem = Nothing /\ late = {}
  /\ files = [rev |-> 0, staged |-> None, tmp |-> None, stray |-> FALSE]
  /\ pi = [inv |-> None, rev |-> 0, tok |-> None, stray |-> FALSE]
  /\ requests = 0 /\ mishaps = 0

\* Names are compared and never ordered: one that nothing holds any more is as good as new.
Unused(names) == Min({n \in 1..Cardinality(names) + 1 : n \notin names})
NewInvocation == Unused({row.inv, row.proof, pi.inv, mem.inv})
NewToken == Unused({row.live, files.staged, files.tmp, pi.tok, mem.tok} \cup {c.tok : c \in late})

Lifecycle(kinds, cp) == held = "op" /\ op.kind \in kinds /\ op.cp = cp
Tails == {"start", "restart_box"}
Target == IF held = "settings" THEN claim.rev ELSE op.rev
Did(what) == mem.did = what
\* Settings work is denied every further step once the settings have changed again.
Allowed == held = "settings" => claim.rev = desired
Mishap == mishaps < MaxMishaps /\ mishaps' = mishaps + 1

Goes(cp) == op' = [op EXCEPT !.cp = cp] /\ mem' = Nothing /\ UNCHANGED <<claim, held>>
Abandons == held' = "none" /\ mem' = Nothing /\ UNCHANGED <<op, claim>>
\* settle(failed): settings work waits 30 seconds; health only gives its lease back.
Fails == /\ held' = "none" /\ mem' = Nothing
         /\ op' = IF held = "op" THEN NoOp ELSE op
         /\ claim' = IF held = "settings" THEN [rev |-> 0, cp |-> "backoff"] ELSE claim
-----------------------------------------------------------------------------
(* Staging: the token is minted, the files are written, the row is told. *)

\* restart_pi and restart_box stop Pi first; the Box of restart_box goes down and up again.
StopPi ==
  /\ Lifecycle({"restart_pi", "restart_box"}, "pending") /\ Did("nothing")
  /\ files' = [files EXCEPT !.tmp = None] /\ pi' = [pi EXCEPT !.inv = None]
  /\ IF op.kind = "restart_box" THEN Goes("installing_layout")
     ELSE mem' = [mem EXCEPT !.did = "stopped"] /\ UNCHANGED <<op, claim, held>>
  /\ UNCHANGED <<desired, row, asked, late, requests, mishaps>>

BoxReady ==
  /\ Lifecycle({"start"}, "pending") /\ Goes("installing_layout")
  /\ UNCHANGED <<desired, row, asked, late, box, requests, mishaps>>

Stages == \/ Lifecycle(Tails, "installing_layout") /\ Did("nothing")
          \/ Lifecycle({"restart_pi"}, "pending") /\ Did("stopped")
          \/ held = "settings" /\ claim.cp = "applying" /\ Did("nothing")

\* Credential files that hold no hub token.
Bare == 1
\* The token before it is revoked, and the proof that named its daemon goes.
Minted(tok) == [row EXCEPT !.live = tok, !.proof = None]
Mint ==
  /\ Stages /\ Allowed
  /\ IF Tokenless THEN /\ row' = IF row.live = None THEN row ELSE Minted(None)
                       /\ mem' = [Nothing EXCEPT !.did = "minted", !.tok = Bare]
     ELSE row' = Minted(NewToken) /\ mem' = [Nothing EXCEPT !.did = "minted", !.tok = NewToken]
  /\ UNCHANGED <<desired, op, asked, claim, held, late, box, requests, mishaps>>

Write == /\ Did("minted") /\ Allowed
         /\ files' = [files EXCEPT !.rev = Target, !.staged = mem.tok, !.stray = FALSE]
         /\ mem' = [mem EXCEPT !.did = "written"]
         /\ UNCHANGED <<database, held, late, pi, requests, mishaps>>

\* A failed staging proves the credentials absent before it gives up.
WriteFails ==
  /\ Did("minted") /\ Mishap
  /\ \E rev \in {files.rev, Target} : files' = [files EXCEPT !.rev = rev, !.staged = None, !.tmp = None]
  /\ Fails
  /\ UNCHANGED <<desired, row, asked, late, pi, requests>>

\* record_material_snapshot; Start and Restart Box also observe the applied revision.
Record ==
  /\ Did("written") /\ Allowed
  /\ IF held = "settings" THEN mem' = [Nothing EXCEPT !.did = "recorded"] /\ UNCHANGED <<op, row, claim, held>>
     ELSE IF op.kind = "restart_pi" THEN Goes("restarting_pi") /\ UNCHANGED row
     ELSE IF op.rev < row.applied THEN Abandons /\ UNCHANGED row
     ELSE Goes("starting_pi") /\ row' = [row EXCEPT !.applied = op.rev]
  /\ UNCHANGED <<desired, asked, late, box, requests, mishaps>>
-----------------------------------------------------------------------------
(* systemctl restart, as #activatePiDaemon runs it in the Box. *)

Credentials == {files.staged, files.tmp} # {None}
RestartedFiles == [files EXCEPT !.tmp = IF @ = None \/ files.staged # None THEN files.staged ELSE @, !.staged = None]
DaemonOf(f) == [inv |-> NewInvocation, rev |-> f.rev, tok |-> f.tmp, stray |-> f.stray]

Restarts == \/ Lifecycle(Tails, "starting_pi") /\ Did("nothing")
            \/ Lifecycle({"restart_pi"}, "restarting_pi")
            \/ held = "settings" /\ Did("recorded") /\ Allowed
Restart ==
  /\ Restarts
  /\ IF Credentials THEN /\ files' = RestartedFiles /\ pi' = DaemonOf(RestartedFiles)
                         /\ IF Lifecycle({"restart_pi"}, "restarting_pi") THEN Goes("starting_pi")
                            ELSE /\ mem' = [Nothing EXCEPT !.did = "saw", !.inv = NewInvocation]
                                 /\ UNCHANGED <<op, claim, held>>
     ELSE Fails /\ UNCHANGED box
  /\ UNCHANGED <<desired, row, asked, late, requests, mishaps>>

\* The script fails, or its answer is lost: either way the executor removes the
\* credentials, so the retry of this work finds none.
Botched == /\ files' = [files EXCEPT !.staged = None, !.tmp = None]
           /\ pi' \in {pi, [pi EXCEPT !.inv = None], DaemonOf(RestartedFiles)}
RestartFails ==
  /\ Restarts /\ Credentials /\ Mishap /\ Botched /\ Fails
  /\ UNCHANGED <<desired, row, asked, late, requests>>

\* restart_pi learns the invocation by polling.
Poll == /\ Lifecycle({"restart_pi"}, "starting_pi") /\ Did("nothing") /\ pi.inv \notin {None, row.inv}
        /\ mem' = [Nothing EXCEPT !.did = "saw", !.inv = pi.inv]
        /\ UNCHANGED <<database, held, late, box, requests, mishaps>>
PollExpires == /\ Lifecycle({"restart_pi"}, "starting_pi") /\ Did("nothing") /\ pi.inv \in {None, row.inv}
               /\ Fails
               /\ UNCHANGED <<desired, row, asked, late, box, requests, mishaps>>
-----------------------------------------------------------------------------
(* What the database is told. *)

\* The trigger on pi_invocation_id: a proof names the recorded invocation or nothing.
Observed(inv) == [row EXCEPT !.inv = inv, !.idle = TRUE, !.proof = IF inv = row.inv THEN @ ELSE None]
ObservePi ==
  /\ held \in {"op", "settings"} /\ Did("saw") /\ Allowed
  /\ row' = Observed(mem.inv)
  /\ IF held = "op" THEN Goes("pi_observed")
     ELSE claim' = [claim EXCEPT !.cp = "applied"] /\ mem' = Nothing /\ UNCHANGED <<op, held>>
  /\ UNCHANGED <<desired, asked, late, box, requests, mishaps>>

Publish ==
  /\ row.idle /\ Allowed /\ Did("nothing")
  /\ \/ held = "op" /\ op.cp = "pi_observed" /\ Goes("pi_ready")
     \/ /\ held = "settings" /\ claim.cp = "applied"
        /\ mem' = [Nothing EXCEPT !.did = "published"] /\ UNCHANGED <<op, claim, held>>
  /\ row' = [row EXCEPT !.proof = row.inv]
  /\ UNCHANGED <<desired, asked, late, box, requests, mishaps>>

\* settle(succeeded): refused to settings work whose settings are not the desired ones.
Settle ==
  /\ \/ held = "op" /\ op.cp = "pi_ready" /\ op' = NoOp /\ UNCHANGED <<row, claim>>
     \/ /\ held = "settings" /\ Did("published") /\ Allowed
        /\ row' = [row EXCEPT !.applied = Max({@, claim.rev})]
        /\ claim' = [rev |-> 0, cp |-> "pending"] /\ UNCHANGED op
  /\ held' = "none" /\ mem' = Nothing
  /\ UNCHANGED <<desired, asked, late, box, requests, mishaps>>
Denied == ~Allowed /\ Abandons /\ UNCHANGED <<desired, row, asked, late, box, requests, mishaps>>
-----------------------------------------------------------------------------
(* Health: look, perhaps recycle a daemon of an old layout, record. *)

HealthLook == /\ held = "health" /\ Did("nothing")
              /\ mem' = [Nothing EXCEPT !.did = "saw", !.inv = pi.inv]
              /\ UNCHANGED <<database, held, late, box, requests, mishaps>>
\* A recycle that fails is swallowed: what was seen before it is recorded.
HealthRecycle ==
  /\ held = "health" /\ Did("saw") /\ mem.inv # None /\ Credentials /\ Mishap
  /\ \/ files' = RestartedFiles /\ pi' = DaemonOf(RestartedFiles) /\ mem' = [mem EXCEPT !.inv = NewInvocation]
     \/ Botched /\ UNCHANGED mem
  /\ UNCHANGED <<database, held, late, requests>>

\* Fault: health does not record an invocation it did not know.
FaultHealthSees(inv) == [row EXCEPT !.idle = inv = row.inv]
\* A daemon that is not there leaves the identity as it was.
HealthSees(inv) == IF inv = None THEN [row EXCEPT !.idle = FALSE] ELSE Observed(inv)
HealthObserve ==
  /\ held = "health" /\ Did("saw") /\ row' = HealthSees(mem.inv)
  /\ held' = "none" /\ mem' = Nothing
  /\ UNCHANGED <<desired, op, asked, claim, late, box, requests, mishaps>>
-----------------------------------------------------------------------------
(* Requests and claims. *)

\* A change ends the back-off, and takes its checkpoint from a claim that runs.
ChangeSettings == /\ desired < MaxRevision /\ desired' = desired + 1
                  /\ claim' = [claim EXCEPT !.cp = "pending"]
                  /\ UNCHANGED <<row, op, asked, executor, late, box, requests, mishaps>>
\* The revision an operation stages is the one desired when it is filed.
Ask == /\ requests < MaxRequests /\ requests' = requests + 1
       /\ \E k \in {"start", "restart_pi", "restart_box"} : asked' = asked \cup {[kind |-> k, seq |-> requests', rev |-> desired]}
       /\ UNCHANGED <<desired, row, op, claim, executor, late, box, mishaps>>

\* Restarts go before Starts.
Due == LET restarts == {w \in asked : w.kind # "start"} IN IF restarts # {} THEN restarts ELSE asked
\* Fault: the operation filed last is claimed first.
FaultFirst(w) == w \in Due /\ \A v \in Due : w.seq >= v.seq
\* Each kind goes in its order.
First(w) == w \in Due /\ \A v \in Due : w.seq <= v.seq
\* A restart supersedes a running Start.
Claimable == Due # {} /\ (op = NoOp \/ (op.kind = "start" /\ \E w \in Due : w.kind # "start"))
\* It supersedes the Starts filed before it too.
ClaimOperation ==
  /\ held = "none" /\ Claimable
  /\ \E w \in asked :
       /\ First(w)
       /\ op' = [kind |-> w.kind, cp |-> "pending", rev |-> w.rev] /\ held' = "op"
       /\ asked' = {v \in asked \ {w} : w.kind # "start" /\ v.seq < w.seq => v.kind # "start"}
  /\ UNCHANGED <<desired, row, claim, mem, late, box, requests, mishaps>>
TakeOver == /\ held = "none" /\ op # NoOp /\ ~Claimable /\ held' = "op"
            /\ UNCHANGED <<database, mem, late, box, requests, mishaps>>

NoOperation == held = "none" /\ op = NoOp /\ asked = {}
SettingsDue == row.applied < desired /\ claim.cp # "backoff"
\* Fault: a takeover goes on with the revision the lost claim captured.
FaultCaptured == IF claim.rev # 0 THEN claim.rev ELSE desired
\* Every claim captures the revision desired now, a takeover too.
Captured == desired
ClaimSettings == /\ NoOperation /\ SettingsDue
                 /\ claim' = [rev |-> Captured, cp |-> "applying"] /\ held' = "settings"
                 /\ UNCHANGED <<desired, row, op, asked, mem, late, box, requests, mishaps>>
ClaimHealth == /\ NoOperation /\ ~SettingsDue /\ held' = "health"
               /\ UNCHANGED <<database, mem, late, box, requests, mishaps>>
BackoffEnds == /\ claim.cp = "backoff" /\ claim' = [claim EXCEPT !.cp = "pending"]
               /\ UNCHANGED <<desired, row, op, asked, executor, late, box, requests, mishaps>>
-----------------------------------------------------------------------------
(* Lost leases and daemons that act by themselves. *)

OnItsWay == CASE Did("minted") -> {[what |-> "write", rev |-> Target, tok |-> mem.tok]}
              [] Restarts -> {[what |-> "restart", rev |-> 0, tok |-> None]}
              [] Lifecycle({"restart_pi", "restart_box"}, "pending") -> {[what |-> "stop", rev |-> 0, tok |-> None]}
              [] OTHER -> {}
LoseLease == /\ held # "none" /\ Mishap /\ Abandons
             /\ late' = late \cup OnItsWay
             /\ UNCHANGED <<desired, row, asked, box, requests>>
LandsLate ==
  /\ \E c \in late :
       /\ late' = late \ {c}
       /\ CASE c.what = "write" -> files' = [files EXCEPT !.rev = c.rev, !.staged = c.tok, !.stray = TRUE] /\ UNCHANGED pi
            [] c.what = "stop" -> files' = [files EXCEPT !.tmp = None] /\ pi' = [pi EXCEPT !.inv = None]
            [] OTHER -> IF Credentials THEN files' = RestartedFiles /\ pi' = DaemonOf(RestartedFiles) ELSE UNCHANGED box
  /\ UNCHANGED <<database, executor, requests, mishaps>>

\* Restart=on-failure, or the end of its patience.
DaemonEnds == /\ pi.inv # None /\ Mishap
              /\ pi' \in {[pi EXCEPT !.inv = None], DaemonOf(files)}
              /\ UNCHANGED <<database, executor, late, files, requests>>
-----------------------------------------------------------------------------
Executor == \/ StopPi \/ BoxReady \/ Mint \/ Write \/ Record \/ Restart \/ Poll \/ PollExpires
            \/ ObservePi \/ Publish \/ Settle \/ Denied \/ HealthLook \/ HealthObserve
Claims == ClaimOperation \/ TakeOver \/ ClaimSettings \/ ClaimHealth
Next == \/ Executor \/ Claims \/ BackoffEnds \/ ChangeSettings \/ Ask
        \/ WriteFails \/ RestartFails \/ HealthRecycle \/ LoseLease \/ LandsLate \/ DaemonEnds

Spec == Init /\ [][Next]_vars
\* Some replica claims what is due and goes on with it; a back-off ends.
FairSpec == Spec /\ WF_vars(Executor) /\ WF_vars(Claims) /\ WF_vars(BackoffEnds)
-----------------------------------------------------------------------------
\* settingsActivation.ts:25: no revision is published against an unproven daemon.
\* The daemon the proof names, while it runs, was started with the credentials
\* minted last and with no older settings than the applied ones, unless a write of
\* a lost executor reached its files after they were staged.
ProvenPiIsCurrent == row.proof # None /\ row.proof = pi.inv /\ ~pi.stray
                     => (Tokenless \/ pi.tok = row.live) /\ pi.rev >= row.applied

\* Health finds every daemon that was started behind the database's back.
IdentityConverges == []<>(pi.inv \in {None, row.inv})

\* Settings that are changed reach a daemon that is proven to run them.
SettingsConverge == []<>(row.applied = desired)
=============================================================================
