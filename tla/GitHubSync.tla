----------------------------- MODULE GitHubSync -----------------------------
(***************************************************************************)
(* The mirror of a workspace's skills in a GitHub repository: the          *)
(* destination row, the workers that claim it, and the repository, where   *)
(* its owners commit too.  githubSync.ts, githubSupervisor.ts,             *)
(* packages/github and the claim of migration 0045.                        *)
(*                                                                         *)
(* One destination and one skill, which has a folder skills/<slug> and an  *)
(* entry in the signed manifest.  A publication is a PATCH of the branch   *)
(* sent inside the transaction that records it, with the rows of the       *)
(* connection and of the destination locked.                               *)
(***************************************************************************)
EXTENDS Integers, Sequences

CONSTANTS Workers,     \* processes that run the GitHub supervisor
          Contents,    \* versions the skill may have in the catalogue
          MaxChanges,  \* bound: changes of the catalogue, the row and the connection
          MaxPushes,   \* bound: pushes by the owners of the repository
          MaxMishaps   \* bound: crashes, overrun leases, lost answers and commits

VARIABLES catalogue,  \* the version to mirror, or "none" (archived, not selected)
          connected,  \* whether the workspace has a github_connections row
          row,        \* the github_sync_destinations row
          job,        \* job[w]: the claim worker w processes
          commits,    \* what ever became the head of the branch
          head,       \* the head of the branch; 0: the repository is empty
          wire,       \* commits of updates of the branch that were sent and not answered
          changes, pushes, mishaps

vars == <<catalogue, connected, row, job, commits, head, wire, changes, pushes, mishaps>>

\* lists: the version in the manifest, "empty" in one without skills, "no" without
\* manifest; prev: the commit recorded when the manifest was signed.
NoCommit == [parent |-> 0, folder |-> "none", lists |-> "no", prev |-> 0]
Idle == [at |-> "idle", want |-> "none", last |-> 0, attempt |-> 0, parent |-> 0, new |-> NoCommit]
\* behind: desired_revision is past applied_revision; same: it is still the one the
\* lease was granted for.
NewRow == [st |-> "pending", behind |-> TRUE, same |-> FALSE, lease |-> "none", holder |-> "none", last |-> 0]

Init == /\ catalogue \in Contents /\ connected = TRUE /\ row = NewRow
        /\ job = [w \in Workers |-> Idle]
        /\ commits \in {<<>>, <<[NoCommit EXCEPT !.folder = "own"]>>}
        /\ head = Len(commits) /\ wire = {} /\ changes = 0 /\ pushes = 0 /\ mishaps = 0

Change == changes < MaxChanges /\ changes' = changes + 1
Mishap == mishaps < MaxMishaps /\ mishaps' = mishaps + 1

\* A commit and all before it: the least set that has it and with each commit its parent.
\* The parent of a commit is older, and 0 stands for the empty repository.
HasParents(S) == \A i \in S : commits[i].parent \in S \union {0}
History(c) == {i \in 1..c : \A S \in SUBSET (1..c) : c \in S /\ HasParents(S) => i \in S}
-----------------------------------------------------------------------------
(* The catalogue, the connection and the row.                               *)

\* Finalizing keeps the connection and the destination locked.
Locked == \E w \in Workers : job[w].at \in {"publish", "record"}

\* Fault: a change under way of a synchronization is left to it.
FaultRequested(r) ==
  IF r.st = "syncing" THEN r ELSE [r EXCEPT !.behind = TRUE, !.same = FALSE, !.st = "pending"]
Requested(r) == [r EXCEPT !.behind = TRUE, !.same = FALSE, !.st = IF @ = "syncing" THEN "syncing" ELSE "pending"]
WithoutLease(r) == [r EXCEPT !.lease = "none", !.holder = "none"]

\* enqueueOrgGitHubSync, in the transaction of the mutation of the skill.
CatalogueChanges ==
  /\ ~Locked /\ Change
  /\ \E c \in (Contents \union {"none"}) \ {catalogue} : catalogue' = c
  /\ row' = IF row.st = "disconnected" THEN row ELSE Requested(row)
  /\ UNCHANGED <<connected, job, commits, head, wire, pushes, mishaps>>

\* requestGitHubDestinationSync: an administrator asks, or resumes a disconnected one.
RequestSync == /\ connected /\ ~Locked /\ Change /\ row' = Requested(row)
               /\ UNCHANGED <<catalogue, connected, job, commits, head, wire, pushes, mishaps>>

\* deleteGitHubConnection.
Disconnect == /\ connected /\ ~Locked /\ Change /\ connected' = FALSE
              /\ row' = [WithoutLease(row) EXCEPT !.st = "disconnected"]
              /\ UNCHANGED <<catalogue, job, commits, head, wire, pushes, mishaps>>
\* saveGitHubConnection: the row stays disconnected until it is resumed.
Connect == /\ ~connected /\ connected' = TRUE
           /\ UNCHANGED <<catalogue, row, job, commits, head, wire, changes, pushes, mishaps>>
-----------------------------------------------------------------------------
(* A worker: claim, plan, prepare, lock, publish, record.                   *)

At(w, pc) == job[w].at = pc
Goes(w, j) == job' = [job EXCEPT ![w] = j]
Fails(w) == Goes(w, [Idle EXCEPT !.at = "fail"])

\* Fault: a row with nothing to apply is never due.
FaultDue == row.st # "disconnected" /\ connected /\ row.lease # "live" /\ row.behind
\* A row with nothing to apply is due when it was observed a quarter of an hour ago, a
\* failed one after its backoff: both may have passed at any step.
Due == row.st # "disconnected" /\ connected /\ row.lease # "live"

\* companion_claim_github_sync_destinations skips a locked row.
Claim(w) ==
  /\ At(w, "idle") /\ Due /\ ~Locked
  /\ row' = [row EXCEPT !.st = "syncing", !.behind = TRUE, !.same = TRUE, !.lease = "live", !.holder = w]
  /\ Goes(w, [Idle EXCEPT !.at = "plan"])
  /\ UNCHANGED <<catalogue, connected, commits, head, wire, changes, pushes, mishaps>>

\* isGitHubSyncFenceLive.
Live(w) == row.st = "syncing" /\ row.holder = w /\ row.same /\ row.lease = "live" /\ connected

\* getGitHubSyncPlan.
Plan(w) ==
  /\ At(w, "plan")
  /\ IF Live(w) THEN Goes(w, [job[w] EXCEPT !.at = "prepare", !.want = catalogue, !.last = row.last]) ELSE Fails(w)
  /\ UNCHANGED <<catalogue, connected, row, commits, head, wire, changes, pushes, mishaps>>

\* Fault: the recorded commit is trusted without comparing it with the head.
FaultTrusts(last, c) == \/ last # 0 /\ commits[last].lists \in Contents
                        \/ commits[c].lists \in Contents /\ commits[c].prev = last
\* Whether the mirror takes the folder in c for its own: its recorded commit, if c
\* descends from it, or a signed manifest whose predecessor is that commit, lists it.
Trusts(last, c) == \/ last \in History(c) /\ commits[last].lists \in Contents
                   \/ commits[c].lists \in Contents /\ commits[c].prev = last
Collides(want, last, c) == want # "none" /\ commits[c].folder # "none" /\ ~Trusts(last, c)

\* The tree of the mirror's next commit on c.
Folder(want, last, c) == IF want = "none" /\ ~Trusts(last, c) THEN commits[c].folder ELSE want
Lists(want) == IF want = "none" THEN "empty" ELSE want
TreeStays(want, last, c) == commits[c].folder = Folder(want, last, c) /\ commits[c].lists = Lists(want)

\* writeRepository up to finalize: one reading of the branch decides everything.
Prepare(w) ==
  LET j == job[w] IN
  /\ At(w, "prepare")
  /\ IF head # 0 /\ Collides(j.want, j.last, head) THEN Fails(w)
     ELSE Goes(w, [j EXCEPT !.at = "lock", !.parent = head, !.new =
                     IF head = 0 THEN [NoCommit EXCEPT !.lists = "empty", !.prev = j.last]
                     ELSE IF TreeStays(j.want, j.last, head) THEN NoCommit
                     ELSE [parent |-> head, folder |-> Folder(j.want, j.last, head),
                           lists |-> Lists(j.want), prev |-> j.last]])
  /\ UNCHANGED <<catalogue, connected, row, commits, head, wire, changes, pushes, mishaps>>

\* lockGitHubSyncPublishFence.
Lock(w) ==
  /\ At(w, "lock") /\ ~Locked
  /\ IF Live(w) THEN Goes(w, [job[w] EXCEPT !.at = IF job[w].new = NoCommit THEN "record" ELSE "publish"]) ELSE Fails(w)
  /\ UNCHANGED <<catalogue, connected, row, commits, head, wire, changes, pushes, mishaps>>

\* GitHub moves the branch without force: to a commit its head is an ancestor of,
\* or to the first commit of an empty repository.
Forwards(c) == IF c.parent = 0 THEN head = 0 ELSE head \in History(c.parent)
Moves(c) == commits' = Append(commits, c) /\ head' = Len(commits) + 1
Retries(w) == IF job[w].attempt < 2 THEN Goes(w, [job[w] EXCEPT !.at = "prepare", !.attempt = @ + 1, !.new = NoCommit])
              ELSE Fails(w)

\* advanceRef, or bootstrap, which never records: its transaction ends and the next attempt goes on.
Publish(w) ==
  LET c == job[w].new IN
  /\ At(w, "publish")
  /\ \/ /\ Forwards(c) /\ Moves(c)
        /\ IF c.parent = 0 THEN Retries(w) ELSE Goes(w, [job[w] EXCEPT !.at = "record", !.parent = Len(commits) + 1])
        /\ UNCHANGED <<wire, mishaps>>
     \/ ~Forwards(c) /\ Retries(w) /\ UNCHANGED <<commits, head, wire, mishaps>>
     \/ Mishap /\ wire' = wire \union {c} /\ Fails(w) /\ UNCHANGED <<commits, head>>
  /\ UNCHANGED <<catalogue, connected, row, changes, pushes>>

\* completeGitHubSync and the commit of the transaction, which may fail.
Record(w) ==
  /\ At(w, "record")
  /\ \/ /\ row' = [WithoutLease(row) EXCEPT !.st = "synced", !.behind = FALSE, !.last = job[w].parent]
        /\ Goes(w, Idle) /\ UNCHANGED mishaps
     \/ Mishap /\ Fails(w) /\ UNCHANGED row
  /\ UNCHANGED <<catalogue, connected, commits, head, wire, changes, pushes>>

\* failGitHubSync.
Fail(w) ==
  /\ At(w, "fail") /\ ~Locked /\ Goes(w, Idle)
  /\ row' = IF row.st = "syncing" /\ row.holder = w /\ row.lease = "live"
              THEN [WithoutLease(row) EXCEPT !.st = IF row.same THEN "error" ELSE "pending"]
              ELSE row
  /\ UNCHANGED <<catalogue, connected, commits, head, wire, changes, pushes, mishaps>>

\* The process dies; its transaction is rolled back.
Crash(w) == /\ job[w].at # "idle" /\ Mishap /\ Goes(w, Idle)
            /\ wire' = IF At(w, "publish") THEN wire \union {job[w].new} ELSE wire
            /\ UNCHANGED <<catalogue, connected, row, commits, head, changes, pushes>>
\* The lease of a dead worker expires, or one is overrun (a claim waits for its turn in the batch).
LeaseExpires == /\ row.lease = "live" /\ row' = [row EXCEPT !.lease = "over"]
                /\ IF At(row.holder, "idle") THEN UNCHANGED mishaps ELSE Mishap
                /\ UNCHANGED <<catalogue, connected, job, commits, head, wire, changes, pushes>>
-----------------------------------------------------------------------------
(* The repository. *)

\* An unanswered update arrives after all, or never.
Arrives(c) == /\ wire' = wire \ {c}
              /\ IF Forwards(c) THEN Moves(c) ELSE UNCHANGED <<commits, head>>
              /\ UNCHANGED <<catalogue, connected, row, job, changes, pushes, mishaps>>
IsLost(c) == /\ wire' = wire \ {c}
             /\ UNCHANGED <<catalogue, connected, row, job, commits, head, changes, pushes, mishaps>>

Pushed == pushes < MaxPushes /\ pushes' = pushes + 1
PushStays == UNCHANGED <<catalogue, connected, row, job, wire, changes, mishaps>>
\* An owner commits: something else, into the folder (of their own if there was none), or removes it.
OwnerCommits ==
  /\ head # 0 /\ Pushed
  /\ \E f \in {commits[head].folder, "none", IF commits[head].folder \in {"none", "own"} THEN "own" ELSE "edited"} :
       Moves([commits[head] EXCEPT !.parent = head, !.folder = f])
  /\ PushStays
\* An owner forces the branch: back by one commit, to its tree without history, or to another tree.
OwnerForces ==
  /\ head # 0 /\ Pushed
  /\ \/ commits[head].parent # 0 /\ head' = commits[head].parent /\ UNCHANGED commits
     \/ Moves([commits[head] EXCEPT !.parent = 0])
     \/ \E f \in {"none", "own"} : Moves([NoCommit EXCEPT !.folder = f])
  /\ PushStays
-----------------------------------------------------------------------------
Work(w) == Claim(w) \/ Plan(w) \/ Prepare(w) \/ Lock(w) \/ Publish(w) \/ Record(w) \/ Fail(w)
Next == \/ CatalogueChanges \/ RequestSync \/ Disconnect \/ Connect
        \/ LeaseExpires \/ \E w \in Workers : Work(w) \/ Crash(w)
        \/ \E c \in wire : Arrives(c) \/ IsLost(c)
        \/ OwnerCommits \/ OwnerForces
Spec == Init /\ [][Next]_vars

\* Some worker claims what is due, its steps end and leases expire.
FairSpec == Spec /\ WF_vars(\E w \in Workers : Claim(w)) /\ (\A w \in Workers : WF_vars(Work(w) /\ ~At(w, "idle")))
                 /\ WF_vars(LeaseExpires)
-----------------------------------------------------------------------------
TypeOK ==
  /\ catalogue \in Contents \union {"none"} /\ connected \in BOOLEAN /\ head \in 0..Len(commits)
  /\ row \in [st : {"pending", "syncing", "synced", "error", "disconnected"}, behind : BOOLEAN, same : BOOLEAN,
              lease : {"none", "live", "over"}, holder : Workers \union {"none"}, last : 0..Len(commits)]
  /\ \A i \in 1..Len(commits) : commits[i].parent \in 0..(i - 1)

\* What the mirror reports as synced is the catalogue: as long as nobody has moved the
\* branch since, the folder of a skill in the catalogue is that of its current version.
SyncedIsCatalogue == row.st = "synced" /\ head = row.last /\ catalogue # "none" => commits[head].folder = catalogue

\* A manifest in the history of c lists the skill.
Held(c) == \E i \in History(c) : commits[i].lists \in Contents

\* A folder that an owner made is neither replaced nor removed by the commit that the mirror
\* makes on it, whenever that commit lands and however the owners rewrite the branch until
\* then, unless the mirror had the skill in that history.
OwnFoldersStay == [][
  head' # head /\ UNCHANGED pushes =>
    LET on == commits'[head'].parent
    IN  on # 0 /\ commits[on].folder = "own" /\ ~Held(on) => commits'[head'].folder = "own"]_vars

\* The branch shows the catalogue, unless a folder that is not the mirror's own is in the way.
Mirrored == \/ row.st = "disconnected" \/ ~connected
            \/ head # 0 /\ \/ commits[head].folder = catalogue
                           \/ Collides(catalogue, row.last, head)
                           \/ catalogue = "none" /\ ~Trusts(row.last, head)

\* Whatever arrives late, and whatever the owners push, the branch comes to mirror the
\* catalogue again and stays so, or the row is disconnected, or a folder that is not the
\* mirror's own is in the way.
MirrorConverges == <>[]Mirrored
=============================================================================
