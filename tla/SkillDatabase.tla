---------------------------- MODULE SkillDatabase ----------------------------
(***************************************************************************)
(* A skill database: the declaration that publications replace, the        *)
(* personal realm of one member with its SQLite image in object storage,   *)
(* the statements of its owner and of a member it is shared with, and the  *)
(* deletion of the image when the realm goes.  skillDatabases.ts,          *)
(* packages/skilldb and skillDatabaseCleanup.ts.                           *)
(*                                                                         *)
(* A statement is one transaction that holds the schema's lock (shared),   *)
(* the realm's lock and the realm's row while it reads the image, runs on  *)
(* a copy and writes the copy back under a condition on the ETag.          *)
(***************************************************************************)
EXTENDS Integers, FiniteSets

CONSTANTS Clients,        \* requests in flight
          Sweepers,       \* workers that drain the deletions
          MaxStatements, MaxDeclarations, MaxGrants,
          MaxMishaps      \* bound: PUTs that time out, crashes, failed deletes, overrun claims

VARIABLES declared,  \* the skill_database_schemas row and the one personal table with its optional column
          realm,     \* the skill_database_realms row
          shared,    \* whether a grant of the realm exists
          granting,  \* whether setSkillDatabaseShares has validated a grant and not written it
          object,    \* the image
          wire,      \* PUTs that timed out and may still arrive
          req, sweep,
          deletion,  \* the skill_database_object_deletions row
          acked,     \* writes that were answered
          started, declarations, grants, mishaps

vars == <<declared, realm, shared, granting, object, wire, req, sweep, deletion, acked,
          started, declarations, grants, mishaps>>

\* gen: PRAGMA user_version; column: whether the table has the optional column;
\* stray: the object was created by a PUT that came late.
NoObject == [etag |-> 0, gen |-> 0, column |-> FALSE, writes |-> {}, stray |-> FALSE]
Idle == [at |-> "idle", id |-> 0, by |-> "owner", write |-> FALSE, gen |-> 0, image |-> NoObject, match |-> 0]
NoDeletion == [queued |-> FALSE, claim |-> "none", live |-> FALSE]

Init == /\ declared \in [gen : {1}, table : {TRUE}, column : {"absent", "active"}]
        /\ realm = [st |-> "none", gen |-> 0, etag |-> 0] /\ shared = FALSE /\ granting = FALSE
        /\ object = NoObject /\ wire = {} /\ acked = {}
        /\ req = [c \in Clients |-> Idle] /\ sweep = [s \in Sweepers |-> "idle"] /\ deletion = NoDeletion
        /\ started = 0 /\ declarations = 0 /\ grants = 0 /\ mishaps = 0

Mishap == mishaps < MaxMishaps /\ mishaps' = mishaps + 1
At(c, at) == req[c].at = at
Goes(c, r) == req' = [req EXCEPT ![c] = r]
\* A statement whose transaction holds the locks.
InTransaction(c) == req[c].at \in {"get", "put", "record"}
-----------------------------------------------------------------------------
(* Publications and grants.                                                 *)

\* Fault: a column that comes back does not advance the generation.
FaultAdvances(from, to) == (~from.table /\ to.table) \/ (from.column = "absent" /\ to.column = "active")
\* persistSkillDatabaseDeclarations: ddlChanged.  What is retired stays in the files.
Advances(from, to) == (~from.table /\ to.table) \/ (from.column # "active" /\ to.column = "active")
\* Fault: publication does not wait for those who share the schema's lock.
FaultSchemaFree == TRUE
SchemaFree == ~granting /\ \A c \in Clients : ~InTransaction(c)
\* A retired table may only be restored unchanged; without a personal table no grant stays.
Declare ==
  /\ SchemaFree /\ declarations < MaxDeclarations /\ declarations' = declarations + 1
  /\ \E to \in {[declared EXCEPT !.table = ~@], [declared EXCEPT !.column = IF @ = "active" THEN "retired" ELSE "active"]} :
       /\ declared.table \/ to.table
       /\ declared' = [to EXCEPT !.gen = IF Advances(declared, to) THEN @ + 1 ELSE @]
       /\ shared' = (shared /\ to.table)
  /\ UNCHANGED <<realm, granting, object, wire, req, sweep, deletion, acked, started, grants, mishaps>>

\* Fault: a grant is replaced without the realm's row.
FaultRowFree == TRUE
RowFree == \A c \in Clients : ~InTransaction(c)
\* setSkillDatabaseShares: the skill's row and the schema's lock, eligibility, then the realm's row.
\* It is rolled back when a recipient was removed from the organization in between.
OpenGrant == /\ ~granting /\ declared.table /\ realm.st # "gone" /\ grants < MaxGrants
             /\ grants' = grants + 1 /\ granting' = TRUE
             /\ UNCHANGED <<declared, realm, shared, object, wire, req, sweep, deletion, acked, started, declarations, mishaps>>
SetGrant == /\ granting /\ RowFree /\ granting' = FALSE
            /\ \/ /\ shared' = (~shared /\ realm.st # "gone")
                  /\ realm' = IF realm.st = "none" THEN [realm EXCEPT !.st = "live"] ELSE realm
               \/ UNCHANGED <<shared, realm>>
            /\ UNCHANGED <<declared, object, wire, req, sweep, deletion, acked, started, declarations, grants, mishaps>>

\* Fault: the deletion of a row does not enqueue its object.
FaultEnqueued(d) == d
\* The trigger of skill_database_realms.
Enqueued(d) == [d EXCEPT !.queued = TRUE]
\* The membership or the skill is deleted, and the realm with it.
RealmGoes == /\ realm.st = "live" /\ RowFree
             /\ realm' = [realm EXCEPT !.st = "gone"] /\ shared' = FALSE /\ deletion' = Enqueued(deletion)
             /\ UNCHANGED <<declared, granting, object, wire, req, sweep, acked, started, declarations, grants, mishaps>>
\* removeMember of the grantee: the grant goes with the membership, under no lock of the realm.
MemberRemoved ==
  /\ shared /\ grants < MaxGrants /\ grants' = grants + 1 /\ shared' = FALSE
  /\ req' = [c \in Clients |-> IF InTransaction(c) /\ req[c].by = "grantee" THEN [req[c] EXCEPT !.by = "removed"]
                                                                          ELSE req[c]]
  /\ UNCHANGED <<declared, realm, granting, object, wire, sweep, deletion, acked, started, declarations, mishaps>>
-----------------------------------------------------------------------------
(* A statement, of the owner, of the grantee, or of one removed since it took its locks. *)

\* ensureSkillDatabaseRealm, in a transaction of its own; a member names the realm.
Open(c) ==
  /\ At(c, "idle") /\ started < MaxStatements /\ started' = started + 1 /\ declared.table
  /\ \E by \in {"owner", "grantee"}, write \in BOOLEAN :
       /\ IF by = "owner" THEN realm.st # "gone" ELSE realm.st = "live" /\ shared
       /\ Goes(c, [Idle EXCEPT !.at = "lock", !.id = started', !.by = by, !.write = write])
  /\ realm' = IF realm.st = "none" THEN [realm EXCEPT !.st = "live"] ELSE realm
  /\ UNCHANGED <<declared, shared, granting, object, wire, sweep, deletion, acked, declarations, grants, mishaps>>

\* executeSkillDatabaseStatementInTenant up to the storage: locks that are taken make it try again.
Free == \A d \in Clients : ~InTransaction(d)
Allowed(c) == declared.table /\ realm.st = "live" /\ (req[c].by = "owner" \/ shared)
Lock(c) ==
  /\ At(c, "lock") /\ Free
  /\ Goes(c, IF Allowed(c) THEN [req[c] EXCEPT !.at = "get"] ELSE Idle)
  /\ UNCHANGED <<declared, realm, shared, granting, object, wire, sweep, deletion, acked, started, declarations, grants, mishaps>>

\* worker.mjs: migrate, then the statement; the image after it.
Migrated(o) == IF o.gen >= declared.gen THEN o
               ELSE [o EXCEPT !.gen = declared.gen, !.column = @ \/ declared.column = "active"]
Ran(o, r) == IF r.write THEN [Migrated(o) EXCEPT !.writes = @ \union {r.id}] ELSE Migrated(o)
Missing == object = NoObject /\ (realm.etag # 0 \/ realm.gen # 0)
\* Reads the image and runs on it: every file it makes is of the transaction's generation.
Get(c) ==
  LET new == Ran(object, req[c]) IN
  /\ At(c, "get")
  /\ Goes(c, IF Missing THEN Idle
             ELSE [req[c] EXCEPT !.at = IF new = object THEN "record" ELSE "put", !.gen = declared.gen,
                                 !.match = object.etag, !.image = [new EXCEPT !.etag = req[c].id]])
  /\ UNCHANGED <<declared, realm, shared, granting, object, wire, sweep, deletion, acked, started, declarations, grants, mishaps>>

\* Fault: the image is written whatever is there.
FaultMatches(match) == TRUE
\* If-Match, or If-None-Match when there was no image (ETag 0).
Matches(match) == object.etag = match
Put(c) ==
  LET r == req[c] IN
  /\ At(c, "put")
  /\ \/ /\ Matches(r.match) /\ object' = r.image /\ Goes(c, [r EXCEPT !.at = "record", !.match = r.id])
        /\ UNCHANGED <<wire, mishaps>>
     \/ ~Matches(r.match) /\ Goes(c, Idle) /\ UNCHANGED <<object, wire, mishaps>>
     \/ Mishap /\ wire' = wire \union {r} /\ Goes(c, Idle) /\ UNCHANGED object
  /\ UNCHANGED <<declared, realm, shared, granting, sweep, deletion, acked, started, declarations, grants>>

\* The policy of skill_database_realms: who sees the row, as of the statement that asks.
Visible(r) == r.by = "owner" \/ shared
\* The realm's row, the commit and the answer: refused if the row is no longer visible.
Record(c) ==
  LET r == req[c] IN
  /\ At(c, "record") /\ Goes(c, Idle)
  /\ \/ /\ Visible(r)
        /\ realm' = [realm EXCEPT !.gen = r.gen, !.etag = r.match]
        /\ acked' = IF r.write THEN acked \union {r.id} ELSE acked
        /\ UNCHANGED mishaps
     \/ ~Visible(r) /\ UNCHANGED <<realm, acked, mishaps>>
     \/ Mishap /\ UNCHANGED <<realm, acked>>
  /\ UNCHANGED <<declared, shared, granting, object, wire, sweep, deletion, started, declarations, grants>>

\* A PUT arrives after its request gave up, or never does.
Arrives(r) == /\ wire' = wire \ {r}
              /\ object' = IF Matches(r.match) THEN [r.image EXCEPT !.stray = (r.match = 0)] ELSE object
              /\ UNCHANGED <<declared, realm, shared, granting, req, sweep, deletion, acked, started, declarations, grants, mishaps>>
IsLost(r) == /\ wire' = wire \ {r}
             /\ UNCHANGED <<declared, realm, shared, granting, object, req, sweep, deletion, acked, started, declarations, grants, mishaps>>

\* The API dies: its transaction is rolled back, its PUT may have been sent.
Crash(c) == /\ ~At(c, "idle") /\ Mishap /\ Goes(c, Idle)
            /\ wire' = IF At(c, "put") THEN wire \union {req[c]} ELSE wire
            /\ UNCHANGED <<declared, realm, shared, granting, object, sweep, deletion, acked, started, declarations, grants>>
-----------------------------------------------------------------------------
(* sweepSkillDatabaseObjects.                                               *)

\* Fault: a claim that expired is not taken again.
FaultClaimable == deletion.queued /\ deletion.claim = "none"
Claimable == deletion.queued /\ ~deletion.live
SweepGoes(s, at) == sweep' = [sweep EXCEPT ![s] = at]
OutsideSweep == UNCHANGED <<declared, realm, shared, granting, wire, req, acked, started, declarations, grants>>
Claim(s) == /\ sweep[s] = "idle" /\ Claimable /\ SweepGoes(s, "delete")
            /\ deletion' = [deletion EXCEPT !.claim = s, !.live = TRUE]
            /\ OutsideSweep /\ UNCHANGED <<object, mishaps>>
DeleteObject(s) == /\ sweep[s] = "delete" /\ OutsideSweep /\ UNCHANGED deletion
                   /\ \/ object' = NoObject /\ SweepGoes(s, "complete") /\ UNCHANGED mishaps
                      \/ Mishap /\ SweepGoes(s, "defer") /\ UNCHANGED object
\* The claim's token is that of one claim; a worker sweeps one claim at a time.
Complete(s) == /\ sweep[s] = "complete" /\ SweepGoes(s, "idle")
               /\ deletion' = IF deletion.claim = s THEN NoDeletion ELSE deletion
               /\ OutsideSweep /\ UNCHANGED <<object, mishaps>>
\* The backoff may have passed at any later step.
Defer(s) == /\ sweep[s] = "defer" /\ SweepGoes(s, "idle")
            /\ deletion' = IF deletion.claim = s THEN [deletion EXCEPT !.claim = "none", !.live = FALSE] ELSE deletion
            /\ OutsideSweep /\ UNCHANGED <<object, mishaps>>
Dies(s) == sweep[s] # "idle" /\ Mishap /\ SweepGoes(s, "idle") /\ OutsideSweep /\ UNCHANGED <<object, deletion>>
ClaimExpires == /\ deletion.live /\ deletion' = [deletion EXCEPT !.live = FALSE]
                /\ IF sweep[deletion.claim] = "idle" THEN UNCHANGED mishaps ELSE Mishap
                /\ OutsideSweep /\ UNCHANGED <<object, sweep>>
Sweeps(s) == Claim(s) \/ DeleteObject(s) \/ Complete(s) \/ Defer(s)
-----------------------------------------------------------------------------
Next == \/ Declare \/ OpenGrant \/ SetGrant \/ RealmGoes \/ MemberRemoved
        \/ \E c \in Clients : Open(c) \/ Lock(c) \/ Get(c) \/ Put(c) \/ Record(c) \/ Crash(c)
        \/ \E r \in wire : Arrives(r) \/ IsLost(r)
        \/ \E s \in Sweepers : Sweeps(s) \/ Dies(s)
        \/ ClaimExpires
Spec == Init /\ [][Next]_vars

\* The supervisor's timer ticks whatever the last sweep did; claims expire.
FairSpec == Spec /\ (\A s \in Sweepers : WF_vars(Sweeps(s))) /\ WF_vars(ClaimExpires)
-----------------------------------------------------------------------------
TypeOK ==
  /\ declared \in [gen : 1..MaxDeclarations + 1, table : BOOLEAN, column : {"absent", "active", "retired"}]
  /\ realm \in [st : {"none", "live", "gone"}, gen : 0..MaxDeclarations + 1, etag : 0..MaxStatements]
  /\ deletion \in [queued : BOOLEAN, claim : Sweepers \union {"none"}, live : BOOLEAN]
  /\ object.gen \in 0..MaxDeclarations + 1 /\ acked \subseteq 1..MaxStatements

\* A write that was answered is in the image as long as the realm lives, whichever PUTs of
\* requests that gave up arrive later.
AnsweredWritesStay == realm.st = "live" => acked \subseteq object.writes

\* A file that no statement would migrate has every column the declaration has.
FilesHaveTheirColumns ==
  object # NoObject /\ object.gen >= declared.gen /\ declared.column = "active" => object.column

\* No grant outlives the last personal table.  The grant of a statement stands while it runs,
\* whatever the owner withdraws or publishes; only the removal of the member takes it away, and
\* no grant comes back before that statement ends: it is not answered.
GrantsAreCurrent ==
  /\ shared => declared.table
  /\ \A c \in Clients : InTransaction(c) =>
       /\ req[c].by = "grantee" => shared
       /\ req[c].by = "removed" => ~shared
\* What the comment of the lookup says of it: the grant stays until the transaction ends,
\* whatever happens.  Does not hold.
StatementsHoldTheirGrant == \A c \in Clients : InTransaction(c) /\ req[c].by # "owner" => shared

\* No image of a realm that is gone, but for one whose PUT arrived after its request gave up.
ImageGone == realm.st = "gone" => object = NoObject \/ object.stray
\* The image of a realm that is gone is deleted for good, unless the PUT that made it
\* arrived after its request gave up.
RemovedImagesGo == <>[]ImageGone
\* Without that exception; does not hold.
NothingStaysOfRemoved == <>[](realm.st = "gone" => object = NoObject)
=============================================================================
