---------------------------- MODULE SkillPublish ----------------------------
(***************************************************************************)
(* Publication, release, renaming and archiving of a workspace's skills:   *)
(* apps/api/src/index.ts and packages/core/src/services.ts.                *)
(*                                                                         *)
(* A publication stores the archive under the key of its slug and version  *)
(* number before the transaction that writes the rows, and takes it back   *)
(* when that fails.  A release packs the archive of the current version    *)
(* before the transaction that pins it.  A skill keeps its id when it is   *)
(* renamed, and its old versions keep the name they were published under.  *)
(***************************************************************************)
EXTENDS Integers, FiniteSets

CONSTANTS Publishers, Releasers,  \* requests in flight
          Ids,        \* fresh UUIDs
          Slugs, Numbers,
          Quotas,     \* organization skills that the plan of the workspace may allow
          Mishaps,    \* of "lost" (answer of a PUT), "crash", "orphan" (failed clean-up),
                      \* "commit" (answer of the COMMIT of a publication)
          MaxPublications, MaxEdits, MaxMishaps

VARIABLES quota,     \* what its plan allows: FREE_ORG_SKILL_LIMIT, or on Pro more than there are
          skills,    \* skills[i]: the row with that id
          versions,  \* the skill_versions rows
          store,     \* the objects: their keys and contents
          pub, rel,  \* the requests
          renaming,  \* a renaming between its read and its transaction
          made, edits, mishaps

vars == <<quota, skills, versions, store, pub, rel, renaming, made, edits, mishaps>>

\* A version is named by its number; sum stands for the archive, packed for its package.
NoSkill == [slug |-> "none", current |-> 0, public |-> 0, packed |-> 0, archived |-> FALSE]
NoPub == [at |-> "idle", slug |-> "none", id |-> "none", n |-> 0, sum |-> 0, into |-> "none"]
NoRel == [at |-> "idle", slug |-> "none", id |-> "none", n |-> 0, zip |-> 0, public |-> 0, packed |-> 0]
NoRename == [id |-> "none", from |-> "none", to |-> "none"]

Init == /\ quota \in Quotas
        /\ skills = [i \in Ids |-> NoSkill] /\ versions = {} /\ store = {}
        /\ pub = [p \in Publishers |-> NoPub] /\ rel = [r \in Releasers |-> NoRel]
        /\ renaming = NoRename /\ made = 0 /\ edits = 0 /\ mishaps = 0

Live == {i \in Ids : skills[i].slug # "none"}
Named(slug) == {i \in Ids : skills[i].slug = slug}
VersionsOf(i) == {v \in versions : v.skill = i}
Key(slug, n) == <<slug, n>>
Mishap(m) == m \in Mishaps /\ mishaps < MaxMishaps /\ mishaps' = mishaps + 1
-----------------------------------------------------------------------------
(* Publication: resolve, assert, put, assert again, commit or take back.    *)

P(p, at) == pub[p].at = at
PubGoes(p, at) == pub' = [pub EXCEPT ![p] = IF at = "idle" THEN NoPub ELSE [@ EXCEPT !.at = at]]
Unused == {i \in Ids : i \notin Live /\ \A p \in Publishers : pub[p].id # i}
\* A new UUID is as good as any other.
Fresh == IF Unused = {} THEN {} ELSE {CHOOSE i \in Unused : TRUE}

\* resolvePublishTarget: the version may be the author's choice.
Resolve(p) ==
  /\ P(p, "idle") /\ made < MaxPublications /\ made' = made + 1
  /\ \E slug \in Slugs, n \in Numbers :
       \E i \in IF Named(slug) = {} THEN Fresh ELSE Named(slug) :
         pub' = [pub EXCEPT ![p] = [NoPub EXCEPT !.at = "assert", !.slug = slug, !.id = i, !.n = n, !.sum = made']]
  /\ UNCHANGED <<quota, skills, versions, store, rel, renaming, edits, mishaps>>

\* assertCanPublishSkillVersion.
Room == Cardinality(Live) < quota
Publishable(j) ==
  IF Named(j.slug) = {} THEN Room
  ELSE /\ Cardinality(Live) <= quota
       /\ \A i \in Named(j.slug) : i = j.id /\ \A v \in VersionsOf(i) : v.n < j.n
Assert(p) ==
  /\ P(p, "assert")
  /\ PubGoes(p, IF Publishable(pub[p]) THEN "put" ELSE "idle")
  /\ UNCHANGED <<quota, skills, versions, store, rel, renaming, made, edits, mishaps>>

\* Fault: the object is written without If-None-Match.
FaultStored(key, sum) == {o \in store : o.key # key} \union {[key |-> key, sum |-> sum]}
\* putSkillArchive with preventOverwrite: nothing when there is an object under the key.
Stored(key, sum) == IF \E o \in store : o.key = key THEN store ELSE store \union {[key |-> key, sum |-> sum]}
\* A PUT that fails or is not answered ends the request before it may delete anything.
Put(p) ==
  LET j == pub[p]
      written == Stored(Key(j.slug, j.n), j.sum) IN
  /\ P(p, "put") /\ store' = written
  /\ \/ PubGoes(p, IF written = store THEN "idle" ELSE "check") /\ UNCHANGED mishaps
     \/ Mishap("lost") /\ PubGoes(p, "idle")
  /\ UNCHANGED <<quota, skills, versions, rel, renaming, made, edits>>

\* publishSkillVersion and writeSkillVersion, up to the quota's lock: the row is looked up.
Check(p) ==
  LET j == pub[p] IN
  /\ P(p, "check")
  /\ pub' = [pub EXCEPT ![p] = IF ~Publishable(j) THEN [j EXCEPT !.at = "delete"]
               ELSE [j EXCEPT !.at = "write", !.into = IF Named(j.slug) = {} THEN "none" ELSE j.id]]
  /\ UNCHANGED <<quota, skills, versions, store, rel, renaming, made, edits, mishaps>>

\* Fault: the count taken before the quota's lock is relied on.
FaultHasRoom(j) == TRUE
\* assertOrgSkillMutationEntitled counts again under the workspace's advisory lock.
HasRoom(j) == IF j.into = "none" THEN Room ELSE Cardinality(Live) <= quota
\* The unique keys: skills by id and slug, versions by skill and number.
Unique(j) == /\ j.into = "none" => j.id \notin Live /\ Named(j.slug) = {}
             /\ \A v \in VersionsOf(j.id) : v.n # j.n
\* The rest of writeSkillVersion, under that lock.
Commit(p) ==
  LET j == pub[p] IN
  /\ P(p, "write")
  /\ IF HasRoom(j) /\ Unique(j)
       THEN /\ skills' = [skills EXCEPT ![j.id] = IF j.into = "none"
                            THEN [NoSkill EXCEPT !.slug = j.slug, !.current = j.n] ELSE [@ EXCEPT !.current = j.n]]
            /\ versions' = versions \union {[skill |-> j.id, n |-> j.n, name |-> j.slug, sum |-> j.sum]}
            /\ \/ PubGoes(p, "idle") /\ UNCHANGED mishaps
               \/ Mishap("commit") /\ PubGoes(p, "delete")
       ELSE PubGoes(p, "delete") /\ UNCHANGED <<skills, versions, mishaps>>
  /\ UNCHANGED <<quota, store, rel, renaming, made, edits>>

\* deleteSkillArchive in the catch of publishCanonical; its own failure is only reported.
Delete(p) ==
  LET j == pub[p] IN
  /\ P(p, "delete") /\ PubGoes(p, "idle")
  /\ \/ store' = {o \in store : o.key # Key(j.slug, j.n)} /\ UNCHANGED mishaps
     \/ Mishap("orphan") /\ UNCHANGED store
  /\ UNCHANGED <<quota, skills, versions, rel, renaming, made, edits>>

Crash(p) == /\ ~P(p, "idle") /\ Mishap("crash") /\ PubGoes(p, "idle")
            /\ UNCHANGED <<quota, skills, versions, store, rel, renaming, made, edits>>
-----------------------------------------------------------------------------
(* Public release: read and pack, look again, compare and set.              *)

R(r, at) == rel[r].at = at
RelGoes(r, j) == rel' = [rel EXCEPT ![r] = j]

\* getDownloadVersion for a release; the package is snapshotted under its checksum.
Prepare(r) ==
  /\ R(r, "idle")
  /\ \E i \in Live : \E v \in VersionsOf(i), o \in store :
       /\ ~skills[i].archived /\ v.n = skills[i].current /\ o.key = Key(v.name, v.n)
       /\ RelGoes(r, [NoRel EXCEPT !.at = "look", !.slug = skills[i].slug, !.n = v.n, !.zip = o.sum])
  /\ UNCHANGED <<quota, skills, versions, store, pub, renaming, made, edits, mishaps>>

\* setSkillPublicVersion, its reads: the skill that has the slug now, its version of that number.
Releasable(i, n) == /\ ~skills[i].archived /\ skills[i].current = n
                    /\ \E v \in VersionsOf(i) : v.n = n /\ v.name = skills[i].slug
Look(r) ==
  LET j == rel[r] IN
  /\ R(r, "look")
  /\ \/ \E i \in Named(j.slug) :
          /\ Releasable(i, j.n)
          /\ RelGoes(r, [j EXCEPT !.at = "set", !.id = i, !.public = skills[i].public, !.packed = skills[i].packed])
     \/ (\A i \in Named(j.slug) : ~Releasable(i, j.n)) /\ RelGoes(r, NoRel)
  /\ UNCHANGED <<quota, skills, versions, store, pub, renaming, made, edits, mishaps>>

\* Fault: the slug is not part of the condition of the update.
FaultStillSo(j, s) == ~s.archived /\ s.current = j.n /\ s.public = j.public /\ s.packed = j.packed
\* The condition of its update; releasedAt, which the code compares too, tells no more apart.
StillSo(j, s) == s.slug = j.slug /\ ~s.archived /\ s.current = j.n /\ s.public = j.public /\ s.packed = j.packed
Set(r) ==
  LET j == rel[r] IN
  /\ R(r, "set") /\ RelGoes(r, NoRel)
  /\ skills' = IF StillSo(j, skills[j.id]) THEN [skills EXCEPT ![j.id].public = j.n, ![j.id].packed = j.zip] ELSE skills
  /\ UNCHANGED <<quota, versions, store, pub, renaming, made, edits, mishaps>>

\* clearSkillPublicVersion: its update compares with all it read, so that it is one step.
Clear(i) == /\ skills[i].public # 0
            /\ skills' = [skills EXCEPT ![i].public = 0, ![i].packed = 0]
            /\ UNCHANGED <<quota, versions, store, pub, rel, renaming, made, edits, mishaps>>
-----------------------------------------------------------------------------
(* renameSkill, archiveSkill, restoreSkill.                                 *)

Edits == edits < MaxEdits /\ edits' = edits + 1
RenameReads ==
  /\ renaming = NoRename /\ Edits
  /\ \E i \in Live, to \in Slugs :
       /\ Cardinality(Live) <= quota /\ to # skills[i].slug /\ skills[i].public = 0
       /\ renaming' = [id |-> i, from |-> skills[i].slug, to |-> to]
  /\ UNCHANGED <<quota, skills, versions, store, pub, rel, made, mishaps>>

\* Fault: a release since the read does not stop it.
FaultRenamable(s) == s.slug = renaming.from
\* The condition of its update.
Renamable(s) == s.slug = renaming.from /\ s.public = 0
RenameWrites ==
  /\ renaming # NoRename /\ renaming' = NoRename
  /\ skills' = IF Named(renaming.to) = {} /\ Renamable(skills[renaming.id])
                 THEN [skills EXCEPT ![renaming.id].slug = renaming.to] ELSE skills
  /\ UNCHANGED <<quota, versions, store, pub, rel, made, edits, mishaps>>

\* A public release outlives the archiving of its skill.
Archive(i) == /\ i \in Live /\ ~skills[i].archived /\ Edits
              /\ skills' = [skills EXCEPT ![i].archived = TRUE]
              /\ UNCHANGED <<quota, versions, store, pub, rel, renaming, made, mishaps>>
Restore(i) == /\ skills[i].archived /\ Cardinality(Live) <= quota
              /\ skills' = [skills EXCEPT ![i].archived = FALSE]
              /\ UNCHANGED <<quota, versions, store, pub, rel, renaming, made, edits, mishaps>>
-----------------------------------------------------------------------------
Next == \/ \E p \in Publishers : Resolve(p) \/ Assert(p) \/ Put(p) \/ Check(p) \/ Commit(p) \/ Delete(p) \/ Crash(p)
        \/ \E r \in Releasers : Prepare(r) \/ Look(r) \/ Set(r)
        \/ RenameReads \/ RenameWrites
        \/ \E i \in Ids : Clear(i) \/ Archive(i) \/ Restore(i)
Spec == Init /\ [][Next]_vars
-----------------------------------------------------------------------------
TypeOK ==
  /\ skills \in [Ids -> [slug : Slugs \union {"none"}, current : Numbers \union {0}, public : Numbers \union {0},
                         packed : 0..MaxPublications, archived : BOOLEAN]]
  /\ versions \subseteq [skill : Ids, n : Numbers, name : Slugs, sum : 1..MaxPublications]
  /\ store \subseteq [key : Slugs \X Numbers, sum : 1..MaxPublications]

\* The archive of every version is the one that was published as it, whoever publishes,
\* renames or fails beside it ("historical archive blobs remain immutable").
ArchivesAreTheirVersions == \A v \in versions : [key |-> Key(v.name, v.n), sum |-> v.sum] \in store

\* What a skill has public is a version that was published under the name it has now.
PublicHasItsName ==
  \A i \in Live : skills[i].public # 0 =>
    \E v \in VersionsOf(i) : v.n = skills[i].public /\ v.name = skills[i].slug

\* The package that is public is that of the version it is public as.  Does not hold: a
\* release finds its skill by slug twice.
PublicPackageIsItsVersion ==
  \A i \in Live : skills[i].public # 0 =>
    \E v \in VersionsOf(i) : v.n = skills[i].public /\ v.sum = skills[i].packed

\* Concurrent creations do not pass the quota.
QuotaHolds == Cardinality(Live) <= quota

\* The current version is the latest one.  Does not hold: two publications pass the check
\* of each other's number before either commits.
CurrentIsLatest == \A i \in Live : \A v \in VersionsOf(i) : v.n <= skills[i].current

\* A version whose publication failed can be published again.  Does not hold: an object
\* without a row keeps its key.
KeysAreOfVersions == (\A p \in Publishers : P(p, "idle")) =>
  \A o \in store : \E v \in versions : o.key = Key(v.name, v.n)
=============================================================================
