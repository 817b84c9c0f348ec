------------------------------ MODULE MCSkills ------------------------------
(* Instances for TLC of the modules about the skills of a workspace: their   *)
(* mirror in a GitHub repository, their publication and their databases.     *)
(* They share no state, so each behaviour follows one of them, the part,     *)
(* chosen at its start: a run explores the sum of their state spaces and not *)
(* the product.                                                              *)
EXTENDS GitHubSync, FiniteSets

CONSTANTS Publishers, Releasers, Ids, Slugs, Numbers, Quotas, Mishaps, MaxPublications, MaxEdits,
          Clients, Sweepers, MaxStatements, MaxDeclarations, MaxGrants

ASSUME PartsAssumption ==
  /\ "none" \notin Slugs /\ Numbers \subseteq Nat \ {0} /\ Quotas \subseteq Nat /\ \E q \in Quotas : q < Cardinality(Ids)
  /\ MaxPublications \in Nat \ {0} /\ MaxEdits \in Nat
  /\ MaxStatements \in Nat \ {0} /\ MaxDeclarations \in Nat /\ MaxGrants \in Nat /\ MaxMishaps \in Nat

VARIABLES part, slips,
          quota, skills, versions, store, pub, rel, renaming, made, edits,
          declared, realm, shared, granting, object, late, req, sweep, deletion, acked,
          started, declarations, grants

P == INSTANCE SkillPublish WITH mishaps <- slips
D == INSTANCE SkillDatabase WITH wire <- late, mishaps <- slips
publication == <<quota, skills, versions, store, pub, rel, renaming, made, edits>>
database == <<declared, realm, shared, granting, object, late, req, sweep, deletion, acked,
              started, declarations, grants>>
skills_vars == <<part, vars, publication, database, slips>>

SkillsInit == /\ part \in {"github", "publish", "database"} /\ Init /\ P!Init /\ D!Init
              /\ part # "github" => head = 0
              /\ part # "publish" => quota = CHOOSE q \in Quotas : TRUE
              /\ part # "database" => declared.column = "absent"
InMirror(Step) == part = "github" /\ Step /\ UNCHANGED <<part, publication, database, slips>>
InDatabase(Step) == part = "database" /\ Step /\ UNCHANGED <<part, vars, publication>>
SkillsNext == \/ part = "github" /\ Next /\ UNCHANGED <<part, publication, database, slips>>
              \/ part = "publish" /\ P!Next /\ UNCHANGED <<part, vars, database>>
              \/ part = "database" /\ D!Next /\ UNCHANGED <<part, vars, publication>>

\* FairSpec of GitHubSync and of SkillDatabase.
SkillsSpec == /\ SkillsInit /\ [][SkillsNext]_skills_vars
              /\ WF_skills_vars(InMirror(\E w \in Workers : Claim(w)))
              /\ \A w \in Workers : WF_skills_vars(InMirror(Work(w) /\ ~At(w, "idle")))
              /\ WF_skills_vars(InMirror(LeaseExpires))
              /\ \A s \in Sweepers : WF_skills_vars(InDatabase(D!Sweeps(s)))
              /\ WF_skills_vars(InDatabase(D!ClaimExpires))

\* The archive of a version is the one published as it, what is public was published under
\* the name of its skill, and concurrent creations do not pass the quota.
PublicationsHold == P!ArchivesAreTheirVersions /\ P!PublicHasItsName /\ P!QuotaHolds
\* An answered write stays in the image, a file that is not migrated again has every column
\* declared, and no owner withdraws a grant under a statement; one whose member was removed is
\* not answered.
DatabaseHolds == D!AnsweredWritesStay /\ D!FilesHaveTheirColumns /\ D!GrantsAreCurrent
\* The branch comes to mirror the catalogue, and the image of a realm that is gone is deleted.
SkillsSettle == <>[]((part = "github" => Mirrored) /\ D!ImageGone)
=============================================================================
