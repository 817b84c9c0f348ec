CONSTANTS
  Workers = {"w1", "w2"}
  Contents = {"v1"}
  MaxChanges = 2
  MaxPushes = 1
  MaxMishaps = 1
  Publishers = {p1, p2}
  Releasers = {r1}
  Ids = {"a", "b"}
  Slugs = {"x", "y"}
  Numbers = {1, 2}
  Quotas = {1, 2}
  Mishaps = {"lost", "crash", "orphan"}
  MaxPublications = 2
  MaxEdits = 2
  Clients = {"c1", "c2"}
  Sweepers = {"s1", "s2"}
  MaxStatements = 2
  MaxDeclarations = 2
  MaxGrants = 3
SPECIFICATION SkillsSpec
CHECK_DEADLOCK FALSE
INVARIANTS SyncedIsCatalogue PublicationsHold DatabaseHolds
PROPERTIES OwnFoldersStay SkillsSettle
