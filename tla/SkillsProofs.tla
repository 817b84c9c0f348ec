---------------------------- MODULE SkillsProofs ----------------------------
(***************************************************************************)
(* Proofs about the skills of a workspace for every set of requests,       *)
(* workers, skills and contents and every bound: their databases, their    *)
(* publication and their mirror in a GitHub repository.                    *)
(***************************************************************************)
EXTENDS MCSkills, TLAPS, FiniteSetTheorems
-----------------------------------------------------------------------------
(* Skill databases.                                                          *)

Images == [etag : Nat, gen : Nat, column : BOOLEAN, writes : SUBSET Nat, stray : BOOLEAN]
Statements == [at : {"idle", "lock", "get", "put", "record"}, id : Nat, by : {"owner", "grantee", "removed"},
               write : BOOLEAN, gen : Nat, image : Images, match : Nat]
DatabaseTyped ==
  /\ declared \in [gen : Nat \ {0}, table : BOOLEAN, column : {"absent", "active", "retired"}]
  /\ realm \in [st : {"none", "live", "gone"}, gen : Nat, etag : Nat] /\ shared \in BOOLEAN /\ granting \in BOOLEAN
  /\ object \in Images /\ late \in SUBSET Statements /\ req \in [Clients -> Statements]
  /\ sweep \in [Sweepers -> {"idle", "delete", "complete", "defer"}] /\ acked \in SUBSET Nat /\ started \in Nat

\* A statement whose image has not been written: its id is its ETag to be.
Unwritten(c) == req[c].at \in {"lock", "get", "put"}
\* No image with this ETag is still to be written.
Settled(etag) == /\ etag <= started
                 /\ \A c \in Clients : Unwritten(c) => req[c].id # etag
                 /\ \A r \in late : r.id # etag

\* Every image that may still be written has an ETag of its own.
EtagsDiffer == /\ \A c \in Clients : Unwritten(c) => req[c].id \in 1..started
               /\ \A r \in late : r.id \in 1..started
               /\ \A c, d \in Clients : Unwritten(c) /\ Unwritten(d) /\ c # d => req[c].id # req[d].id
               /\ \A c \in Clients, r \in late : Unwritten(c) => req[c].id # r.id
               /\ \A r, q \in late : r.id = q.id => r = q
               /\ Settled(object.etag)

\* A file lacks no column that its generation promises.
Migrates(file) == /\ file.gen <= declared.gen
                  /\ file.gen = declared.gen /\ declared.column = "active" => file.column

\* An image on its way was made from the object whose ETag it names: if that is the object
\* still, the image has all its writes.
Extends(r) == /\ r.image.etag = r.id /\ Settled(r.match)
              /\ object.etag = r.match => object.writes \subseteq r.image.writes
              /\ r.write => r.id \in r.image.writes
              /\ Migrates(r.image)
ImagesExtend == /\ \A r \in late : Extends(r)
                /\ \A c \in Clients : req[c].at = "put" => Extends(req[c])
                /\ Migrates(object)

\* What was answered, and what is about to be, is in the object of a realm that lives.
WritesStay == /\ realm.st # "gone" => acked \subseteq object.writes
              /\ \A c \in Clients : req[c].at = "record" /\ req[c].write => req[c].id \in object.writes

\* Transactions run on a realm that lives, the sweep on one that is gone.
RealmsAgree == /\ \A c \in Clients : D!InTransaction(c) => realm.st = "live"
               /\ deletion.queued => realm.st = "gone"
               /\ \A s \in Sweepers : sweep[s] # "idle" => realm.st = "gone"

GrantsHold == /\ D!GrantsAreCurrent
              /\ granting => declared.table
              /\ \A c \in Clients : req[c].at = "lock" => req[c].by # "removed"

DatabaseInv == /\ DatabaseTyped /\ EtagsDiffer /\ ImagesExtend /\ WritesStay /\ RealmsAgree /\ GrantsHold

LEMMA IdleTyped == D!NoObject \in Images /\ D!Idle \in Statements
  <1>1. D!NoObject \in Images
    BY DEF D!NoObject, Images
  <1>2. QED
    BY <1>1 DEF D!Idle, Statements

LEMMA DatabaseStarts == D!Init => DatabaseInv
  <1> SUFFICES ASSUME D!Init PROVE DatabaseInv
    OBVIOUS
  <1>1. DatabaseTyped
    <2>1. D!NoObject \in Images /\ D!Idle \in Statements
      BY IdleTyped
    <2>3. declared \in [gen : Nat \ {0}, table : BOOLEAN, column : {"absent", "active", "retired"}]
      <3>1. declared \in [gen : {1}, table : {TRUE}, column : {"absent", "active"}]
        BY DEF D!Init
      <3>2. /\ declared = [gen |-> declared.gen, table |-> declared.table, column |-> declared.column]
            /\ declared.gen = 1 /\ declared.column \in {"absent", "active"}
        BY <3>1
      <3>3. declared.table \in BOOLEAN
        <4>1. declared.table = TRUE
          BY <3>1, Zenon
        <4>2. QED
          BY <4>1, Zenon
      <3>4. QED
        BY <3>2, <3>3
    <2>4. QED
      BY <2>1, <2>3 DEF D!Init, DatabaseTyped
  <1>2. EtagsDiffer
    BY DEF D!Init, EtagsDiffer, D!Idle, D!NoObject, Settled, Unwritten
  <1>3. ImagesExtend
    BY DEF D!Init, ImagesExtend, D!Idle, D!NoObject, Migrates
  <1>4. WritesStay /\ RealmsAgree /\ GrantsHold
    BY DEF D!Init, WritesStay, RealmsAgree, GrantsHold, D!GrantsAreCurrent, D!InTransaction, D!Idle, D!NoDeletion
  <1>5. QED
    BY <1>1, <1>2, <1>3, <1>4 DEF DatabaseInv

LEMMA DeclareKeeps ==
  ASSUME DatabaseInv, D!Declare
  PROVE  DatabaseInv'
  <1> USE DEF DatabaseInv
  <1>1. PICK to \in {[declared EXCEPT !.table = ~@], [declared EXCEPT !.column = IF @ = "active" THEN "retired" ELSE "active"]} :
       /\ declared.table \/ to.table
       /\ declared' = [to EXCEPT !.gen = IF D!Advances(declared, to) THEN @ + 1 ELSE @]
       /\ shared' = (shared /\ to.table)
    BY DEF D!Declare
  <1>2. UNCHANGED <<realm, granting, object, late, req, sweep, deletion, acked, started>>
    BY DEF D!Declare
  <1>3. ~granting /\ \A c \in Clients : ~D!InTransaction(c)
    BY DEF D!Declare, D!SchemaFree
  <1>4. /\ declared' \in [gen : Nat \ {0}, table : BOOLEAN, column : {"absent", "active", "retired"}]
        /\ declared'.table = to.table
        /\ \/ declared'.gen = declared.gen + 1
           \/ declared'.gen = declared.gen /\ (declared'.column = "active" => declared.column = "active")
    <2>1. /\ declared.gen \in Nat \ {0} /\ declared.table \in BOOLEAN /\ declared.column \in {"absent", "active", "retired"}
          /\ declared = [gen |-> declared.gen, table |-> declared.table, column |-> declared.column]
      BY DEF DatabaseTyped
    <2>2. to = [gen |-> declared.gen, table |-> to.table, column |-> to.column] /\ to.table \in BOOLEAN
          /\ to.column \in {"absent", "active", "retired"}
      BY <1>1, <2>1
    <2>3. declared' = [gen |-> IF D!Advances(declared, to) THEN declared.gen + 1 ELSE declared.gen,
                       table |-> to.table, column |-> to.column]
      BY <1>1, <2>2
    <2>4. QED
      BY <2>1, <2>2, <2>3 DEF D!Advances
  <1>5. DatabaseTyped'
    BY <1>1, <1>2, <1>4 DEF DatabaseTyped
  <1>6. \A file \in Images : Migrates(file) => Migrates(file)'
    BY <1>4 DEF Migrates, DatabaseTyped, Images
  <1>7. EtagsDiffer' /\ WritesStay' /\ RealmsAgree'
    BY <1>2 DEF EtagsDiffer, WritesStay, RealmsAgree, Settled, Unwritten, D!InTransaction
  <1>8. ImagesExtend'
    BY <1>2, <1>6 DEF ImagesExtend, Extends, Settled, Unwritten, DatabaseTyped, Statements
  <1>9. GrantsHold'
    BY <1>1, <1>2, <1>3, <1>4 DEF GrantsHold, D!GrantsAreCurrent, D!InTransaction, DatabaseTyped
  <1>10. QED
    BY <1>5, <1>7, <1>8, <1>9

LEMMA GrantKeeps ==
  ASSUME DatabaseInv, D!OpenGrant \/ D!SetGrant
  PROVE  DatabaseInv'
  <1> USE DEF DatabaseInv
  <1>1. UNCHANGED <<declared, object, late, req, sweep, deletion, acked, started>>
    BY DEF D!OpenGrant, D!SetGrant
  <1>2. /\ realm' \in [st : {"none", "live", "gone"}, gen : Nat, etag : Nat]
        /\ realm'.st = realm.st \/ (realm.st = "none" /\ realm'.st = "live")
    BY DEF D!OpenGrant, D!SetGrant, DatabaseTyped
  <1>3. shared' \in BOOLEAN /\ granting' \in BOOLEAN
    <2>1. D!OpenGrant => granting' = TRUE /\ shared' = shared
      BY DEF D!OpenGrant
    <2>3. shared \in BOOLEAN
      BY DEF DatabaseTyped
    <2>2. D!SetGrant => granting' = FALSE /\ shared' \in BOOLEAN
      <3>1. (~shared /\ realm.st # "gone") \in BOOLEAN
        BY Zenon
      <3>2. QED
        BY <2>3, <3>1, Zenon DEF D!SetGrant
    <2>4. QED
      BY <2>1, <2>2, <2>3, Zenon
  <1>4. DatabaseTyped' /\ EtagsDiffer' /\ ImagesExtend'
    BY <1>1, <1>2, <1>3 DEF DatabaseTyped, EtagsDiffer, ImagesExtend, Extends, Migrates, Settled, Unwritten
  <1>5. WritesStay' /\ RealmsAgree'
    BY <1>1, <1>2 DEF WritesStay, RealmsAgree, D!InTransaction
  <1>6. GrantsHold'
    BY <1>1 DEF GrantsHold, D!GrantsAreCurrent, D!InTransaction, D!OpenGrant, D!SetGrant, D!RowFree
  <1>7. QED
    BY <1>4, <1>5, <1>6

LEMMA RealmGoesKeeps ==
  ASSUME DatabaseInv, D!RealmGoes
  PROVE  DatabaseInv'
  <1> USE DEF DatabaseInv
  <1>1. /\ UNCHANGED <<declared, granting, object, late, req, sweep, acked, started>>
        /\ \A c \in Clients : ~D!InTransaction(c)
    BY DEF D!RealmGoes, D!RowFree
  <1>2. realm' \in [st : {"none", "live", "gone"}, gen : Nat, etag : Nat] /\ realm'.st = "gone" /\ shared' = FALSE
    BY DEF D!RealmGoes, DatabaseTyped
  <1>3. DatabaseTyped' /\ EtagsDiffer' /\ ImagesExtend'
    <2>1. EtagsDiffer' /\ ImagesExtend'
      BY <1>1 DEF EtagsDiffer, ImagesExtend, Extends, Migrates, Settled, Unwritten
    <2>2. QED
      BY <1>1, <1>2, <2>1 DEF DatabaseTyped
  <1>4. WritesStay' /\ RealmsAgree' /\ GrantsHold'
    BY <1>1, <1>2 DEF WritesStay, RealmsAgree, GrantsHold, D!GrantsAreCurrent, D!InTransaction
  <1>5. QED
    BY <1>3, <1>4

LEMMA MemberRemovedKeeps ==
  ASSUME DatabaseInv, D!MemberRemoved
  PROVE  DatabaseInv'
  <1> USE DEF DatabaseInv
  <1>1. /\ UNCHANGED <<declared, realm, granting, object, late, sweep, deletion, acked, started>>
        /\ shared' = FALSE
        /\ req' = [c \in Clients |-> IF D!InTransaction(c) /\ req[c].by = "grantee"
                                     THEN [req[c] EXCEPT !.by = "removed"] ELSE req[c]]
    BY DEF D!MemberRemoved
  <1>2. /\ req' \in [Clients -> Statements]
        /\ \A c \in Clients : /\ req'[c].at = req[c].at /\ req'[c].id = req[c].id /\ req'[c].write = req[c].write
                             /\ req'[c].match = req[c].match /\ req'[c].image = req[c].image
                             /\ req'[c].by = IF D!InTransaction(c) /\ req[c].by = "grantee" THEN "removed" ELSE req[c].by
    <2>1. \A r \in Statements :
            LET s == [r EXCEPT !.by = "removed"] IN
            /\ s \in Statements /\ s.by = "removed" /\ s.at = r.at /\ s.id = r.id /\ s.write = r.write
            /\ s.match = r.match /\ s.image = r.image
      BY DEF Statements
    <2>2. \A c \in Clients : req[c] \in Statements
      BY DEF DatabaseTyped
    <2>3. QED
      BY <1>1, <2>1, <2>2
  <1>3. DatabaseTyped'
    BY <1>1, <1>2 DEF DatabaseTyped
  <1>4. EtagsDiffer'
    BY <1>1, <1>2 DEF EtagsDiffer, Settled, Unwritten
  <1>5. ImagesExtend'
    BY <1>1, <1>2 DEF ImagesExtend, Extends, Migrates, Settled, Unwritten
  <1>6. WritesStay' /\ RealmsAgree'
    BY <1>1, <1>2 DEF WritesStay, RealmsAgree, D!InTransaction
  <1>7. GrantsHold'
    BY <1>1, <1>2 DEF GrantsHold, D!GrantsAreCurrent, D!InTransaction
  <1>8. QED
    BY <1>3, <1>4, <1>5, <1>6, <1>7

\* A statement ends, and its image with it.
LEMMA EndKeeps ==
  ASSUME DatabaseInv, NEW c \in Clients, req' = [req EXCEPT ![c] = D!Idle],
         UNCHANGED <<declared, realm, shared, granting, object, late, sweep, deletion, acked, started>>
  PROVE  DatabaseInv'
  <1> USE DEF DatabaseInv
  <1>1. req' \in [Clients -> Statements]
    <2>1. D!Idle \in Statements
      BY IdleTyped
    <2>2. QED
      BY <2>1 DEF DatabaseTyped
  <1>2. \A d \in Clients : req'[d] = IF d = c THEN D!Idle ELSE req[d]
    BY DEF DatabaseTyped
  <1>3. D!Idle.at = "idle"
    BY DEF D!Idle
  <1>4. DatabaseTyped'
    BY <1>1 DEF DatabaseTyped
  <1>5. EtagsDiffer'
    BY <1>2, <1>3 DEF EtagsDiffer, Settled, Unwritten
  <1>6. ImagesExtend'
    BY <1>2, <1>3 DEF ImagesExtend, Extends, Migrates, Settled, Unwritten
  <1>7. WritesStay' /\ RealmsAgree' /\ GrantsHold'
    BY <1>2, <1>3 DEF WritesStay, RealmsAgree, GrantsHold, D!GrantsAreCurrent, D!InTransaction
  <1>8. QED
    BY <1>4, <1>5, <1>6, <1>7

LEMMA OpenedTyped ==
  ASSUME NEW r \in Statements, NEW n \in Nat, NEW b \in {"owner", "grantee"}, NEW w \in BOOLEAN
  PROVE  [r EXCEPT !.at = "lock", !.id = n, !.by = b, !.write = w] \in Statements
  BY DEF Statements

LEMMA OpenedHas ==
  ASSUME NEW r \in Statements, NEW n \in Nat, NEW b, NEW w
  PROVE  LET s == [r EXCEPT !.at = "lock", !.id = n, !.by = b, !.write = w] IN s.at = "lock" /\ s.id = n /\ s.by = b
  BY DEF Statements

LEMMA OpenKeeps ==
  ASSUME DatabaseInv, NEW c \in Clients, D!Open(c)
  PROVE  DatabaseInv'
  <1> USE DEF DatabaseInv
  <1>1. PICK by \in {"owner", "grantee"}, write \in BOOLEAN :
          req' = [req EXCEPT ![c] = [D!Idle EXCEPT !.at = "lock", !.id = started', !.by = by, !.write = write]]
    BY DEF D!Open, D!Goes
  <1>2. /\ UNCHANGED <<declared, shared, granting, object, late, sweep, deletion, acked>>
        /\ started' = started + 1 /\ started \in Nat
    BY DEF D!Open, DatabaseTyped
  <1>3. /\ realm' \in [st : {"none", "live", "gone"}, gen : Nat, etag : Nat]
        /\ realm'.st = realm.st \/ (realm.st = "none" /\ realm'.st = "live")
    BY DEF D!Open, DatabaseTyped
  <1>4. /\ req' \in [Clients -> Statements] /\ req'[c].at = "lock" /\ req'[c].id = started' /\ req'[c].by = by
        /\ \A d \in Clients \ {c} : req'[d] = req[d]
    <2>1. D!Idle \in Statements
      BY IdleTyped
    <2>2. started' \in Nat
      BY <1>2
    <2>3. [D!Idle EXCEPT !.at = "lock", !.id = started', !.by = by, !.write = write] \in Statements
      BY <2>1, <2>2, OpenedTyped
    <2>4. LET s == [D!Idle EXCEPT !.at = "lock", !.id = started', !.by = by, !.write = write]
          IN  s.at = "lock" /\ s.id = started' /\ s.by = by
      BY <2>1, <2>2, OpenedHas
    <2> DEFINE s == [D!Idle EXCEPT !.at = "lock", !.id = started', !.by = by, !.write = write]
    <2>5. req' = [req EXCEPT ![c] = s] /\ s \in Statements /\ s.at = "lock" /\ s.id = started' /\ s.by = by
      BY <1>1, <2>3, <2>4
    <2> HIDE DEF s
    <2>6. QED
      BY <2>5 DEF DatabaseTyped
  <1>5. DatabaseTyped'
    BY <1>2, <1>3, <1>4 DEF DatabaseTyped
  <1>6. /\ \A etag \in Nat : Settled(etag) => Settled(etag)' /\ etag # started'
        /\ \A r \in late : r \in Statements /\ r.id # started'
        /\ \A d \in Clients : req[d] \in Statements /\ (Unwritten(d) => req[d].id # started')
    BY <1>2, <1>4 DEF Settled, Unwritten, EtagsDiffer, DatabaseTyped
  <1>7. EtagsDiffer'
    BY <1>2, <1>4, <1>6 DEF EtagsDiffer, Unwritten, DatabaseTyped, Images
  <1>8. ImagesExtend'
    BY <1>2, <1>4, <1>6 DEF ImagesExtend, Extends, Migrates, Statements
  <1>9. WritesStay' /\ RealmsAgree' /\ GrantsHold'
    BY <1>2, <1>3, <1>4 DEF WritesStay, RealmsAgree, GrantsHold, D!GrantsAreCurrent, D!InTransaction
  <1>10. QED
    BY <1>5, <1>7, <1>8, <1>9

LEMMA LockKeeps ==
  ASSUME DatabaseInv, NEW c \in Clients, D!Lock(c)
  PROVE  DatabaseInv'
  <1> USE DEF DatabaseInv
  <1>1. UNCHANGED <<declared, realm, shared, granting, object, late, sweep, deletion, acked, started>>
    BY DEF D!Lock
  <1>2. CASE ~D!Allowed(c)
    BY <1>1, <1>2, EndKeeps DEF D!Lock, D!Goes
  <1>3. CASE D!Allowed(c)
    <2>1. req' = [req EXCEPT ![c].at = "get"] /\ req[c].at = "lock"
      BY <1>3 DEF D!Lock, D!Goes, D!At
    <2>2. /\ req' \in [Clients -> Statements] /\ req'[c].at = "get" /\ req'[c].id = req[c].id /\ req'[c].by = req[c].by
          /\ \A d \in Clients \ {c} : req'[d] = req[d]
      BY <2>1 DEF DatabaseTyped, Statements
    <2>3. DatabaseTyped' /\ EtagsDiffer'
      BY <1>1, <2>1, <2>2 DEF DatabaseTyped, EtagsDiffer, Settled, Unwritten
    <2>4. ImagesExtend'
      BY <1>1, <2>1, <2>2 DEF ImagesExtend, Extends, Migrates, Settled, Unwritten
    <2>5. WritesStay' /\ RealmsAgree' /\ GrantsHold'
      BY <1>1, <1>3, <2>1, <2>2 DEF WritesStay, RealmsAgree, GrantsHold, D!GrantsAreCurrent, D!InTransaction, D!Allowed
    <2>6. QED
      BY <2>3, <2>4, <2>5
  <1>4. QED
    BY <1>2, <1>3

\* What the worker makes of a file has its writes, and the columns of the generation.
LEMMA Migrated ==
  ASSUME DatabaseInv, NEW r \in Statements
  PROVE  LET new == D!Ran(object, r) IN
         /\ new \in Images /\ new.gen <= declared.gen
         /\ new.gen = declared.gen /\ declared.column = "active" => new.column
         /\ object.writes \subseteq new.writes /\ (r.write => r.id \in new.writes)
  <1> DEFINE column == object.column \/ declared.column = "active"
             old == D!Migrated(object)
             new == D!Ran(object, r)
  <1> USE DEF DatabaseInv
  <1>1. object \in Images /\ declared.gen \in Nat /\ Migrates(object)
    BY DEF DatabaseTyped, ImagesExtend
  <1>2. old = IF object.gen >= declared.gen THEN object
              ELSE [object EXCEPT !.gen = declared.gen, !.column = column]
    BY DEF D!Migrated
  <1>3. column \in BOOLEAN /\ (declared.column = "active" => column)
    BY Zenon
  <1> HIDE DEF column
  <1>4. /\ old \in Images /\ old.gen <= declared.gen /\ old.writes = object.writes
        /\ old.gen = declared.gen /\ declared.column = "active" => old.column
    <2>1. CASE object.gen >= declared.gen
      BY <1>1, <1>2, <2>1 DEF Migrates, Images
    <2>2. CASE ~(object.gen >= declared.gen)
      <3>1. old = [etag |-> object.etag, gen |-> declared.gen, column |-> column, writes |-> object.writes,
                   stray |-> object.stray]
        BY <1>1, <1>2, <2>2 DEF Images
      <3>2. QED
        BY <1>1, <1>3, <3>1 DEF Images
    <2>3. QED
      BY <2>1, <2>2
  <1>5. new = IF r.write THEN [old EXCEPT !.writes = @ \union {r.id}] ELSE old
    BY DEF D!Ran
  <1> HIDE DEF old
  <1>6. r.id \in Nat /\ r.write \in BOOLEAN
    BY DEF Statements
  <1>7. QED
    BY <1>4, <1>5, <1>6 DEF Images

LEMMA GetKeeps ==
  ASSUME DatabaseInv, NEW c \in Clients, D!Get(c)
  PROVE  DatabaseInv'
  <1> DEFINE new == D!Ran(object, req[c])
             r == req'[c]
  <1> USE DEF DatabaseInv
  <1>1. UNCHANGED <<declared, realm, shared, granting, object, late, sweep, deletion, acked, started>> /\ req[c].at = "get"
    BY DEF D!Get, D!At
  <1>2. CASE D!Missing
    BY <1>1, <1>2, EndKeeps DEF D!Get, D!Goes
  <1>3. CASE ~D!Missing
    <2>1. req' = [req EXCEPT ![c] = [req[c] EXCEPT !.at = IF new = object THEN "record" ELSE "put", !.gen = declared.gen,
                                      !.match = object.etag, !.image = [new EXCEPT !.etag = req[c].id]]]
      BY <1>3 DEF D!Get, D!Goes
    <2>2. req[c] \in Statements /\ object \in Images /\ declared.gen \in Nat
      BY DEF DatabaseTyped
    <2>3. /\ new \in Images /\ new.gen <= declared.gen
          /\ new.gen = declared.gen /\ declared.column = "active" => new.column
          /\ object.writes \subseteq new.writes /\ (req[c].write => req[c].id \in new.writes)
      BY <2>2, Migrated
    <2> HIDE DEF new
    <2>4. [new EXCEPT !.etag = req[c].id] \in Images
      BY <2>2, <2>3 DEF Images, Statements
    <2>5. /\ req' \in [Clients -> Statements] /\ r.at = (IF new = object THEN "record" ELSE "put")
          /\ r.id = req[c].id /\ r.by = req[c].by /\ r.write = req[c].write
          /\ r.match = object.etag /\ r.image = [new EXCEPT !.etag = r.id]
          /\ \A d \in Clients \ {c} : req'[d] = req[d]
      BY <2>1, <2>2, <2>4 DEF DatabaseTyped, Statements, Images
    <2>6. DatabaseTyped' /\ EtagsDiffer'
      BY <1>1, <2>5 DEF DatabaseTyped, EtagsDiffer, Settled, Unwritten
    <2>7. /\ r.image.etag = r.id /\ r.image.gen = new.gen /\ r.image.column = new.column /\ r.image.writes = new.writes
      BY <2>3, <2>5 DEF Images
    <2>8. \A etag \in Nat : Settled(etag) => Settled(etag)'
      BY <1>1, <2>5 DEF Settled, Unwritten
    <2>9. Extends(req[c])'
      <3>1. Settled(req[c].match)'
        BY <2>2, <2>5, <2>8 DEF EtagsDiffer, Images
      <3>2. object'.etag = r.match => object'.writes \subseteq r.image.writes
        BY <1>1, <2>3, <2>7
      <3>3. (r.write => r.id \in r.image.writes) /\ Migrates(req[c].image)'
        BY <1>1, <2>3, <2>5, <2>7 DEF Migrates
      <3>4. QED
        BY <2>7, <3>1, <3>2, <3>3 DEF Extends
    <2>10. ImagesExtend'
      <3>1. \A q \in Statements : Extends(q) => Extends(q)'
        BY <1>1, <2>8 DEF Extends, Migrates, Statements
      <3>2. \A q \in late : q \in Statements
        BY DEF DatabaseTyped
      <3>3. \A d \in Clients : req[d] \in Statements
        BY DEF DatabaseTyped
      <3>4. QED
        BY <1>1, <2>5, <2>9, <3>1, <3>2, <3>3 DEF ImagesExtend, Migrates
    <2>11. WritesStay' /\ RealmsAgree' /\ GrantsHold'
      BY <1>1, <2>3, <2>5 DEF WritesStay, RealmsAgree, GrantsHold, D!GrantsAreCurrent, D!InTransaction
    <2>12. QED
      BY <2>6, <2>10, <2>11
  <1>4. QED
    BY <1>2, <1>3

\* A statement ends, and its PUT may still arrive.
LEMMA LateKeeps ==
  ASSUME DatabaseInv, NEW c \in Clients, req[c].at = "put", req' = [req EXCEPT ![c] = D!Idle],
         late' = late \union {req[c]},
         UNCHANGED <<declared, realm, shared, granting, object, sweep, deletion, acked, started>>
  PROVE  DatabaseInv'
  <1> USE DEF DatabaseInv
  <1>1. D!Idle \in Statements /\ D!Idle.at = "idle"
    BY IdleTyped DEF D!Idle
  <1>2. /\ req' \in [Clients -> Statements] /\ \A d \in Clients : req'[d] = IF d = c THEN D!Idle ELSE req[d]
        /\ req[c] \in Statements /\ Unwritten(c)
    BY <1>1 DEF DatabaseTyped, Unwritten
  <1>3. DatabaseTyped'
    BY <1>2 DEF DatabaseTyped
  <1>4. EtagsDiffer'
    BY <1>1, <1>2 DEF EtagsDiffer, Settled, Unwritten
  <1>5. ImagesExtend'
    <2>1. \A etag \in Nat : Settled(etag) => Settled(etag)'
      BY <1>1, <1>2 DEF Settled, Unwritten
    <2>2. \A q \in Statements : Extends(q) => Extends(q)'
      BY <2>1 DEF Extends, Migrates, Statements
    <2>3. \A q \in late : q \in Statements
      BY DEF DatabaseTyped
    <2>4. \A d \in Clients : req[d] \in Statements
      BY DEF DatabaseTyped
    <2>5. QED
      BY <1>1, <1>2, <2>2, <2>3, <2>4 DEF ImagesExtend, Migrates
  <1>6. WritesStay' /\ RealmsAgree' /\ GrantsHold'
    BY <1>1, <1>2 DEF WritesStay, RealmsAgree, GrantsHold, D!GrantsAreCurrent, D!InTransaction
  <1>7. QED
    BY <1>3, <1>4, <1>5, <1>6

LEMMA StrayTyped ==
  ASSUME NEW file \in Images, NEW match
  PROVE  LET new == [file EXCEPT !.stray = (match = 0)] IN
         /\ new \in Images /\ new.etag = file.etag /\ new.gen = file.gen /\ new.column = file.column
         /\ new.writes = file.writes
  <1> DEFINE b == (match = 0)
  <1>1. b \in BOOLEAN
    BY Zenon
  <1> HIDE DEF b
  <1>2. [file EXCEPT !.stray = b] \in Images
    BY <1>1 DEF Images
  <1>3. QED
    BY <1>2 DEF Images, b

LEMMA PutKeeps ==
  ASSUME DatabaseInv, NEW c \in Clients, D!Put(c)
  PROVE  DatabaseInv'
  <1> DEFINE r == req[c]
  <1> USE DEF DatabaseInv
  <1>1. /\ UNCHANGED <<declared, realm, shared, granting, sweep, deletion, acked, started>>
        /\ r.at = "put" /\ r \in Statements /\ Unwritten(c) /\ D!InTransaction(c)
    BY DEF D!Put, D!At, DatabaseTyped, Unwritten, D!InTransaction
  <1>2. Extends(r)
    BY <1>1 DEF ImagesExtend
  <1>3. CASE D!Matches(r.match) /\ object' = r.image /\ late' = late
             /\ D!Goes(c, [r EXCEPT !.at = "record", !.match = r.id])
    <2>1. /\ req' \in [Clients -> Statements] /\ req'[c].at = "record" /\ req'[c].id = r.id
          /\ req'[c].by = r.by /\ req'[c].write = r.write
          /\ \A d \in Clients \ {c} : req'[d] = req[d]
      BY <1>1, <1>3 DEF DatabaseTyped, D!Goes, Statements
    <2>2. object' \in Images /\ object'.etag = r.id /\ object.writes \subseteq object'.writes
      BY <1>1, <1>2, <1>3 DEF Statements, Extends, D!Matches
    <2>3. DatabaseTyped'
      BY <1>1, <1>3, <2>1, <2>2 DEF DatabaseTyped
    <2>4. \A etag \in Nat : Settled(etag) => Settled(etag)' /\ etag # r.id
      BY <1>1, <1>3, <2>1 DEF Settled, Unwritten
    <2>5. EtagsDiffer'
      <3>1. Settled(object.etag)'
        BY <1>1, <1>3, <2>1, <2>2 DEF EtagsDiffer, Settled, Unwritten, DatabaseTyped
      <3>2. QED
        BY <1>1, <1>3, <2>1, <3>1 DEF EtagsDiffer, Unwritten
    <2>6. ImagesExtend'
      <3>1. \A q \in Statements : Extends(q) => Extends(q)'
        BY <1>1, <2>2, <2>4 DEF Extends, Migrates, Statements
      <3>2. Migrates(object)'
        BY <1>1, <1>2, <1>3 DEF Extends, Migrates
      <3>3. \A q \in late : q \in Statements
        BY DEF DatabaseTyped
      <3>4. \A d \in Clients : req[d] \in Statements
        BY DEF DatabaseTyped
      <3>5. QED
        BY <1>3, <2>1, <3>1, <3>2, <3>3, <3>4 DEF ImagesExtend
    <2>7. WritesStay'
      BY <1>1, <1>2, <1>3, <2>1, <2>2 DEF WritesStay, Extends
    <2>8. RealmsAgree' /\ GrantsHold'
      BY <1>1, <2>1 DEF RealmsAgree, GrantsHold, D!GrantsAreCurrent, D!InTransaction
    <2>9. QED
      BY <2>3, <2>5, <2>6, <2>7, <2>8
  <1>4. CASE ~D!Matches(r.match) /\ UNCHANGED <<object, late>> /\ D!Goes(c, D!Idle)
    BY <1>1, <1>4, EndKeeps DEF D!Goes
  <1>5. CASE late' = late \union {r} /\ D!Goes(c, D!Idle) /\ UNCHANGED object
    BY <1>1, <1>5, LateKeeps DEF D!Goes
  <1>6. QED
    BY <1>3, <1>4, <1>5 DEF D!Put

LEMMA RecordKeeps ==
  ASSUME DatabaseInv, NEW c \in Clients, D!Record(c)
  PROVE  DatabaseInv'
  <1> DEFINE r == req[c]
  <1> USE DEF DatabaseInv
  <1>1. /\ UNCHANGED <<declared, shared, granting, object, late, sweep, deletion, started>>
        /\ r.at = "record" /\ r \in Statements /\ req' = [req EXCEPT ![c] = D!Idle]
    BY DEF D!Record, D!At, D!Goes, DatabaseTyped
  <1>2. CASE UNCHANGED <<realm, acked>>
    BY <1>1, <1>2, EndKeeps
  <1>3. CASE realm' = [realm EXCEPT !.gen = r.gen, !.etag = r.match]
             /\ acked' = IF r.write THEN acked \union {r.id} ELSE acked
    <2>1. /\ realm' \in [st : {"none", "live", "gone"}, gen : Nat, etag : Nat] /\ realm'.st = realm.st
          /\ acked' \in SUBSET Nat
      BY <1>1, <1>3 DEF DatabaseTyped, Statements
    <2>2. D!Idle \in Statements /\ D!Idle.at = "idle"
      BY IdleTyped DEF D!Idle
    <2>3. req' \in [Clients -> Statements] /\ \A d \in Clients : req'[d] = IF d = c THEN D!Idle ELSE req[d]
      BY <1>1, <2>2 DEF DatabaseTyped
    <2>4. DatabaseTyped'
      BY <1>1, <2>1, <2>3 DEF DatabaseTyped
    <2>5. EtagsDiffer' /\ ImagesExtend'
      BY <1>1, <2>2, <2>3 DEF EtagsDiffer, ImagesExtend, Extends, Migrates, Settled, Unwritten
    <2>6. WritesStay'
      BY <1>1, <1>3, <2>1, <2>2, <2>3 DEF WritesStay
    <2>7. RealmsAgree' /\ GrantsHold'
      BY <1>1, <2>1, <2>2, <2>3 DEF RealmsAgree, GrantsHold, D!GrantsAreCurrent, D!InTransaction
    <2>8. QED
      BY <2>4, <2>5, <2>6, <2>7
  <1>4. QED
    BY <1>2, <1>3 DEF D!Record

LEMMA CrashKeeps ==
  ASSUME DatabaseInv, NEW c \in Clients, D!Crash(c)
  PROVE  DatabaseInv'
  <1>1. /\ UNCHANGED <<declared, realm, shared, granting, object, sweep, deletion, acked, started>>
        /\ req' = [req EXCEPT ![c] = D!Idle]
        /\ late' = IF req[c].at = "put" THEN late \union {req[c]} ELSE late
    BY DEF D!Crash, D!Goes, D!At
  <1>2. CASE req[c].at = "put"
    BY <1>1, <1>2, LateKeeps
  <1>3. CASE req[c].at # "put"
    BY <1>1, <1>3, EndKeeps
  <1>4. QED
    BY <1>2, <1>3

LEMMA IsLostKeeps ==
  ASSUME DatabaseInv, NEW r \in late, D!IsLost(r)
  PROVE  DatabaseInv'
  <1>1. /\ UNCHANGED <<declared, realm, shared, granting, object, req, sweep, deletion, acked, started>>
        /\ late' \subseteq late
    BY DEF D!IsLost
  <1>2. DatabaseTyped'
    BY <1>1 DEF DatabaseInv, DatabaseTyped
  <1>3. EtagsDiffer' /\ ImagesExtend'
    BY <1>1 DEF DatabaseInv, EtagsDiffer, ImagesExtend, Extends, Migrates, Settled, Unwritten
  <1>4. WritesStay' /\ RealmsAgree' /\ GrantsHold'
    BY <1>1 DEF DatabaseInv, WritesStay, RealmsAgree, GrantsHold, D!GrantsAreCurrent, D!InTransaction
  <1>5. QED
    BY <1>2, <1>3, <1>4 DEF DatabaseInv

LEMMA ArrivesKeeps ==
  ASSUME DatabaseInv, NEW r \in late, D!Arrives(r)
  PROVE  DatabaseInv'
  <1> DEFINE new == [r.image EXCEPT !.stray = (r.match = 0)]
  <1> USE DEF DatabaseInv
  <1>1. /\ UNCHANGED <<declared, realm, shared, granting, req, sweep, deletion, acked, started>>
        /\ late' = late \ {r} /\ r \in Statements /\ Extends(r)
        /\ object' = IF D!Matches(r.match) THEN new ELSE object
    BY DEF D!Arrives, DatabaseTyped, ImagesExtend
  <1>2. CASE ~D!Matches(r.match)
    BY <1>1, <1>2, IsLostKeeps DEF D!IsLost, D!Arrives
  <1>3. CASE D!Matches(r.match)
    <2>1. /\ new \in Images /\ new.etag = r.image.etag /\ new.gen = r.image.gen /\ new.column = r.image.column
          /\ new.writes = r.image.writes
      <3>1. r.image \in Images
        BY <1>1 DEF Statements
      <3>2. QED
        BY <3>1, StrayTyped
    <2> HIDE DEF new
    <2>2. /\ object' = new /\ object' \in Images /\ object'.etag = r.id /\ object.writes \subseteq object'.writes
      BY <1>1, <1>3, <2>1 DEF Extends, D!Matches
    <2>3. DatabaseTyped'
      BY <1>1, <2>2 DEF DatabaseTyped
    <2>4. \A etag \in Nat : Settled(etag) => Settled(etag)' /\ etag # r.id
      BY <1>1 DEF Settled, Unwritten
    <2>5. EtagsDiffer'
      <3>1. Settled(object.etag)'
        BY <1>1, <2>2 DEF EtagsDiffer, Settled, Unwritten, DatabaseTyped
      <3>2. QED
        BY <1>1, <3>1 DEF EtagsDiffer, Unwritten
    <2>6. ImagesExtend'
      <3>1. \A q \in Statements : Extends(q) => Extends(q)'
        BY <1>1, <2>2, <2>4 DEF Extends, Migrates, Statements
      <3>2. Migrates(object)'
        BY <1>1, <2>1, <2>2 DEF Extends, Migrates
      <3>3. \A q \in late : q \in Statements
        BY DEF DatabaseTyped
      <3>4. \A d \in Clients : req[d] \in Statements
        BY DEF DatabaseTyped
      <3>5. QED
        BY <1>1, <3>1, <3>2, <3>3, <3>4 DEF ImagesExtend
    <2>7. WritesStay' /\ RealmsAgree' /\ GrantsHold'
      BY <1>1, <2>2 DEF WritesStay, RealmsAgree, GrantsHold, D!GrantsAreCurrent, D!InTransaction
    <2>8. QED
      BY <2>3, <2>5, <2>6, <2>7
  <1>4. QED
    BY <1>2, <1>3

LEMMA SweepKeeps ==
  ASSUME DatabaseInv, NEW s \in Sweepers, D!Sweeps(s) \/ D!Dies(s)
  PROVE  DatabaseInv'
  <1> USE DEF DatabaseInv
  <1>1. UNCHANGED <<declared, realm, shared, granting, late, req, acked, started>>
    BY DEF D!Sweeps, D!Dies, D!Claim, D!DeleteObject, D!Complete, D!Defer, D!OutsideSweep
  <1>2. PICK at \in {"idle", "delete", "complete", "defer"} : sweep' = [sweep EXCEPT ![s] = at]
    BY DEF D!Sweeps, D!Dies, D!Claim, D!DeleteObject, D!Complete, D!Defer, D!SweepGoes
  <1>3. realm.st = "gone"
    BY DEF D!Sweeps, D!Dies, D!Claim, D!DeleteObject, D!Complete, D!Defer, D!Claimable, RealmsAgree
  <1>4. object' = object \/ object' = D!NoObject
    BY DEF D!Sweeps, D!Dies, D!Claim, D!DeleteObject, D!Complete, D!Defer
  <1>5. D!NoObject \in Images /\ D!NoObject.etag = 0 /\ D!NoObject.writes = {} /\ D!NoObject.gen = 0
    BY IdleTyped DEF D!NoObject
  <1>6. DatabaseTyped'
    BY <1>1, <1>2, <1>4, <1>5 DEF DatabaseTyped
  <1>7. EtagsDiffer'
    <2>1. Settled(0)
      BY DEF Settled, EtagsDiffer, DatabaseTyped
    <2>2. QED
      BY <1>1, <1>4, <1>5, <2>1 DEF EtagsDiffer, Settled, Unwritten
  <1>8. ImagesExtend'
    BY <1>1, <1>4, <1>5 DEF ImagesExtend, Extends, Migrates, Settled, Unwritten, DatabaseTyped
  <1>9. WritesStay' /\ RealmsAgree' /\ GrantsHold'
    BY <1>1, <1>3 DEF WritesStay, RealmsAgree, GrantsHold, D!GrantsAreCurrent, D!InTransaction
  <1>10. QED
    BY <1>6, <1>7, <1>8, <1>9

LEMMA ExpiresKeeps ==
  ASSUME DatabaseInv, D!ClaimExpires
  PROVE  DatabaseInv'
  <1> USE DEF DatabaseInv
  <1>1. UNCHANGED <<declared, realm, shared, granting, object, late, req, sweep, acked, started>>
    BY DEF D!ClaimExpires, D!OutsideSweep
  <1>2. deletion'.queued => deletion.queued
    BY DEF D!ClaimExpires
  <1>3. DatabaseTyped' /\ EtagsDiffer' /\ ImagesExtend'
    BY <1>1 DEF DatabaseTyped, EtagsDiffer, ImagesExtend, Extends, Migrates, Settled, Unwritten
  <1>4. WritesStay' /\ RealmsAgree' /\ GrantsHold'
    BY <1>1, <1>2 DEF WritesStay, RealmsAgree, GrantsHold, D!GrantsAreCurrent, D!InTransaction
  <1>5. QED
    BY <1>3, <1>4

LEMMA DatabaseStep ==
  ASSUME DatabaseInv, D!Next \/ UNCHANGED database
  PROVE  DatabaseInv'
  <1>1. CASE D!Next
    BY <1>1, DeclareKeeps, GrantKeeps, RealmGoesKeeps, MemberRemovedKeeps, OpenKeeps, LockKeeps, GetKeeps, PutKeeps, RecordKeeps, CrashKeeps,
       ArrivesKeeps, IsLostKeeps, SweepKeeps, ExpiresKeeps DEF D!Next
  <1>2. CASE UNCHANGED database
    BY <1>2 DEF database, DatabaseInv, DatabaseTyped, EtagsDiffer, ImagesExtend, WritesStay, RealmsAgree, GrantsHold,
       Extends, Migrates, Settled, Unwritten, D!GrantsAreCurrent, D!InTransaction
  <1>3. QED
    BY <1>1, <1>2

\* SkillDatabase: an answered write stays in the image, a file that no statement would
\* migrate has the columns, a statement keeps its grant or its member was removed.
THEOREM DatabaseSafe == SkillsSpec => []DatabaseHolds
  <1>1. SkillsInit => DatabaseInv
    BY DatabaseStarts DEF SkillsInit
  <1>2. DatabaseInv /\ [SkillsNext]_skills_vars => DatabaseInv'
    BY DatabaseStep DEF SkillsNext, skills_vars
  <1>3. DatabaseInv => DatabaseHolds
    BY DEF DatabaseInv, DatabaseHolds, WritesStay, GrantsHold, ImagesExtend, Migrates, DatabaseTyped, Images,
       D!AnsweredWritesStay, D!FilesHaveTheirColumns
  <1>4. QED
    BY <1>1, <1>2, <1>3, PTL DEF SkillsSpec
-----------------------------------------------------------------------------
(* Publication.                                                              *)

Rows == [slug : Slugs \union {"none"}, current : Nat, public : Nat, packed : Nat, archived : BOOLEAN]
Jobs == [at : {"idle", "assert", "put", "check", "write", "delete"}, slug : Slugs \union {"none"},
         id : Ids \union {"none"}, n : Nat, sum : Nat, into : Ids \union {"none"}]
Releases == [at : {"idle", "look", "set"}, slug : Slugs \union {"none"}, id : Ids \union {"none"}, n : Nat,
             zip : Nat, public : Nat, packed : Nat]
Renamings == [id : Ids \union {"none"}, from : Slugs \union {"none"}, to : Slugs \union {"none"}]

RowsTyped == /\ quota \in Nat /\ skills \in [Ids -> Rows]
             /\ versions \subseteq [skill : Ids, n : Nat, name : Slugs, sum : Nat]
StoreTyped == made \in Nat /\ store \subseteq [key : Slugs \X Nat, sum : Nat]
\* A publication that found a row to write into found one that lives.
JobsTyped == /\ pub \in [Publishers -> Jobs]
             /\ \A p \in Publishers : pub[p].at # "idle" => pub[p].slug \in Slugs /\ pub[p].id \in Ids
             /\ \A p \in Publishers : pub[p].at = "write" /\ pub[p].into # "none" => pub[p].id \in P!Live
\* A release that is about to be set is of a version its skill has under that name.
ReleasesTyped == /\ rel \in [Releasers -> Releases]
                 /\ \A r \in Releasers : rel[r].at # "idle" => rel[r].slug \in Slugs
                 /\ \A r \in Releasers : rel[r].at = "set" =>
                      /\ rel[r].id \in Ids
                      /\ \E v \in versions : v.skill = rel[r].id /\ v.n = rel[r].n /\ v.name = rel[r].slug
RenamingTyped == renaming \in Renamings /\ (renaming # P!NoRename => renaming.id \in Ids /\ renaming.from \in Slugs /\ renaming.to \in Slugs)
LiveCounted == IsFiniteSet(P!Live) /\ Cardinality(P!Live) <= quota

PublicationInv == /\ RowsTyped /\ StoreTyped /\ JobsTyped /\ ReleasesTyped /\ RenamingTyped
                  /\ P!PublicHasItsName /\ LiveCounted

\* A publication whose object is written and whose version is not owns the key.
Owns(p) == pub[p].at \in {"check", "write", "delete"}
KeyOf(p) == P!Key(pub[p].slug, pub[p].n)
KeysAreOwned ==
  \A p \in Publishers : Owns(p) =>
    /\ [key |-> KeyOf(p), sum |-> pub[p].sum] \in store
    /\ \A v \in versions : P!Key(v.name, v.n) # KeyOf(p)
    /\ \A q \in Publishers : q # p /\ Owns(q) => KeyOf(q) # KeyOf(p)
ArchivesInv == KeysAreOwned /\ P!ArchivesAreTheirVersions

\* The module and its instance count alike.
LEMMA SameCardinality == \A S : P!Cardinality(S) = Cardinality(S)
  BY DEF P!Cardinality, Cardinality

LEMMA EmptyTyped == P!NoSkill \in Rows /\ P!NoPub \in Jobs /\ P!NoRel \in Releases /\ P!NoRename \in Renamings
  <1>1. P!NoSkill \in Rows
    BY DEF P!NoSkill, Rows
  <1>2. P!NoPub \in Jobs /\ P!NoRel \in Releases /\ P!NoRename \in Renamings
    BY DEF P!NoPub, P!NoRel, P!NoRename, Jobs, Releases, Renamings
  <1>3. QED
    BY <1>1, <1>2

LEMMA PublicationStarts == P!Init => PublicationInv /\ ArchivesInv
  <1> SUFFICES ASSUME P!Init PROVE PublicationInv /\ ArchivesInv
    OBVIOUS
  <1>1. RowsTyped /\ StoreTyped /\ ReleasesTyped /\ RenamingTyped
    BY EmptyTyped, PartsAssumption DEF P!Init, RowsTyped, StoreTyped, ReleasesTyped, RenamingTyped, P!NoRel
  <1>2. P!Live = {}
    BY DEF P!Init, P!Live, P!NoSkill
  <1>3. JobsTyped /\ P!PublicHasItsName
    BY <1>2, EmptyTyped DEF P!Init, JobsTyped, P!NoPub, P!PublicHasItsName
  <1>4. LiveCounted
    BY <1>1, <1>2, FS_EmptySet DEF LiveCounted, RowsTyped
  <1>5. ArchivesInv
    BY DEF P!Init, ArchivesInv, KeysAreOwned, Owns, P!NoPub, P!ArchivesAreTheirVersions
  <1>6. QED
    BY <1>1, <1>3, <1>4, <1>5 DEF PublicationInv

\* What PubGoes does to the requests.
LEMMA Gone ==
  ASSUME PublicationInv, NEW p \in Publishers, NEW at \in {"idle", "assert", "put", "check", "write", "delete"},
         P!PubGoes(p, at)
  PROVE  /\ pub' \in [Publishers -> Jobs] /\ pub'[p].at = at
         /\ at # "idle" => /\ pub'[p].slug = pub[p].slug /\ pub'[p].id = pub[p].id /\ pub'[p].n = pub[p].n
                           /\ pub'[p].sum = pub[p].sum /\ pub'[p].into = pub[p].into
         /\ \A q \in Publishers \ {p} : pub'[q] = pub[q]
  <1>1. pub \in [Publishers -> Jobs]
    BY DEF PublicationInv, JobsTyped
  <1>2. P!NoPub \in Jobs /\ P!NoPub.at = "idle"
    BY EmptyTyped DEF P!NoPub
  <1>3. CASE at = "idle"
    BY <1>1, <1>2, <1>3 DEF P!PubGoes
  <1>4. CASE at # "idle"
    <2>1. pub' = [pub EXCEPT ![p] = [pub[p] EXCEPT !.at = at]]
      BY <1>4 DEF P!PubGoes
    <2>2. QED
      BY <1>1, <2>1 DEF Jobs
  <1>5. QED
    BY <1>3, <1>4

\* The rows, the releases and the renaming are as they were.
LEMMA RequestsKeep ==
  ASSUME PublicationInv, UNCHANGED <<quota, skills, versions, rel, renaming>>, StoreTyped', JobsTyped'
  PROVE  PublicationInv'
  BY DEF PublicationInv, RowsTyped, ReleasesTyped, RenamingTyped, LiveCounted, P!PublicHasItsName, P!Live, P!VersionsOf

LEMMA ResolveKeeps ==
  ASSUME PublicationInv, NEW p \in Publishers, P!Resolve(p)
  PROVE  PublicationInv' /\ (ArchivesInv => ArchivesInv')
  <1> USE DEF PublicationInv
  <1>1. UNCHANGED <<quota, skills, versions, store, rel, renaming>> /\ made' = made + 1
    BY DEF P!Resolve
  <1>2. PICK slug \in Slugs, n \in Numbers, i \in Ids :
          pub' = [pub EXCEPT ![p] = [P!NoPub EXCEPT !.at = "assert", !.slug = slug, !.id = i, !.n = n, !.sum = made']]
    <2>1. PICK slug \in Slugs, n \in Numbers : \E i \in IF P!Named(slug) = {} THEN P!Fresh ELSE P!Named(slug) :
            pub' = [pub EXCEPT ![p] = [P!NoPub EXCEPT !.at = "assert", !.slug = slug, !.id = i, !.n = n, !.sum = made']]
      BY DEF P!Resolve
    <2>2. P!Named(slug) \subseteq Ids /\ P!Fresh \subseteq Ids
      BY DEF P!Named, P!Fresh, P!Unused
    <2>3. QED
      BY <2>1, <2>2
  <1>3. /\ pub' \in [Publishers -> Jobs] /\ pub'[p].at = "assert" /\ pub'[p].slug = slug /\ pub'[p].id = i
        /\ \A q \in Publishers \ {p} : pub'[q] = pub[q]
    <2>1. P!NoPub \in Jobs /\ n \in Nat /\ made' \in Nat /\ pub \in [Publishers -> Jobs]
      BY <1>1, EmptyTyped, PartsAssumption DEF StoreTyped, JobsTyped
    <2>2. QED
      BY <1>2, <2>1 DEF Jobs
  <1>4. StoreTyped' /\ JobsTyped'
    BY <1>1, <1>3 DEF StoreTyped, JobsTyped, P!Live
  <1>5. ArchivesInv => ArchivesInv'
    BY <1>1, <1>3 DEF ArchivesInv, KeysAreOwned, Owns, KeyOf, P!ArchivesAreTheirVersions
  <1>6. QED
    BY <1>1, <1>4, <1>5, RequestsKeep

\* A request goes on or ends without a row, a version or an object.
LEMMA StepsKeep ==
  ASSUME PublicationInv, NEW p \in Publishers, P!Assert(p) \/ P!Crash(p)
  PROVE  PublicationInv' /\ (ArchivesInv => ArchivesInv')
  <1>1. UNCHANGED <<quota, skills, versions, store, rel, renaming, made>>
    BY DEF P!Assert, P!Crash
  <1>2. PICK at \in {"idle", "put"} : P!PubGoes(p, at) /\ pub[p].at # "idle"
    BY DEF P!Assert, P!Crash, P!P
  <1>3. /\ pub' \in [Publishers -> Jobs] /\ pub'[p].at = at
        /\ at # "idle" => pub'[p].slug = pub[p].slug /\ pub'[p].id = pub[p].id
        /\ \A q \in Publishers \ {p} : pub'[q] = pub[q]
    BY <1>2, Gone
  <1>4. StoreTyped' /\ JobsTyped'
    BY <1>1, <1>2, <1>3 DEF PublicationInv, StoreTyped, JobsTyped, P!Live
  <1>5. ArchivesInv => ArchivesInv'
    BY <1>1, <1>2, <1>3 DEF ArchivesInv, KeysAreOwned, Owns, KeyOf, P!ArchivesAreTheirVersions
  <1>6. QED
    BY <1>1, <1>4, <1>5, RequestsKeep

LEMMA PutsKeep ==
  ASSUME PublicationInv, NEW p \in Publishers, P!Put(p)
  PROVE  PublicationInv' /\ (ArchivesInv => ArchivesInv')
  <1> DEFINE j == pub[p]
             new == [key |-> KeyOf(p), sum |-> j.sum]
  <1>1. /\ UNCHANGED <<quota, skills, versions, rel, renaming, made>> /\ j.at = "put" /\ j \in Jobs
        /\ j.slug \in Slugs /\ j.id \in Ids
        /\ store' = IF \E o \in store : o.key = KeyOf(p) THEN store ELSE store \union {new}
    BY DEF P!Put, P!P, P!Stored, KeyOf, PublicationInv, JobsTyped
  <1>2. PICK at \in {"idle", "check"} : P!PubGoes(p, at) /\ (at = "check" => store' # store)
    BY <1>1 DEF P!Put, KeyOf
  <1>3. /\ pub' \in [Publishers -> Jobs] /\ pub'[p].at = at
        /\ at # "idle" => pub'[p].slug = j.slug /\ pub'[p].id = j.id /\ pub'[p].n = j.n /\ pub'[p].sum = j.sum
        /\ \A q \in Publishers \ {p} : pub'[q] = pub[q]
    BY <1>2, Gone
  <1>4. StoreTyped' /\ JobsTyped'
    <2>1. new \in [key : Slugs \X Nat, sum : Nat]
      BY <1>1 DEF KeyOf, P!Key, Jobs
    <2>2. QED
      BY <1>1, <1>2, <1>3, <2>1 DEF PublicationInv, StoreTyped, JobsTyped, P!Live
  <1>5. ASSUME ArchivesInv PROVE ArchivesInv'
    <2>1. \A q \in Publishers \ {p} : (Owns(q)' <=> Owns(q)) /\ KeyOf(q)' = KeyOf(q)
      BY <1>3 DEF Owns, KeyOf
    <2>2. Owns(p)' => /\ KeyOf(p)' = KeyOf(p) /\ new \in store' /\ pub'[p].sum = j.sum
                      /\ \A o \in store : o.key # KeyOf(p)
      BY <1>1, <1>2, <1>3 DEF Owns, KeyOf
    <2>3. store \subseteq store'
      BY <1>1
    <2>4. Owns(p)' => \A v \in versions : P!Key(v.name, v.n) # KeyOf(p)
      BY <1>5, <2>2 DEF ArchivesInv, P!ArchivesAreTheirVersions
    <2>5. Owns(p)' => \A q \in Publishers \ {p} : Owns(q) => KeyOf(q) # KeyOf(p)
      BY <1>5, <2>2 DEF ArchivesInv, KeysAreOwned
    <2>6. KeysAreOwned'
      BY <1>1, <1>3, <1>5, <2>1, <2>2, <2>3, <2>4, <2>5 DEF ArchivesInv, KeysAreOwned
    <2>7. P!ArchivesAreTheirVersions'
      BY <1>1, <1>5, <2>3 DEF ArchivesInv, P!ArchivesAreTheirVersions
    <2>8. QED
      BY <2>6, <2>7 DEF ArchivesInv
  <1>6. QED
    BY <1>1, <1>4, <1>5, RequestsKeep

LEMMA CheckKeeps ==
  ASSUME PublicationInv, NEW p \in Publishers, P!Check(p)
  PROVE  PublicationInv' /\ (ArchivesInv => ArchivesInv')
  <1> DEFINE j == pub[p]
  <1>1. /\ UNCHANGED <<quota, skills, versions, store, rel, renaming, made>> /\ j.at = "check" /\ j \in Jobs
        /\ j.slug \in Slugs /\ j.id \in Ids /\ pub \in [Publishers -> Jobs]
    BY DEF P!Check, P!P, PublicationInv, JobsTyped
  <1>2. /\ pub' \in [Publishers -> Jobs] /\ pub'[p].at \in {"write", "delete"}
        /\ pub'[p].slug = j.slug /\ pub'[p].id = j.id /\ pub'[p].n = j.n /\ pub'[p].sum = j.sum
        /\ pub'[p].at = "write" /\ pub'[p].into # "none" => j.id \in P!Live
        /\ \A q \in Publishers \ {p} : pub'[q] = pub[q]
    <2>1. CASE ~P!Publishable(j)
      <3>1. pub' = [pub EXCEPT ![p] = [j EXCEPT !.at = "delete"]]
        BY <2>1 DEF P!Check
      <3>2. QED
        BY <1>1, <3>1 DEF Jobs
    <2>2. CASE P!Publishable(j) /\ P!Named(j.slug) = {}
      <3>1. pub' = [pub EXCEPT ![p] = [j EXCEPT !.at = "write", !.into = "none"]]
        BY <2>2 DEF P!Check
      <3>2. QED
        BY <1>1, <3>1 DEF Jobs
    <2>3. CASE P!Publishable(j) /\ P!Named(j.slug) # {}
      <3>1. pub' = [pub EXCEPT ![p] = [j EXCEPT !.at = "write", !.into = j.id]]
        BY <2>3 DEF P!Check
      <3>2. j.id \in P!Live
        BY <1>1, <2>3, PartsAssumption DEF P!Publishable, P!Named, P!Live
      <3>3. QED
        BY <1>1, <3>1, <3>2 DEF Jobs
    <2>4. QED
      BY <2>1, <2>2, <2>3
  <1>3. StoreTyped' /\ JobsTyped'
    BY <1>1, <1>2 DEF PublicationInv, StoreTyped, JobsTyped, P!Live
  <1>4. ArchivesInv => ArchivesInv'
    BY <1>1, <1>2 DEF ArchivesInv, KeysAreOwned, Owns, KeyOf, P!ArchivesAreTheirVersions
  <1>5. QED
    BY <1>1, <1>3, <1>4, RequestsKeep

LEMMA DeleteKeeps ==
  ASSUME PublicationInv, NEW p \in Publishers, P!Delete(p)
  PROVE  PublicationInv' /\ (ArchivesInv => ArchivesInv')
  <1>1. /\ UNCHANGED <<quota, skills, versions, rel, renaming, made>> /\ pub[p].at = "delete"
        /\ store' \in {store, {o \in store : o.key # KeyOf(p)}}
    BY DEF P!Delete, P!P, KeyOf
  <1>2. pub' \in [Publishers -> Jobs] /\ pub'[p].at = "idle" /\ \A q \in Publishers \ {p} : pub'[q] = pub[q]
    BY Gone DEF P!Delete
  <1>3. StoreTyped' /\ JobsTyped'
    BY <1>1, <1>2 DEF PublicationInv, StoreTyped, JobsTyped, P!Live
  <1>4. ASSUME ArchivesInv PROVE ArchivesInv'
    <2>1. Owns(p) /\ ~Owns(p)' /\ \A q \in Publishers \ {p} : (Owns(q)' <=> Owns(q)) /\ KeyOf(q)' = KeyOf(q)
      BY <1>1, <1>2 DEF Owns, KeyOf
    <2>2. \A o \in store : o.key # KeyOf(p) => o \in store'
      BY <1>1
    <2>3. KeysAreOwned'
      BY <1>1, <1>2, <1>4, <2>1, <2>2 DEF ArchivesInv, KeysAreOwned
    <2>4. P!ArchivesAreTheirVersions'
      BY <1>1, <1>4, <2>1, <2>2 DEF ArchivesInv, KeysAreOwned, P!ArchivesAreTheirVersions
    <2>5. QED
      BY <2>3, <2>4 DEF ArchivesInv
  <1>5. QED
    BY <1>1, <1>3, <1>4, RequestsKeep

\* A publication keeps what its skill has public.
LEMMA RowMade ==
  ASSUME NEW s \in Rows, NEW n \in Nat, NEW slug \in Slugs
  PROVE  LET t == [s EXCEPT !.slug = slug, !.current = n] IN t \in Rows /\ t.slug = slug /\ t.public = s.public
  BY DEF Rows

LEMMA RowEdited ==
  ASSUME NEW s \in Rows, NEW n \in Nat
  PROVE  LET t == [s EXCEPT !.current = n] IN t \in Rows /\ t.slug = s.slug /\ t.public = s.public
  BY DEF Rows

\* The slug of a row is written: no skill that lives stops to live.
LEMMA RowWritten ==
  ASSUME PublicationInv, NEW i \in Ids, NEW s \in Rows, skills' = [skills EXCEPT ![i] = s],
         s.slug = skills[i].slug \/ s.slug \in Slugs
  PROVE  /\ skills' \in [Ids -> Rows] /\ P!Live \subseteq P!Live' /\ P!Live' \subseteq P!Live \union {i}
         /\ i \in P!Live \/ s.slug = skills[i].slug => P!Live' = P!Live
  BY PartsAssumption DEF PublicationInv, RowsTyped, P!Live, Rows

LEMMA CommitKeeps ==
  ASSUME PublicationInv, NEW p \in Publishers, P!Commit(p)
  PROVE  PublicationInv' /\ ("commit" \notin Mishaps /\ ArchivesInv => ArchivesInv')
  <1> DEFINE j == pub[p]
             v == [skill |-> j.id, n |-> j.n, name |-> j.slug, sum |-> j.sum]
             old == skills[j.id]
             listed == IF j.into = "none" THEN [P!NoSkill EXCEPT !.slug = j.slug, !.current = j.n]
                    ELSE [old EXCEPT !.current = j.n]
  <1>1. /\ UNCHANGED <<quota, store, rel, renaming, made>> /\ j.at = "write" /\ j \in Jobs
        /\ j.slug \in Slugs /\ j.id \in Ids /\ j.n \in Nat /\ j.sum \in Nat
        /\ j.into # "none" => j.id \in P!Live
    BY DEF P!Commit, P!P, PublicationInv, JobsTyped, Jobs
  <1>2. PICK at \in {"idle", "delete"} : P!PubGoes(p, at)
    BY DEF P!Commit
  <1>3. /\ pub' \in [Publishers -> Jobs] /\ pub'[p].at = at
        /\ at # "idle" => pub'[p].slug = j.slug /\ pub'[p].id = j.id /\ pub'[p].n = j.n /\ pub'[p].sum = j.sum
        /\ \A q \in Publishers \ {p} : pub'[q] = pub[q]
    BY <1>2, Gone
  <1>4. CASE P!HasRoom(j) /\ P!Unique(j)
    <2>1. skills' = [skills EXCEPT ![j.id] = listed] /\ versions' = versions \union {v}
      BY <1>4 DEF P!Commit
    <2>2. skills \in [Ids -> Rows] /\ old \in Rows
      BY <1>1 DEF PublicationInv, RowsTyped
    <2>3. /\ listed \in Rows
          /\ j.into # "none" => listed.slug = old.slug /\ listed.public = old.public
          /\ j.into = "none" => listed.slug = j.slug /\ listed.public = 0
      <3>1. P!NoSkill \in Rows /\ P!NoSkill.public = 0
        BY EmptyTyped DEF P!NoSkill
      <3>2. CASE j.into = "none"
        <4>1. listed = [P!NoSkill EXCEPT !.slug = j.slug, !.current = j.n]
          BY <3>2
        <4>2. LET t == [P!NoSkill EXCEPT !.slug = j.slug, !.current = j.n]
              IN  t \in Rows /\ t.slug = j.slug /\ t.public = P!NoSkill.public
          BY <1>1, <3>1, RowMade
        <4> HIDE DEF listed
        <4>3. QED
          BY <3>1, <3>2, <4>1, <4>2
      <3>3. CASE j.into # "none"
        BY <1>1, <2>2, <3>3, RowEdited
      <3>4. QED
        BY <3>2, <3>3
    <2> HIDE DEF listed
    <2>4. /\ skills' \in [Ids -> Rows] /\ P!Live \subseteq P!Live' /\ P!Live' \subseteq P!Live \union {j.id}
          /\ j.into # "none" => P!Live' = P!Live
      BY <1>1, <2>1, <2>2, <2>3, RowWritten
    <2>5. v \in [skill : Ids, n : Nat, name : Slugs, sum : Nat]
      BY <1>1
    <2>6. RowsTyped' /\ StoreTyped' /\ JobsTyped' /\ ReleasesTyped' /\ RenamingTyped'
      <3>1. RowsTyped' /\ StoreTyped' /\ RenamingTyped'
        BY <1>1, <2>1, <2>4, <2>5 DEF PublicationInv, RowsTyped, StoreTyped, RenamingTyped
      <3>2. JobsTyped'
        BY <1>1, <1>3, <2>4 DEF PublicationInv, JobsTyped
      <3>3. ReleasesTyped'
        BY <1>1, <2>1 DEF PublicationInv, ReleasesTyped
      <3>4. QED
        BY <3>1, <3>2, <3>3
    <2>7. LiveCounted'
      <3>1. CASE j.into # "none"
        BY <1>1, <2>4, <3>1 DEF PublicationInv, LiveCounted
      <3>2. CASE j.into = "none"
        <4>1. P!Room /\ IsFiniteSet(P!Live) /\ quota \in Nat
          BY <1>4, <3>2 DEF P!HasRoom, PublicationInv, LiveCounted, RowsTyped
        <4>2. Cardinality(P!Live) \in Nat
          BY <4>1, FS_CardinalityType
        <4>3. /\ IsFiniteSet(P!Live \union {j.id})
              /\ Cardinality(P!Live \union {j.id}) \in {Cardinality(P!Live), Cardinality(P!Live) + 1}
          BY <4>1, FS_AddElement
        <4>4. P!Live' = P!Live \/ P!Live' = P!Live \union {j.id}
          BY <2>4
        <4>5. Cardinality(P!Live) + 1 <= quota
          BY <4>1, <4>2, SameCardinality DEF P!Room
        <4>6. IsFiniteSet(P!Live') /\ Cardinality(P!Live') <= quota
          <5>1. CASE P!Live' = P!Live
            BY <4>1, <4>2, <4>5, <5>1
          <5>2. CASE P!Live' = P!Live \union {j.id}
            <6>1. Cardinality(P!Live \union {j.id}) <= quota
              BY <4>1, <4>2, <4>3, <4>5
            <6>2. QED
              BY <4>3, <5>2, <6>1
          <5>3. QED
            BY <4>4, <5>1, <5>2
        <4>7. QED
          BY <1>1, <4>6 DEF LiveCounted
      <3>3. QED
        BY <3>1, <3>2
    <2>8. P!PublicHasItsName'
      <3>1. ASSUME NEW i \in P!Live', skills'[i].public # 0
            PROVE  \E w \in versions' : w.skill = i /\ w.n = skills'[i].public /\ w.name = skills'[i].slug
        <4>1. i \in Ids /\ (i # j.id => skills'[i] = skills[i]) /\ (i = j.id => skills'[i] = listed)
          BY <2>1, <2>2, <3>1 DEF P!Live
        <4>2. skills'[i].public = skills[i].public /\ skills'[i].slug = skills[i].slug /\ i \in P!Live
          BY <1>1, <2>3, <2>4, <3>1, <4>1
        <4>3. \E w \in versions : w.skill = i /\ w.n = skills[i].public /\ w.name = skills[i].slug
          BY <3>1, <4>2 DEF PublicationInv, P!PublicHasItsName, P!VersionsOf
        <4>4. QED
          BY <2>1, <4>2, <4>3
      <3>2. QED
        BY <3>1 DEF P!PublicHasItsName, P!VersionsOf
    <2>9. ASSUME "commit" \notin Mishaps, ArchivesInv PROVE ArchivesInv'
      <3>1. pub'[p].at = "idle"
        <4>1. P!PubGoes(p, "idle")
          BY <1>4, <2>9 DEF P!Commit, P!Mishap
        <4>2. QED
          BY <4>1, Gone
      <3>2. Owns(p) /\ ~Owns(p)' /\ \A q \in Publishers \ {p} : (Owns(q)' <=> Owns(q)) /\ KeyOf(q)' = KeyOf(q)
        BY <1>1, <1>3, <3>1 DEF Owns, KeyOf
      <3>3. P!Key(v.name, v.n) = KeyOf(p) /\ v.sum = j.sum
        BY DEF KeyOf
      <3>4. KeysAreOwned'
        BY <1>1, <1>3, <2>1, <2>9, <3>2, <3>3 DEF ArchivesInv, KeysAreOwned
      <3>5. P!ArchivesAreTheirVersions'
        BY <1>1, <2>1, <2>9, <3>2, <3>3 DEF ArchivesInv, KeysAreOwned, P!ArchivesAreTheirVersions
      <3>6. QED
        BY <3>4, <3>5 DEF ArchivesInv
    <2>10. QED
      BY <2>6, <2>7, <2>8, <2>9 DEF PublicationInv
  <1>5. CASE ~(P!HasRoom(j) /\ P!Unique(j))
    <2>1. UNCHANGED <<skills, versions>> /\ P!PubGoes(p, "delete")
      BY <1>5 DEF P!Commit
    <2>2. /\ pub'[p].at = "delete" /\ pub'[p].slug = j.slug /\ pub'[p].id = j.id /\ pub'[p].n = j.n
          /\ pub'[p].sum = j.sum
      BY <2>1, Gone
    <2>3. StoreTyped' /\ JobsTyped'
      BY <1>1, <1>3, <2>1, <2>2 DEF PublicationInv, StoreTyped, JobsTyped, P!Live
    <2>4. ArchivesInv => ArchivesInv'
      BY <1>1, <1>3, <2>1, <2>2 DEF ArchivesInv, KeysAreOwned, Owns, KeyOf, P!ArchivesAreTheirVersions
    <2>5. QED
      BY <1>1, <2>1, <2>3, <2>4, RequestsKeep
  <1>6. QED
    BY <1>4, <1>5

\* A row is edited, and what it has public has the name it has.
LEMMA EditKeeps ==
  ASSUME PublicationInv, NEW i \in Ids, NEW s \in Rows, skills' = [skills EXCEPT ![i] = s],
         s.slug = skills[i].slug \/ (i \in P!Live /\ s.slug \in Slugs),
         s.public # 0 /\ i \in P!Live => \E v \in versions : v.skill = i /\ v.n = s.public /\ v.name = s.slug,
         ReleasesTyped', RenamingTyped', UNCHANGED <<quota, versions, store, pub, made>>
  PROVE  PublicationInv' /\ (ArchivesInv => ArchivesInv')
  <1>1. skills' \in [Ids -> Rows] /\ P!Live' = P!Live
    BY RowWritten
  <1>2. RowsTyped' /\ StoreTyped' /\ JobsTyped' /\ LiveCounted'
    BY <1>1 DEF PublicationInv, RowsTyped, StoreTyped, JobsTyped, LiveCounted
  <1>3. P!PublicHasItsName'
    <2>1. ASSUME NEW k \in P!Live, skills'[k].public # 0
          PROVE  \E v \in versions : v.skill = k /\ v.n = skills'[k].public /\ v.name = skills'[k].slug
      <3>1. k \in Ids /\ skills \in [Ids -> Rows]
        BY DEF P!Live, PublicationInv, RowsTyped
      <3>2. CASE k = i
        BY <2>1, <3>1, <3>2
      <3>3. CASE k # i
        BY <2>1, <3>1, <3>3 DEF PublicationInv, P!PublicHasItsName, P!VersionsOf
      <3>4. QED
        BY <3>2, <3>3
    <2>2. QED
      BY <1>1, <2>1 DEF P!PublicHasItsName, P!VersionsOf
  <1>4. ArchivesInv => ArchivesInv'
    BY DEF ArchivesInv, KeysAreOwned, Owns, KeyOf, P!ArchivesAreTheirVersions
  <1>5. QED
    BY <1>2, <1>3, <1>4 DEF PublicationInv

\* Only the releases and the renaming change.
LEMMA ReadsKeep ==
  ASSUME PublicationInv, ReleasesTyped', RenamingTyped', UNCHANGED <<quota, skills, versions, store, pub, made>>
  PROVE  PublicationInv' /\ (ArchivesInv => ArchivesInv')
  BY DEF PublicationInv, RowsTyped, StoreTyped, JobsTyped, LiveCounted, P!PublicHasItsName, P!Live, P!VersionsOf,
     ArchivesInv, KeysAreOwned, Owns, KeyOf, P!ArchivesAreTheirVersions

LEMMA PrepareKeeps ==
  ASSUME PublicationInv, NEW r \in Releasers, P!Prepare(r)
  PROVE  PublicationInv' /\ (ArchivesInv => ArchivesInv')
  <1> DEFINE Snapshot(i, v, o) == [P!NoRel EXCEPT !.at = "look", !.slug = skills[i].slug, !.n = v.n, !.zip = o.sum]
  <1>1. UNCHANGED <<quota, skills, versions, store, pub, renaming, made>>
    BY DEF P!Prepare
  <1>2. PICK i \in P!Live : \E v \in P!VersionsOf(i), o \in store : P!RelGoes(r, Snapshot(i, v, o))
    BY DEF P!Prepare
  <1>3. PICK v \in versions, o \in store : rel' = [rel EXCEPT ![r] = Snapshot(i, v, o)]
    BY <1>2 DEF P!RelGoes, P!VersionsOf
  <1>4. skills[i].slug \in Slugs /\ v.n \in Nat /\ o.sum \in Nat
    <2>1. i \in Ids /\ skills[i].slug # "none" /\ skills[i] \in Rows
      BY DEF P!Live, PublicationInv, RowsTyped
    <2>2. QED
      BY <2>1 DEF Rows, PublicationInv, RowsTyped, StoreTyped
  <1>5. Snapshot(i, v, o) \in Releases
    BY <1>4, EmptyTyped DEF Releases
  <1>6. Snapshot(i, v, o).slug = skills[i].slug /\ Snapshot(i, v, o).at = "look"
    BY <1>4, EmptyTyped DEF Releases
  <1>7. ReleasesTyped'
    BY <1>1, <1>3, <1>4, <1>5, <1>6 DEF PublicationInv, ReleasesTyped
  <1>8. RenamingTyped'
    BY <1>1 DEF PublicationInv, RenamingTyped
  <1>9. QED
    BY <1>1, <1>7, <1>8, ReadsKeep

LEMMA LookKeeps ==
  ASSUME PublicationInv, NEW r \in Releasers, P!Look(r)
  PROVE  PublicationInv' /\ (ArchivesInv => ArchivesInv')
  <1> DEFINE j == rel[r]
  <1>1. /\ UNCHANGED <<quota, skills, versions, store, pub, renaming, made>> /\ j.at = "look"
        /\ rel \in [Releasers -> Releases] /\ j \in Releases /\ j.slug \in Slugs
    BY DEF P!Look, P!R, PublicationInv, ReleasesTyped
  <1>2. RenamingTyped'
    BY <1>1 DEF PublicationInv, RenamingTyped
  <1>3. ReleasesTyped'
    <2>1. CASE rel' = [rel EXCEPT ![r] = P!NoRel]
      BY <1>1, <2>1, EmptyTyped DEF PublicationInv, ReleasesTyped, P!NoRel
    <2>2. CASE \E i \in P!Named(j.slug) : /\ P!Releasable(i, j.n)
                 /\ rel' = [rel EXCEPT ![r] = [j EXCEPT !.at = "set", !.id = i, !.public = skills[i].public,
                                                        !.packed = skills[i].packed]]
      <3>1. PICK i \in P!Named(j.slug) : /\ P!Releasable(i, j.n)
                 /\ rel' = [rel EXCEPT ![r] = [j EXCEPT !.at = "set", !.id = i, !.public = skills[i].public,
                                                        !.packed = skills[i].packed]]
        BY <2>2
      <3>2. i \in Ids /\ skills[i].slug = j.slug /\ skills[i].public \in Nat /\ skills[i].packed \in Nat
        BY DEF P!Named, PublicationInv, RowsTyped, Rows
      <3>3. \E v \in versions : v.skill = i /\ v.n = j.n /\ v.name = j.slug
        BY <3>1, <3>2 DEF P!Releasable, P!VersionsOf
      <3>4. [j EXCEPT !.at = "set", !.id = i, !.public = skills[i].public, !.packed = skills[i].packed] \in Releases
        BY <1>1, <3>2 DEF Releases
      <3>5. /\ rel' \in [Releasers -> Releases] /\ rel'[r].id = i /\ rel'[r].n = j.n /\ rel'[r].slug = j.slug
            /\ \A q \in Releasers \ {r} : rel'[q] = rel[q]
        BY <1>1, <3>1, <3>4 DEF Releases
      <3>6. QED
        BY <1>1, <3>2, <3>3, <3>5 DEF PublicationInv, ReleasesTyped
    <2>3. QED
      BY <2>1, <2>2 DEF P!Look, P!RelGoes
  <1>4. QED
    BY <1>1, <1>2, <1>3, ReadsKeep

LEMMA SetKeeps ==
  ASSUME PublicationInv, NEW r \in Releasers, P!Set(r)
  PROVE  PublicationInv' /\ (ArchivesInv => ArchivesInv')
  <1> DEFINE j == rel[r]
  <1>1. /\ UNCHANGED <<quota, versions, store, pub, renaming, made>> /\ j.at = "set"
        /\ rel' = [rel EXCEPT ![r] = P!NoRel] /\ j \in Releases /\ j.id \in Ids /\ j.slug \in Slugs
        /\ \E v \in versions : v.skill = j.id /\ v.n = j.n /\ v.name = j.slug
    BY DEF P!Set, P!R, P!RelGoes, PublicationInv, ReleasesTyped
  <1>2. RenamingTyped' /\ ReleasesTyped'
    BY <1>1, EmptyTyped DEF PublicationInv, RenamingTyped, ReleasesTyped, P!NoRel
  <1>3. CASE ~P!StillSo(j, skills[j.id])
    BY <1>1, <1>2, <1>3, ReadsKeep DEF P!Set
  <1>4. CASE P!StillSo(j, skills[j.id])
    <2>1. skills \in [Ids -> Rows] /\ j.n \in Nat /\ j.zip \in Nat
      BY <1>1 DEF PublicationInv, RowsTyped, Releases
    <2> DEFINE s == [skills[j.id] EXCEPT !.public = j.n, !.packed = j.zip]
    <2>2. skills' = [skills EXCEPT ![j.id] = s]
      BY <1>1, <1>4, <2>1 DEF P!Set
    <2>3. s \in Rows /\ s.slug = skills[j.id].slug /\ s.public = j.n
      BY <1>1, <2>1 DEF Rows
    <2> HIDE DEF s
    <2>4. \E v \in versions : v.skill = j.id /\ v.n = s.public /\ v.name = s.slug
      BY <1>1, <1>4, <2>3 DEF P!StillSo
    <2>5. QED
      BY <1>1, <1>2, <2>2, <2>3, <2>4, EditKeeps
  <1>5. QED
    BY <1>3, <1>4

LEMMA EditsKeep ==
  ASSUME PublicationInv, NEW i \in Ids, P!Clear(i) \/ P!Archive(i) \/ P!Restore(i)
  PROVE  PublicationInv' /\ (ArchivesInv => ArchivesInv')
  <1>1. UNCHANGED <<quota, versions, store, pub, rel, renaming, made>>
    BY DEF P!Clear, P!Archive, P!Restore
  <1>2. RenamingTyped' /\ ReleasesTyped' /\ skills \in [Ids -> Rows]
    BY <1>1 DEF PublicationInv, RenamingTyped, ReleasesTyped, RowsTyped
  <1>3. i \in P!Live /\ skills[i].public # 0 =>
          \E v \in versions : v.skill = i /\ v.n = skills[i].public /\ v.name = skills[i].slug
    BY DEF PublicationInv, P!PublicHasItsName, P!VersionsOf
  <1>4. CASE P!Clear(i)
    <2> DEFINE s == [skills[i] EXCEPT !.public = 0, !.packed = 0]
    <2>1. skills' = [skills EXCEPT ![i] = s]
      BY <1>2, <1>4 DEF P!Clear
    <2>2. s \in Rows /\ s.slug = skills[i].slug /\ s.public = 0
      BY <1>2 DEF Rows
    <2> HIDE DEF s
    <2>3. QED
      BY <1>1, <1>2, <2>1, <2>2, EditKeeps
  <1>5. ASSUME NEW b \in BOOLEAN, skills' = [skills EXCEPT ![i] = [skills[i] EXCEPT !.archived = b]]
        PROVE  PublicationInv' /\ (ArchivesInv => ArchivesInv')
    <2> DEFINE s == [skills[i] EXCEPT !.archived = b]
    <2>1. s \in Rows /\ s.slug = skills[i].slug /\ s.public = skills[i].public
      BY <1>2 DEF Rows
    <2>2. skills' = [skills EXCEPT ![i] = s]
      BY <1>5
    <2> HIDE DEF s
    <2>3. QED
      BY <1>1, <1>2, <1>3, <2>1, <2>2, EditKeeps
  <1>6. P!Archive(i) => skills' = [skills EXCEPT ![i] = [skills[i] EXCEPT !.archived = TRUE]]
    BY DEF P!Archive
  <1>7. P!Restore(i) => skills' = [skills EXCEPT ![i] = [skills[i] EXCEPT !.archived = FALSE]]
    BY DEF P!Restore
  <1>8. QED
    BY <1>4, <1>5, <1>6, <1>7

LEMMA RenameKeeps ==
  ASSUME PublicationInv, P!RenameReads \/ P!RenameWrites
  PROVE  PublicationInv' /\ (ArchivesInv => ArchivesInv')
  <1>1. UNCHANGED <<quota, versions, store, pub, rel, made>>
    BY DEF P!RenameReads, P!RenameWrites
  <1>2. ReleasesTyped'
    BY <1>1 DEF PublicationInv, ReleasesTyped
  <1>3. CASE P!RenameReads
    <2>1. PICK i \in P!Live, to \in Slugs : renaming' = [id |-> i, from |-> skills[i].slug, to |-> to]
      BY <1>3 DEF P!RenameReads
    <2>2. i \in Ids /\ skills[i].slug \in Slugs
      BY DEF P!Live, PublicationInv, RowsTyped, Rows
    <2>3. RenamingTyped' /\ UNCHANGED skills
      BY <1>3, <2>1, <2>2 DEF P!RenameReads, RenamingTyped, Renamings
    <2>4. QED
      BY <1>1, <1>2, <2>3, ReadsKeep
  <1>4. CASE P!RenameWrites
    <2> DEFINE i == renaming.id
               s == [skills[i] EXCEPT !.slug = renaming.to]
    <2>1. RenamingTyped' /\ i \in Ids /\ renaming.from \in Slugs /\ renaming.to \in Slugs
      BY <1>4, EmptyTyped DEF P!RenameWrites, PublicationInv, RenamingTyped
    <2>2. CASE UNCHANGED skills
      BY <1>1, <1>2, <2>1, <2>2, ReadsKeep
    <2>3. CASE P!Renamable(skills[i]) /\ skills' = [skills EXCEPT ![i].slug = renaming.to]
      <3>1. skills \in [Ids -> Rows]
        BY DEF PublicationInv, RowsTyped
      <3>2. skills' = [skills EXCEPT ![i] = s]
        BY <2>1, <2>3, <3>1
      <3>3. s \in Rows /\ s.slug \in Slugs /\ s.public = 0
        BY <2>1, <2>3, <3>1 DEF Rows, P!Renamable
      <3>4. i \in P!Live
        BY <2>1, <2>3, PartsAssumption DEF P!Live, P!Renamable
      <3> HIDE DEF s
      <3>5. QED
        BY <1>1, <1>2, <2>1, <3>2, <3>3, <3>4, EditKeeps
    <2>4. QED
      BY <1>4, <2>2, <2>3 DEF P!RenameWrites
  <1>5. QED
    BY <1>3, <1>4

LEMMA PublicationStep ==
  ASSUME PublicationInv, P!Next \/ UNCHANGED publication
  PROVE  PublicationInv' /\ ("commit" \notin Mishaps /\ ArchivesInv => ArchivesInv')
  <1>1. CASE UNCHANGED publication
    BY <1>1 DEF publication, PublicationInv, RowsTyped, StoreTyped, JobsTyped, ReleasesTyped, RenamingTyped, LiveCounted,
       P!PublicHasItsName, P!Live, P!VersionsOf, ArchivesInv, KeysAreOwned, Owns, KeyOf, P!ArchivesAreTheirVersions
  <1>2. CASE P!Next
    BY <1>2, ResolveKeeps, StepsKeep, PutsKeep, CheckKeeps, CommitKeeps, DeleteKeeps, PrepareKeeps, LookKeeps, SetKeeps,
       RenameKeeps, EditsKeep DEF P!Next
  <1>3. QED
    BY <1>1, <1>2

LEMMA PublicationInvHolds == SkillsSpec => []PublicationInv
  <1>1. SkillsInit => PublicationInv
    BY PublicationStarts DEF SkillsInit
  <1>2. PublicationInv /\ [SkillsNext]_skills_vars => PublicationInv'
    BY PublicationStep DEF SkillsNext, skills_vars
  <1>3. QED
    BY <1>1, <1>2, PTL DEF SkillsSpec

\* SkillPublish, whatever requests fail, and however releases, renamings and publications
\* overlap: what is public was published under the name of its skill, and concurrent
\* creations do not pass the quota.
THEOREM ReleasesAndQuotaSafe == SkillsSpec => [](P!PublicHasItsName /\ P!QuotaHolds)
  <1>1. PublicationInv => P!PublicHasItsName /\ P!QuotaHolds
    BY SameCardinality DEF PublicationInv, LiveCounted, P!QuotaHolds
  <1>2. QED
    BY <1>1, PublicationInvHolds, PTL

\* SkillPublish: while no answer to the COMMIT of a publication is lost, the archive of
\* every version is the one that was published as it, and the above.
THEOREM PublicationsSafe == "commit" \notin Mishaps => (SkillsSpec => []PublicationsHold)
  <1> SUFFICES ASSUME "commit" \notin Mishaps PROVE SkillsSpec => []PublicationsHold
    OBVIOUS
  <1>1. SkillsInit => ArchivesInv
    BY PublicationStarts DEF SkillsInit
  <1>2. PublicationInv /\ ArchivesInv /\ [SkillsNext]_skills_vars => ArchivesInv'
    BY PublicationStep DEF SkillsNext, skills_vars
  <1>3. PublicationInv /\ ArchivesInv => PublicationsHold
    BY SameCardinality DEF PublicationInv, LiveCounted, ArchivesInv, PublicationsHold, P!QuotaHolds
  <1>4. QED
    BY <1>1, <1>2, <1>3, PublicationInvHolds, PTL DEF SkillsSpec
-----------------------------------------------------------------------------
(* The mirror.                                                               *)

Commits == [parent : Nat, folder : Contents \union {"none", "own", "edited"}, lists : Contents \union {"no", "empty"},
            prev : Nat]
Wanted == Contents \union {"none"}
Destinations == [st : {"pending", "syncing", "synced", "error", "disconnected"}, behind : BOOLEAN, same : BOOLEAN,
                 lease : {"none", "live", "over"}, holder : Workers \union {"none"}, last : Nat]
Claims == [at : {"idle", "plan", "prepare", "lock", "publish", "record", "fail"}, want : Wanted, last : Nat,
           attempt : Nat, parent : Nat, new : Commits]
MirrorTyped == /\ catalogue \in Wanted /\ row \in Destinations /\ job \in [Workers -> Claims]
               /\ commits \in Seq(Commits) /\ head \in 0..Len(commits)

\* No commit, made or to be made, has a parent that is not there.
Rooted == {c \in Commits : c.parent <= Len(commits)}
ParentsExist == /\ \A i \in 1..Len(commits) : commits[i] \in Rooted
                /\ \A w \in Workers : job[w].new \in Rooted
                /\ wire \subseteq Rooted

\* The commit shows this version of the skill, if it is to be mirrored.
Shows(i, want) == i \in 1..Len(commits) /\ (want # "none" => commits[i].folder = want)

\* A worker that plans for the request the row still stands for plans for the catalogue,
\* and so does one whose transaction keeps the catalogue from changing.
PlansAgree == \A w \in Workers :
  /\ job[w].at \in {"prepare", "lock"} /\ row.st = "syncing" /\ row.holder = w /\ row.same => job[w].want = catalogue
  /\ job[w].at \in {"publish", "record"} => job[w].want = catalogue
\* What is prepared shows what is wanted: the head that was read, or the commit to be made.
PreparedShows == \A w \in Workers :
  /\ job[w].at = "lock" /\ job[w].new = NoCommit => Shows(job[w].parent, job[w].want)
  /\ job[w].at \in {"lock", "publish"} /\ job[w].new.parent # 0 /\ job[w].want # "none" => job[w].new.folder = job[w].want
  /\ job[w].at = "record" => Shows(job[w].parent, job[w].want)
SyncedShows == row.st = "synced" => Shows(row.last, catalogue)

MirrorInv == MirrorTyped /\ ParentsExist /\ PlansAgree /\ PreparedShows /\ SyncedShows

LEMMA NothingTyped == NoCommit \in Commits /\ Idle \in Claims /\ NoCommit.parent = 0 /\ Idle.at = "idle"
  <1>1. NoCommit \in Commits /\ NoCommit.parent = 0
    BY DEF NoCommit, Commits
  <1>2. QED
    BY <1>1 DEF Idle, Claims, Wanted

LEMMA MirrorStarts == Init => MirrorInv
  <1> SUFFICES ASSUME Init PROVE MirrorInv
    OBVIOUS
  <1>1. row.st = "pending" /\ row \in Destinations
    <2>1. NewRow.st = "pending" /\ NewRow \in Destinations
      BY DEF NewRow, Destinations
    <2>2. QED
      BY <2>1 DEF Init
  <1>2. commits \in Seq(Commits)
    <2> DEFINE c == [NoCommit EXCEPT !.folder = "own"]
    <2>1. c \in Commits
      BY NothingTyped DEF Commits
    <2>2. commits \in {<<>>, <<c>>}
      BY DEF Init
    <2> HIDE DEF c
    <2>3. CASE commits = <<>>
      BY <2>3
    <2>4. CASE commits = <<c>>
      BY <2>1, <2>4
    <2>5. QED
      BY <2>2, <2>3, <2>4
  <1>3. \A w \in Workers : job[w].at = "idle"
    BY NothingTyped DEF Init
  <1>4. MirrorTyped
    BY <1>1, <1>2, NothingTyped DEF Init, MirrorTyped, Wanted
  <1>5. ParentsExist
    <2>1. \A i \in 1..Len(commits) : commits[i] \in Commits /\ commits[i].parent = 0
      <3> DEFINE c == [NoCommit EXCEPT !.folder = "own"]
      <3>1. c \in Commits /\ c.parent = 0
        BY NothingTyped DEF Commits
      <3>2. commits \in {<<>>, <<c>>}
        BY DEF Init
      <3> HIDE DEF c
      <3>3. QED
        BY <3>1, <3>2
    <2>2. Len(commits) \in Nat
      BY <1>2
    <2>3. Idle.new = NoCommit
      BY DEF Idle
    <2>4. QED
      BY <2>1, <2>2, <2>3, NothingTyped DEF Init, ParentsExist, Rooted
  <1>6. QED
    BY <1>1, <1>3, <1>4, <1>5 DEF MirrorInv, PlansAgree, PreparedShows, SyncedShows

\* The row and the catalogue change, and no worker.
LEMMA RowKeeps ==
  ASSUME MirrorInv, UNCHANGED <<job, commits, head, wire>>, catalogue' \in Wanted, row' \in Destinations,
         catalogue' # catalogue => ~Locked,
         row'.st = "syncing" /\ row'.same => row.st = "syncing" /\ row.same /\ row'.holder = row.holder /\ catalogue' = catalogue,
         row'.st = "synced" => row.st = "synced" /\ row'.last = row.last /\ catalogue' = catalogue
  PROVE  MirrorInv'
  <1>1. MirrorTyped' /\ ParentsExist'
    BY DEF MirrorInv, MirrorTyped, ParentsExist, Rooted
  <1>2. PlansAgree'
    BY DEF MirrorInv, PlansAgree, Locked
  <1>3. PreparedShows' /\ SyncedShows'
    BY DEF MirrorInv, PreparedShows, SyncedShows, Shows
  <1>4. QED
    BY <1>1, <1>2, <1>3 DEF MirrorInv

LEMMA RequestedRow ==
  ASSUME NEW r \in Destinations
  PROVE  /\ Requested(r) \in Destinations /\ ~Requested(r).same /\ Requested(r).st \in {"syncing", "pending"}
  <1> DEFINE st == IF r.st = "syncing" THEN "syncing" ELSE "pending"
  <1>1. \A a, b \in BOOLEAN : [r EXCEPT !.behind = a, !.same = b, !.st = st] \in Destinations
    BY DEF Destinations
  <1>2. Requested(r) \in Destinations
    BY <1>1 DEF Requested
  <1>3. Requested(r).same = FALSE /\ Requested(r).st = st
    BY DEF Requested, Destinations
  <1>4. QED
    BY <1>2, <1>3

LEMMA CatalogueKeeps ==
  ASSUME MirrorInv, CatalogueChanges \/ RequestSync \/ Disconnect \/ Connect \/ LeaseExpires
  PROVE  MirrorInv'
  <1>1. row \in Destinations /\ catalogue \in Wanted
    BY DEF MirrorInv, MirrorTyped
  <1>2. Requested(row) \in Destinations /\ ~Requested(row).same /\ Requested(row).st \in {"syncing", "pending"}
    BY <1>1, RequestedRow
  <1>3. CASE CatalogueChanges
    <2>1. UNCHANGED <<job, commits, head, wire>> /\ catalogue' \in Wanted /\ ~Locked
      BY <1>3 DEF CatalogueChanges, Wanted
    <2>2. (row' = row /\ row.st = "disconnected") \/ row' = Requested(row)
      BY <1>3 DEF CatalogueChanges
    <2>3. QED
      BY <1>1, <1>2, <2>1, <2>2, RowKeeps
  <1>4. CASE RequestSync
    <2>1. UNCHANGED <<catalogue, job, commits, head, wire>> /\ row' = Requested(row)
      BY <1>4 DEF RequestSync
    <2>2. QED
      BY <1>1, <1>2, <2>1, RowKeeps
  <1>5. CASE Disconnect
    <2>1. UNCHANGED <<catalogue, job, commits, head, wire>> /\ row' \in Destinations /\ row'.st = "disconnected"
      BY <1>1, <1>5 DEF Disconnect, WithoutLease, Destinations
    <2>2. QED
      BY <1>1, <2>1, RowKeeps
  <1>6. CASE Connect
    <2>1. UNCHANGED <<catalogue, row, job, commits, head, wire>>
      BY <1>6 DEF Connect
    <2>2. QED
      BY <1>1, <2>1, RowKeeps
  <1>7. CASE LeaseExpires
    <2>1. /\ UNCHANGED <<catalogue, job, commits, head, wire>> /\ row' \in Destinations
          /\ row'.st = row.st /\ row'.same = row.same /\ row'.holder = row.holder /\ row'.last = row.last
      BY <1>1, <1>7 DEF LeaseExpires, Destinations
    <2>2. QED
      BY <1>1, <2>1, RowKeeps
  <1>8. QED
    BY <1>3, <1>4, <1>5, <1>6, <1>7

\* A worker takes a step that leaves the row and the branch.
LEMMA WorkerKeeps ==
  ASSUME MirrorInv, NEW w \in Workers, NEW j \in Claims, Goes(w, j), UNCHANGED <<catalogue, row, commits, head>>,
         wire' \subseteq Rooted, j.new \in Rooted,
         /\ j.at \in {"prepare", "lock"} /\ row.st = "syncing" /\ row.holder = w /\ row.same => j.want = catalogue
         /\ j.at \in {"publish", "record"} => j.want = catalogue
         /\ j.at = "lock" /\ j.new = NoCommit => Shows(j.parent, j.want)
         /\ j.at \in {"lock", "publish"} /\ j.new.parent # 0 /\ j.want # "none" => j.new.folder = j.want
         /\ j.at = "record" => Shows(j.parent, j.want)
  PROVE  MirrorInv'
  <1>1. job' \in [Workers -> Claims] /\ \A v \in Workers : job'[v] = IF v = w THEN j ELSE job[v]
    BY DEF Goes, MirrorInv, MirrorTyped
  <1>2. MirrorTyped' /\ ParentsExist'
    BY <1>1 DEF MirrorInv, MirrorTyped, ParentsExist, Rooted
  <1>3. PlansAgree'
    BY <1>1 DEF MirrorInv, PlansAgree
  <1>4. PreparedShows' /\ SyncedShows'
    BY <1>1 DEF MirrorInv, PreparedShows, SyncedShows, Shows
  <1>5. QED
    BY <1>2, <1>3, <1>4 DEF MirrorInv

LEMMA FailKeeps ==
  ASSUME MirrorInv, NEW w \in Workers, Fails(w) \/ Goes(w, Idle), UNCHANGED <<catalogue, row, commits, head>>,
         wire' \subseteq Rooted
  PROVE  MirrorInv'
  <1>1. PICK j \in {Idle, [Idle EXCEPT !.at = "fail"]} : Goes(w, j)
    BY DEF Fails
  <1>2. j \in Claims /\ j.at \in {"idle", "fail"} /\ j.new = Idle.new
    BY NothingTyped DEF Claims
  <1>3. j.new \in Rooted
    <2>1. Idle.new = NoCommit /\ Len(commits) \in Nat
      BY DEF Idle, MirrorInv, MirrorTyped
    <2>2. QED
      BY <1>2, <2>1, NothingTyped DEF Rooted
  <1>4. QED
    BY <1>1, <1>2, <1>3, WorkerKeeps

\* The branch moves to a commit made now.
LEMMA MoveKeeps ==
  ASSUME MirrorInv, NEW c \in Rooted, Moves(c), UNCHANGED <<catalogue, row, job>>, wire' \subseteq Rooted
  PROVE  /\ MirrorInv' /\ commits'[Len(commits) + 1] = c /\ Len(commits') = Len(commits) + 1
         /\ \A i, want : Shows(i, want) => Shows(i, want)'
  <1>1. commits \in Seq(Commits) /\ head \in 0..Len(commits) /\ c \in Commits
    BY DEF MirrorInv, MirrorTyped, Rooted
  <1>2. /\ commits' \in Seq(Commits) /\ Len(commits') = Len(commits) + 1 /\ head' \in 0..Len(commits')
        /\ commits'[Len(commits) + 1] = c /\ \A i \in 1..Len(commits) : commits'[i] = commits[i]
    BY <1>1 DEF Moves
  <1>3. \A i, want : Shows(i, want) => Shows(i, want)'
    BY <1>1, <1>2 DEF Shows
  <1>4. MirrorTyped' /\ ParentsExist'
    <2>1. \A d \in Rooted : d \in Rooted'
      BY <1>1, <1>2 DEF Rooted, Commits
    <2>2. QED
      BY <1>1, <1>2, <2>1 DEF MirrorInv, MirrorTyped, ParentsExist
  <1>5. PlansAgree' /\ SyncedShows'
    BY <1>3 DEF MirrorInv, PlansAgree, SyncedShows
  <1>6. PreparedShows'
    BY <1>3 DEF MirrorInv, PreparedShows
  <1>7. QED
    BY <1>2, <1>3, <1>4, <1>5, <1>6 DEF MirrorInv

LEMMA ClaimKeeps ==
  ASSUME MirrorInv, NEW w \in Workers, Claim(w)
  PROVE  MirrorInv'
  <1> DEFINE j == [Idle EXCEPT !.at = "plan"]
  <1>1. UNCHANGED <<catalogue, commits, head, wire>> /\ job' = [job EXCEPT ![w] = j]
    BY DEF Claim, Goes
  <1>2. row' \in Destinations /\ row'.st = "syncing" /\ row'.holder = w
    BY DEF Claim, MirrorInv, MirrorTyped, Destinations
  <1>3. j \in Claims /\ j.at = "plan" /\ j.new = Idle.new
    BY NothingTyped DEF Claims
  <1> HIDE DEF j
  <1>4. job' \in [Workers -> Claims] /\ \A v \in Workers : job'[v] = IF v = w THEN j ELSE job[v]
    BY <1>1, <1>3 DEF MirrorInv, MirrorTyped
  <1>5. MirrorTyped' /\ ParentsExist'
    <2>1. Idle.new = NoCommit /\ Len(commits) \in Nat
      BY DEF Idle, MirrorInv, MirrorTyped
    <2>2. Idle.new \in Rooted
      BY <2>1, NothingTyped DEF Rooted
    <2>3. QED
      BY <1>1, <1>2, <1>3, <1>4, <2>2 DEF MirrorInv, MirrorTyped, ParentsExist, Rooted
  <1>6. PlansAgree'
    BY <1>1, <1>2, <1>3, <1>4 DEF MirrorInv, PlansAgree
  <1>7. PreparedShows' /\ SyncedShows'
    BY <1>1, <1>2, <1>3, <1>4 DEF MirrorInv, PreparedShows, SyncedShows, Shows
  <1>8. QED
    BY <1>5, <1>6, <1>7 DEF MirrorInv

LEMMA PlanKeeps ==
  ASSUME MirrorInv, NEW w \in Workers, Plan(w)
  PROVE  MirrorInv'
  <1>1. UNCHANGED <<catalogue, row, commits, head, wire>> /\ wire' \subseteq Rooted
    BY DEF Plan, MirrorInv, ParentsExist
  <1>2. CASE Live(w)
    <2> DEFINE j == [job[w] EXCEPT !.at = "prepare", !.want = catalogue, !.last = row.last]
    <2>1. job[w] \in Claims /\ catalogue \in Wanted /\ row.last \in Nat
      BY DEF MirrorInv, MirrorTyped, Destinations
    <2>2. j \in Claims /\ j.at = "prepare" /\ j.want = catalogue /\ j.new = job[w].new
      BY <2>1 DEF Claims
    <2>3. Goes(w, j)
      BY <1>2 DEF Plan
    <2> HIDE DEF j
    <2>4. j.new \in Rooted
      BY <2>2 DEF MirrorInv, ParentsExist
    <2>5. QED
      BY <1>1, <2>2, <2>3, <2>4, WorkerKeeps
  <1>3. CASE ~Live(w)
    BY <1>1, <1>3, FailKeeps DEF Plan
  <1>4. QED
    BY <1>2, <1>3

Prepared(j, n, c) == [j EXCEPT !.at = "lock", !.parent = n, !.new = c]
Retried(j) == [j EXCEPT !.at = "prepare", !.attempt = @ + 1, !.new = NoCommit]

LEMMA ClaimPrepared ==
  ASSUME NEW j \in Claims, NEW n \in Nat, NEW c \in Commits
  PROVE  /\ Prepared(j, n, c) \in Claims /\ Prepared(j, n, c).at = "lock" /\ Prepared(j, n, c).parent = n
         /\ Prepared(j, n, c).new = c /\ Prepared(j, n, c).want = j.want
  BY DEF Claims, Prepared

LEMMA ClaimRetried ==
  ASSUME NEW j \in Claims
  PROVE  /\ Retried(j) \in Claims /\ Retried(j).at = "prepare" /\ Retried(j).want = j.want
         /\ Retried(j).new = NoCommit
  <1>1. j.attempt + 1 \in Nat /\ NoCommit \in Commits
    BY NothingTyped DEF Claims
  <1>2. QED
    BY <1>1 DEF Claims, Retried

LEMMA ClaimPublished ==
  ASSUME NEW j \in Claims, NEW n \in Nat
  PROVE  LET to == [j EXCEPT !.at = "record", !.parent = n]
         IN  to \in Claims /\ to.at = "record" /\ to.parent = n /\ to.new = j.new /\ to.want = j.want
  BY DEF Claims

LEMMA PreparesKeep ==
  ASSUME MirrorInv, NEW w \in Workers, Prepare(w)
  PROVE  MirrorInv'
  <1> DEFINE j == job[w]
             first == [NoCommit EXCEPT !.lists = "empty", !.prev = j.last]
             next == [parent |-> head, folder |-> Folder(j.want, j.last, head), lists |-> Lists(j.want), prev |-> j.last]
             new == IF head = 0 THEN first ELSE IF TreeStays(j.want, j.last, head) THEN NoCommit ELSE next
             to == Prepared(j, head, new)
  <1>1. /\ UNCHANGED <<catalogue, row, commits, head, wire>> /\ wire' \subseteq Rooted
        /\ j \in Claims /\ j.at = "prepare" /\ commits \in Seq(Commits) /\ head \in 0..Len(commits)
    BY DEF Prepare, At, MirrorInv, MirrorTyped, ParentsExist
  <1>2. CASE head # 0 /\ Collides(j.want, j.last, head)
    BY <1>1, <1>2, FailKeeps DEF Prepare
  <1>3. CASE ~(head # 0 /\ Collides(j.want, j.last, head))
    <2>1. Goes(w, to)
      BY <1>3 DEF Prepare, Prepared
    <2>2. first \in Commits /\ first.parent = 0 /\ first.lists = "empty" /\ NoCommit.lists = "no"
      BY <1>1, NothingTyped DEF Commits, Claims, NoCommit
    <2>3. head # 0 => commits[head] \in Commits
      BY <1>1
    <2>4. head # 0 => next \in Commits /\ next.parent = head /\ (j.want # "none" => next.folder = j.want)
      <3>1. j.want \in Contents \union {"none"} /\ j.last \in Nat /\ head \in Nat
        BY <1>1 DEF Claims, Wanted
      <3>2. head # 0 => Folder(j.want, j.last, head) \in Contents \union {"none", "own", "edited"}
        BY <2>3, <3>1 DEF Folder, Commits
      <3>3. Lists(j.want) \in Contents \union {"no", "empty"}
        BY <3>1 DEF Lists
      <3>4. j.want # "none" => Folder(j.want, j.last, head) = j.want
        BY DEF Folder
      <3>5. QED
        BY <3>1, <3>2, <3>3, <3>4 DEF Commits
    <2>5. head # 0 /\ TreeStays(j.want, j.last, head) => Shows(head, j.want)
      BY <1>1 DEF TreeStays, Folder, Shows
    <2> HIDE DEF first, next
    <2>6. /\ new \in Commits
          /\ new = NoCommit => head # 0 /\ (Shows(head, j.want) \/ next = NoCommit)
          /\ new.parent # 0 /\ j.want # "none" => new.folder = j.want
      BY <2>2, <2>4, <2>5, NothingTyped
    <2>7. new = NoCommit => Shows(head, j.want)
      BY <2>4, <2>6, NothingTyped
    <2> HIDE DEF new
    <2>8. to \in Claims /\ to.at = "lock" /\ to.parent = head /\ to.new = new /\ to.want = j.want
      <3>1. head \in Nat
        BY <1>1
      <3>2. new \in Commits /\ j \in Claims
        BY <1>1, <2>6
      <3>3. QED
        BY <3>1, <3>2, ClaimPrepared
    <2>9. new \in Rooted
      BY <1>1, <2>2, <2>4, <2>6, NothingTyped DEF Rooted, new
    <2>10. row.st = "syncing" /\ row.holder = w /\ row.same => j.want = catalogue
      BY <1>1 DEF MirrorInv, PlansAgree
    <2> HIDE DEF to
    <2>11. QED
      BY <1>1, <2>1, <2>6, <2>7, <2>8, <2>9, <2>10, WorkerKeeps
  <1>4. QED
    BY <1>2, <1>3

LEMMA FenceKeeps ==
  ASSUME MirrorInv, NEW w \in Workers, Lock(w)
  PROVE  MirrorInv'
  <1> DEFINE j == job[w]
             at == IF j.new = NoCommit THEN "record" ELSE "publish"
             to == [j EXCEPT !.at = at]
  <1>1. /\ UNCHANGED <<catalogue, row, commits, head, wire>> /\ wire' \subseteq Rooted
        /\ j \in Claims /\ j.at = "lock" /\ j.new \in Rooted
    BY DEF Lock, At, MirrorInv, MirrorTyped, ParentsExist
  <1>2. CASE Live(w)
    <2>1. Goes(w, to)
      BY <1>2 DEF Lock
    <2>2. j.want = catalogue
      BY <1>1, <1>2 DEF Live, MirrorInv, PlansAgree
    <2>3. /\ j.new = NoCommit => Shows(j.parent, j.want)
          /\ j.new.parent # 0 /\ j.want # "none" => j.new.folder = j.want
      BY <1>1 DEF MirrorInv, PreparedShows
    <2>4. /\ to \in Claims /\ to.at = at /\ to.parent = j.parent /\ to.new = j.new /\ to.want = j.want
      BY <1>1 DEF Claims
    <2> HIDE DEF to
    <2>5. QED
      BY <1>1, <2>1, <2>2, <2>3, <2>4, WorkerKeeps
  <1>3. CASE ~Live(w)
    BY <1>1, <1>3, FailKeeps DEF Lock
  <1>4. QED
    BY <1>2, <1>3

LEMMA RetryKeeps ==
  ASSUME MirrorInv, NEW w \in Workers, job[w].at = "publish", Retries(w), UNCHANGED <<catalogue, row, commits, head, wire>>
  PROVE  MirrorInv'
  <1> DEFINE j == job[w]
             to == Retried(j)
  <1>1. j \in Claims /\ j.want = catalogue /\ wire' \subseteq Rooted
    BY DEF MirrorInv, MirrorTyped, PlansAgree, ParentsExist
  <1>2. CASE Fails(w)
    BY <1>1, <1>2, FailKeeps
  <1>3. CASE Goes(w, to)
    <2>1. to \in Claims /\ to.at = "prepare" /\ to.want = j.want /\ to.new = NoCommit
      BY <1>1, ClaimRetried
    <2> HIDE DEF to
    <2>2. NoCommit \in Rooted
      <3>1. Len(commits) \in Nat
        BY DEF MirrorInv, MirrorTyped
      <3>2. QED
        BY <3>1, NothingTyped DEF Rooted
    <2>3. QED
      BY <1>1, <1>3, <2>1, <2>2, WorkerKeeps
  <1>4. QED
    BY <1>2, <1>3 DEF Retries, Retried

LEMMA CompletesKeep ==
  ASSUME MirrorInv, NEW w \in Workers, Record(w)
  PROVE  MirrorInv'
  <1> DEFINE j == job[w]
  <1>1. /\ UNCHANGED <<catalogue, commits, head, wire>> /\ wire' \subseteq Rooted
        /\ j \in Claims /\ j.at = "record" /\ row \in Destinations /\ j.want = catalogue /\ Shows(j.parent, j.want)
    BY DEF Record, At, MirrorInv, MirrorTyped, PlansAgree, PreparedShows, ParentsExist
  <1>2. CASE Fails(w) /\ UNCHANGED row
    BY <1>1, <1>2, FailKeeps
  <1>3. CASE /\ row' = [WithoutLease(row) EXCEPT !.st = "synced", !.behind = FALSE, !.last = j.parent]
             /\ Goes(w, Idle)
    <2>1. row' \in Destinations /\ row'.st = "synced" /\ row'.last = j.parent
      <3>1. WithoutLease(row) \in Destinations
        BY <1>1 DEF WithoutLease, Destinations
      <3>2. j.parent \in Nat
        BY <1>1 DEF Claims
      <3>3. \A r \in Destinations, b \in BOOLEAN : [r EXCEPT !.st = "synced", !.behind = b, !.last = j.parent] \in Destinations
        BY <3>2 DEF Destinations
      <3>4. row' \in Destinations
        BY <1>3, <3>1, <3>3
      <3>5. QED
        BY <1>3, <3>1, <3>4 DEF Destinations
    <2>2. job' \in [Workers -> Claims] /\ \A v \in Workers : job'[v] = IF v = w THEN Idle ELSE job[v]
      BY <1>3, NothingTyped DEF Goes, MirrorInv, MirrorTyped
    <2>3. MirrorTyped' /\ ParentsExist'
      <3>1. NoCommit \in Rooted /\ Idle.new = NoCommit
        <4>1. Len(commits) \in Nat
          BY DEF MirrorInv, MirrorTyped
        <4>2. QED
          BY <4>1, NothingTyped DEF Rooted, Idle
      <3>2. QED
        BY <1>1, <2>1, <2>2, <3>1 DEF MirrorInv, MirrorTyped, ParentsExist, Rooted
    <2>4. PlansAgree'
      BY <1>1, <2>1, <2>2, NothingTyped DEF MirrorInv, PlansAgree
    <2>5. PreparedShows'
      BY <1>1, <2>1, <2>2, NothingTyped DEF MirrorInv, PreparedShows, Shows
    <2>6. SyncedShows'
      BY <1>1, <2>1 DEF SyncedShows, Shows
    <2>7. QED
      BY <2>3, <2>4, <2>5, <2>6 DEF MirrorInv
  <1>4. QED
    BY <1>2, <1>3 DEF Record

\* The branch moves to the commit a worker made.
LEMMA PublishKeeps ==
  ASSUME MirrorInv, NEW w \in Workers, Publish(w)
  PROVE  MirrorInv'
  <1> DEFINE j == job[w]
             c == j.new
  <1>1. /\ UNCHANGED <<catalogue, row>> /\ j \in Claims /\ c \in Commits /\ j.at = "publish" /\ j.want = catalogue
        /\ c.parent # 0 /\ j.want # "none" => c.folder = j.want
        /\ commits \in Seq(Commits) /\ wire \subseteq Rooted /\ c \in Rooted /\ head \in 0..Len(commits)
    BY DEF Publish, At, MirrorInv, MirrorTyped, PlansAgree, PreparedShows, ParentsExist, Claims
  <1>2. CASE Retries(w) /\ UNCHANGED <<commits, head, wire>>
    BY <1>1, <1>2, RetryKeeps
  <1>3. CASE wire' = wire \union {c} /\ Fails(w) /\ UNCHANGED <<commits, head>>
    BY <1>1, <1>3, FailKeeps
  <1>4. CASE /\ Moves(c) /\ UNCHANGED wire
             /\ IF c.parent = 0 THEN Retries(w) ELSE Goes(w, [j EXCEPT !.at = "record", !.parent = Len(commits) + 1])
    <2>1. /\ commits' \in Seq(Commits) /\ Len(commits') = Len(commits) + 1 /\ head' \in 0..Len(commits')
          /\ commits'[Len(commits) + 1] = c /\ \A i \in 1..Len(commits) : commits'[i] = commits[i]
      BY <1>1, <1>4 DEF Moves
    <2>2. \A i, want : Shows(i, want) => Shows(i, want)'
      BY <1>1, <2>1 DEF Shows
    <2>3. /\ job' \in [Workers -> Claims] /\ job'[w].at \in {"prepare", "fail", "record"}
          /\ job'[w].at # "fail" => job'[w].want = j.want
          /\ job'[w].at = "record" => c.parent # 0 /\ job'[w].parent = Len(commits) + 1
          /\ job'[w].new \in {c, NoCommit} /\ \A v \in Workers \ {w} : job'[v] = job[v]
      <3>1. job \in [Workers -> Claims]
        BY DEF MirrorInv, MirrorTyped
      <3>2. CASE Goes(w, [j EXCEPT !.at = "record", !.parent = Len(commits) + 1]) /\ c.parent # 0
        <4> DEFINE recorded == [j EXCEPT !.at = "record", !.parent = Len(commits) + 1]
        <4>1. /\ recorded \in Claims /\ recorded.at = "record" /\ recorded.parent = Len(commits) + 1
              /\ recorded.new = c /\ recorded.want = j.want
          <5>1. Len(commits) + 1 \in Nat
            BY <1>1
          <5>2. QED
            BY <1>1, <5>1, ClaimPublished
        <4>2. Goes(w, recorded)
          BY <3>2
        <4> HIDE DEF recorded
        <4>3. QED
          BY <3>1, <3>2, <4>1, <4>2 DEF Goes
      <3>3. CASE Fails(w)
        <4>1. /\ [Idle EXCEPT !.at = "fail"] \in Claims /\ [Idle EXCEPT !.at = "fail"].at = "fail"
              /\ [Idle EXCEPT !.at = "fail"].new = NoCommit
          BY NothingTyped DEF Claims, Idle
        <4>2. QED
          BY <3>1, <3>3, <4>1 DEF Fails, Goes
      <3>4. CASE Goes(w, Retried(j))
        <4> DEFINE again == Retried(j)
        <4>1. again \in Claims /\ again.at = "prepare" /\ again.want = j.want /\ again.new = NoCommit
          BY <1>1, ClaimRetried
        <4>2. Goes(w, again)
          BY <3>4
        <4> HIDE DEF again
        <4>3. QED
          BY <3>1, <4>1, <4>2 DEF Goes
      <3>5. QED
        BY <1>4, <3>2, <3>3, <3>4 DEF Retries, Retried
    <2>4. MirrorTyped' /\ ParentsExist'
      <3>1. \A d \in Rooted : d \in Rooted'
        BY <1>1, <2>1 DEF Rooted, Commits
      <3>2. NoCommit \in Rooted
        BY <1>1, NothingTyped DEF Rooted
      <3>3. QED
        BY <1>1, <1>4, <2>1, <2>3, <3>1, <3>2 DEF MirrorInv, MirrorTyped, ParentsExist
    <2>5. PlansAgree'
      <3>1. ASSUME NEW v \in Workers, v # w
            PROVE  job'[v] = job[v]
        BY <2>3, <3>1
      <3>2. job'[w].at \in {"prepare", "record"} => job'[w].want = catalogue
        BY <1>1, <2>3
      <3>3. QED
        BY <1>1, <2>3, <3>1, <3>2 DEF MirrorInv, PlansAgree
    <2>6. PreparedShows'
      <3>1. job'[w].at = "record" => Shows(job[w].parent, job[w].want)'
        BY <1>1, <2>1, <2>3 DEF Shows
      <3>2. job'[w].at \notin {"lock", "publish"}
        BY <2>3
      <3>3. QED
        BY <2>2, <2>3, <3>1, <3>2 DEF MirrorInv, PreparedShows
    <2>7. SyncedShows'
      BY <1>1, <2>2 DEF MirrorInv, SyncedShows
    <2>8. QED
      BY <2>4, <2>5, <2>6, <2>7 DEF MirrorInv
  <1>5. QED
    BY <1>2, <1>3, <1>4 DEF Publish

\* A worker that failed gives up its lease, and one that dies keeps it.
LEMMA EndsKeep ==
  ASSUME MirrorInv, NEW w \in Workers, Fail(w) \/ Crash(w)
  PROVE  MirrorInv'
  <1> DEFINE j == job[w]
             st == IF row.same THEN "error" ELSE "pending"
             released == [WithoutLease(row) EXCEPT !.st = st]
  <1>1. /\ UNCHANGED <<catalogue, commits, head>> /\ Goes(w, Idle) /\ wire' \subseteq Rooted
        /\ row \in Destinations /\ (row' = row \/ row' = released)
    <2>1. job[w].new \in Rooted /\ wire \subseteq Rooted /\ row \in Destinations
      BY DEF MirrorInv, MirrorTyped, ParentsExist
    <2>2. QED
      BY <2>1 DEF Fail, Crash
  <1>2. CASE row' = row
    BY <1>1, <1>2, FailKeeps
  <1>3. CASE row' = released
    <2>1. released \in Destinations /\ released.st \notin {"syncing", "synced"}
      BY <1>1 DEF WithoutLease, Destinations
    <2> HIDE DEF released
    <2>2. job' \in [Workers -> Claims] /\ \A v \in Workers : job'[v] = IF v = w THEN Idle ELSE job[v]
      BY <1>1, NothingTyped DEF Goes, MirrorInv, MirrorTyped
    <2>3. MirrorTyped' /\ ParentsExist'
      <3>1. NoCommit \in Rooted /\ Idle.new = NoCommit
        <4>1. Len(commits) \in Nat
          BY DEF MirrorInv, MirrorTyped
        <4>2. QED
          BY <4>1, NothingTyped DEF Rooted, Idle
      <3>2. QED
        BY <1>1, <1>3, <2>1, <2>2, <3>1 DEF MirrorInv, MirrorTyped, ParentsExist, Rooted
    <2>4. PlansAgree' /\ SyncedShows'
      BY <1>1, <1>3, <2>1, <2>2, NothingTyped DEF MirrorInv, PlansAgree, SyncedShows
    <2>5. PreparedShows'
      BY <1>1, <2>2, NothingTyped DEF MirrorInv, PreparedShows, Shows
    <2>6. QED
      BY <2>3, <2>4, <2>5 DEF MirrorInv
  <1>4. QED
    BY <1>1, <1>2, <1>3

\* The head moves back, or an update is lost.
LEMMA BackKeeps ==
  ASSUME MirrorInv, UNCHANGED <<catalogue, row, job, commits>>, head' \in 0..Len(commits), wire' \subseteq Rooted
  PROVE  MirrorInv'
  BY DEF MirrorInv, MirrorTyped, ParentsExist, Rooted, PlansAgree, PreparedShows, SyncedShows, Shows

LEMMA ArrivalKeeps ==
  ASSUME MirrorInv, NEW c \in wire, Arrives(c) \/ IsLost(c)
  PROVE  MirrorInv'
  <1>1. /\ UNCHANGED <<catalogue, row, job>> /\ c \in Rooted /\ wire' \subseteq Rooted /\ head \in 0..Len(commits)
        /\ Moves(c) \/ UNCHANGED <<commits, head>>
    BY DEF Arrives, IsLost, MirrorInv, MirrorTyped, ParentsExist
  <1>2. CASE Moves(c)
    BY <1>1, <1>2, MoveKeeps
  <1>3. CASE UNCHANGED <<commits, head>>
    BY <1>1, <1>3, BackKeeps
  <1>4. QED
    BY <1>1, <1>2, <1>3

LEMMA OwnersKeep ==
  ASSUME MirrorInv, OwnerCommits \/ OwnerForces
  PROVE  MirrorInv'
  <1> DEFINE folders == Contents \union {"none", "own", "edited"}
  <1>1. /\ UNCHANGED <<catalogue, row, job, wire>> /\ wire' \subseteq Rooted /\ head # 0 /\ head \in 0..Len(commits)
        /\ commits \in Seq(Commits)
    BY DEF OwnerCommits, OwnerForces, PushStays, MirrorInv, MirrorTyped, ParentsExist
  <1>2. commits[head] \in Rooted /\ head \in Nat /\ head <= Len(commits) /\ Len(commits) \in Nat
    BY <1>1 DEF MirrorInv, ParentsExist
  <1>3. ASSUME NEW c \in Rooted, Moves(c) PROVE MirrorInv'
    BY <1>1, <1>3, MoveKeeps
  <1>4. CASE OwnerCommits
    <2>1. PICK f \in folders : Moves([commits[head] EXCEPT !.parent = head, !.folder = f])
      <3>1. commits[head].folder \in folders
        BY <1>2 DEF Rooted, Commits
      <3>2. QED
        BY <1>4, <3>1 DEF OwnerCommits
    <2>2. [commits[head] EXCEPT !.parent = head, !.folder = f] \in Rooted
      BY <1>2 DEF Rooted, Commits
    <2>3. QED
      BY <1>3, <2>1, <2>2
  <1>5. CASE OwnerForces
    <2>1. CASE commits[head].parent # 0 /\ head' = commits[head].parent /\ UNCHANGED commits
      BY <1>1, <1>2, <2>1, BackKeeps DEF Rooted, Commits
    <2>2. CASE Moves([commits[head] EXCEPT !.parent = 0])
      <3>1. [commits[head] EXCEPT !.parent = 0] \in Rooted
        BY <1>2 DEF Rooted, Commits
      <3>2. QED
        BY <1>3, <2>2, <3>1
    <2>3. CASE \E f \in {"none", "own"} : Moves([NoCommit EXCEPT !.folder = f])
      <3>1. \A f \in {"none", "own"} : [NoCommit EXCEPT !.folder = f] \in Rooted
        BY <1>2, NothingTyped DEF Rooted, Commits
      <3>2. QED
        BY <1>3, <2>3, <3>1
    <2>4. QED
      BY <1>5, <2>1, <2>2, <2>3 DEF OwnerForces
  <1>6. QED
    BY <1>4, <1>5

LEMMA MirrorStep ==
  ASSUME MirrorInv, Next \/ UNCHANGED vars
  PROVE  MirrorInv'
  <1>1. CASE Next
    BY <1>1, CatalogueKeeps, ClaimKeeps, PlanKeeps, PreparesKeep, FenceKeeps, PublishKeeps, CompletesKeep, EndsKeep,
       ArrivalKeeps, OwnersKeep DEF Next, Work
  <1>2. CASE UNCHANGED vars
    BY <1>2 DEF vars, MirrorInv, MirrorTyped, ParentsExist, Rooted, PlansAgree, PreparedShows, SyncedShows, Shows
  <1>3. QED
    BY <1>1, <1>2

\* GitHubSync, however claims overlap, leases are overrun, updates of the branch come late
\* and the owners rewrite it: a head that the row records as synced shows the catalogue.
THEOREM SyncedShowsCatalogue == SkillsSpec => []SyncedIsCatalogue
  <1>1. SkillsInit => MirrorInv
    BY MirrorStarts DEF SkillsInit
  <1>2. MirrorInv /\ [SkillsNext]_skills_vars => MirrorInv'
    BY MirrorStep DEF SkillsNext, skills_vars
  <1>3. MirrorInv => SyncedIsCatalogue
    BY DEF MirrorInv, SyncedShows, Shows, SyncedIsCatalogue
  <1>4. QED
    BY <1>1, <1>2, <1>3, PTL DEF SkillsSpec
-----------------------------------------------------------------------------
(* The folders of the owners.                                                *)

\* The commits that the workers made, on their way or not.
Made == wire \union {job[w].new : w \in Workers}
\* A commit does not take an owner's folder away where the mirror never had the skill.
KeepsOwn(c) == c.parent # 0 /\ commits[c.parent].folder = "own" /\ ~Held(c.parent) => c.folder = "own"
OwnKept == pushes \in Nat /\ \A c \in Made : KeepsOwn(c)

\* The branch moves back, or a commit is made: what was a commit remains one.
CommitsStay == \A i \in 1..Len(commits) : commits'[i] = commits[i]

\* A commit's history is what it was when the commit was made.
LEMMA HistoriesStay ==
  ASSUME CommitsStay, Len(commits) \in Nat, NEW c \in 0..Len(commits)
  PROVE  Held(c)' = Held(c) /\ (c # 0 => commits'[c] = commits[c])
  <1>1. \A i \in 1..c : commits'[i] = commits[i]
    BY DEF CommitsStay
  <1>2. ASSUME NEW S \in SUBSET (1..c) PROVE HasParents(S)' <=> HasParents(S)
    BY <1>1 DEF HasParents
  <1>3. History(c)' = History(c)
    BY <1>2 DEF History
  <1>4. History(c) \subseteq 1..c
    BY DEF History
  <1>5. Held(c)' <=> Held(c)
    BY <1>1, <1>3, <1>4 DEF Held
  <1>6. QED
    BY <1>1, <1>5 DEF Held

LEMMA KeepsOwnStays ==
  ASSUME MirrorInv, CommitsStay, NEW c \in Rooted, KeepsOwn(c)
  PROVE  KeepsOwn(c)'
  <1>1. Len(commits) \in Nat /\ c.parent \in 0..Len(commits)
    BY DEF MirrorInv, MirrorTyped, Rooted, Commits
  <1>2. Held(c.parent)' = Held(c.parent) /\ (c.parent # 0 => commits'[c.parent] = commits[c.parent])
    BY <1>1, HistoriesStay
  <1>3. QED
    BY <1>2 DEF KeepsOwn

\* Commits are only appended.
LEMMA MovesAppend ==
  ASSUME MirrorInv, NEW c, Moves(c)
  PROVE  CommitsStay /\ commits'[head'] = c
  <1>1. commits \in Seq(Commits)
    BY DEF MirrorInv, MirrorTyped
  <1>2. QED
    BY <1>1 DEF Moves, CommitsStay

LEMMA StepsAppend ==
  ASSUME MirrorInv, Next
  PROVE  CommitsStay
  <1>1. CASE UNCHANGED commits
    BY <1>1 DEF CommitsStay
  <1>2. CASE \E c : Moves(c)
    BY <1>2, MovesAppend
  <1>3. CASE CatalogueChanges \/ RequestSync \/ Disconnect \/ Connect \/ LeaseExpires
    BY <1>1, <1>3 DEF CatalogueChanges, RequestSync, Disconnect, Connect, LeaseExpires
  <1>4. ASSUME NEW w \in Workers, Work(w) \/ Crash(w) PROVE CommitsStay
    BY <1>1, <1>2, <1>4 DEF Work, Claim, Plan, Prepare, Lock, Publish, Record, Fail, Crash
  <1>5. CASE \E c \in wire : Arrives(c) \/ IsLost(c)
    BY <1>1, <1>2, <1>5 DEF Arrives, IsLost
  <1>6. CASE OwnerCommits \/ OwnerForces
    BY <1>1, <1>2, <1>6 DEF OwnerCommits, OwnerForces
  <1>7. QED
    BY <1>3, <1>4, <1>5, <1>6 DEF Next

\* What a worker prepares: it collides with an owner's folder, or leaves it.
LEMMA PreparedKeepsOwn ==
  ASSUME MirrorInv, NEW w \in Workers, Prepare(w)
  PROVE  KeepsOwn(job'[w].new)
  <1> DEFINE j == job[w]
             first == [NoCommit EXCEPT !.lists = "empty", !.prev = j.last]
             next == [parent |-> head, folder |-> Folder(j.want, j.last, head), lists |-> Lists(j.want), prev |-> j.last]
             new == IF head = 0 THEN first ELSE IF TreeStays(j.want, j.last, head) THEN NoCommit ELSE next
  <1>1. job \in [Workers -> Claims] /\ head \in Nat
    BY DEF MirrorInv, MirrorTyped
  <1>2. NoCommit.parent = 0 /\ first.parent = 0 /\ next.parent = head /\ next.folder = Folder(j.want, j.last, head)
    BY DEF NoCommit
  <1>3. CASE head # 0 /\ Collides(j.want, j.last, head)
    <2>1. job'[w].new = NoCommit
      BY <1>1, <1>3 DEF Prepare, Fails, Goes, Idle
    <2>2. QED
      BY <1>2, <2>1 DEF KeepsOwn
  <1>4. CASE ~(head # 0 /\ Collides(j.want, j.last, head))
    <2>1. job'[w].new = new
      <3>1. Goes(w, Prepared(j, head, new))
        BY <1>4 DEF Prepare, Prepared
      <3>2. Prepared(j, head, new).new = new
        BY <1>1 DEF Prepared, Claims
      <3>3. QED
        BY <1>1, <3>1, <3>2 DEF Goes
    <2>2. ASSUME head # 0, commits[head].folder = "own", ~Held(head)
          PROVE  next.folder = "own"
      <3>1. head \in History(head)
        BY <1>1, <2>2 DEF History
      <3>2. ~Trusts(j.last, head)
        BY <2>2, <3>1 DEF Trusts, Held
      <3>3. j.want = "none"
        BY <1>4, <2>2, <3>2 DEF Collides
      <3>4. QED
        BY <1>2, <2>2, <3>2, <3>3 DEF Folder
    <2> HIDE DEF first, next
    <2>3. QED
      BY <1>2, <2>1, <2>2 DEF KeepsOwn
  <1>5. QED
    BY <1>3, <1>4

\* A step leaves a worker the commit that it has, or none, or it prepares one.
LEMMA NewCommits ==
  ASSUME MirrorInv, Next, NEW w \in Workers
  PROVE  job'[w].new \in {job[w].new, NoCommit} \/ Prepare(w)
  <1>1. job \in [Workers -> Claims] /\ Idle.new = NoCommit
    BY DEF MirrorInv, MirrorTyped, Idle
  <1>2. ASSUME NEW v \in Workers, NEW j, Goes(v, j), v = w => j.new \in {job[w].new, NoCommit}
        PROVE  job'[w].new \in {job[w].new, NoCommit}
    BY <1>1, <1>2 DEF Goes
  <1>3. ASSUME NEW v \in Workers, Fails(v) PROVE job'[w].new \in {job[w].new, NoCommit}
    <2>1. [Idle EXCEPT !.at = "fail"].new = NoCommit
      BY DEF Idle
    <2>2. QED
      BY <1>2, <1>3, <2>1 DEF Fails
  <1>4. ASSUME NEW v \in Workers, Work(v) \/ Crash(v) PROVE job'[w].new \in {job[w].new, NoCommit} \/ Prepare(w)
    <2> DEFINE j == job[v]
    <2>1. j \in Claims
      BY <1>1
    <2>2. CASE Claim(v)
      <3>1. [Idle EXCEPT !.at = "plan"].new = NoCommit
        BY DEF Idle
      <3>2. QED
        BY <1>2, <2>2, <3>1 DEF Claim
    <2>3. CASE Plan(v)
      <3>1. [j EXCEPT !.at = "prepare", !.want = catalogue, !.last = row.last].new = j.new
        BY <2>1 DEF Claims
      <3>2. QED
        BY <1>2, <1>3, <2>3, <3>1 DEF Plan
    <2>4. CASE Prepare(v)
      <3>1. CASE v = w
        BY <2>4, <3>1
      <3>2. CASE v # w
        BY <1>1, <2>4, <3>2 DEF Prepare, Fails, Goes
      <3>3. QED
        BY <3>1, <3>2
    <2>5. CASE Lock(v)
      <3>1. \A at : [j EXCEPT !.at = at].new = j.new
        BY <2>1 DEF Claims
      <3>2. QED
        BY <1>2, <1>3, <2>5, <3>1 DEF Lock
    <2>6. CASE Publish(v)
      <3>1. [j EXCEPT !.at = "record", !.parent = Len(commits) + 1].new = j.new
        BY <2>1 DEF Claims
      <3>2. Retried(j).new = NoCommit
        BY <2>1 DEF Retried, Claims
      <3>3. ASSUME Retries(v) PROVE job'[w].new \in {job[w].new, NoCommit}
        BY <1>2, <1>3, <3>2, <3>3 DEF Retries, Retried
      <3>4. QED
        BY <1>2, <1>3, <2>6, <3>1, <3>3 DEF Publish
    <2>7. CASE Record(v) \/ Fail(v) \/ Crash(v)
      BY <1>1, <1>2, <1>3, <2>7 DEF Record, Fail, Crash
    <2>8. QED
      BY <1>4, <2>2, <2>3, <2>4, <2>5, <2>6, <2>7 DEF Work
  <1>5. CASE UNCHANGED job
    BY <1>5
  <1>6. QED
    BY <1>4, <1>5 DEF Next, CatalogueChanges, RequestSync, Disconnect, Connect, LeaseExpires, Arrives, IsLost,
       OwnerCommits, OwnerForces, PushStays

\* What is on its way was made by a worker.
LEMMA OnTheirWay ==
  ASSUME Next
  PROVE  wire' \subseteq Made
  <1>1. ASSUME NEW w \in Workers, Work(w) \/ Crash(w) PROVE wire' \subseteq Made
    BY <1>1 DEF Made, Work, Claim, Plan, Prepare, Lock, Publish, Record, Fail, Crash
  <1>2. CASE wire' \subseteq wire
    BY <1>2 DEF Made
  <1>3. QED
    BY <1>1, <1>2 DEF Next, CatalogueChanges, RequestSync, Disconnect, Connect, LeaseExpires, Arrives, IsLost,
       OwnerCommits, OwnerForces, PushStays

LEMMA PushesCounted ==
  ASSUME Next
  PROVE  Pushed \/ UNCHANGED pushes
  <1>1. ASSUME NEW w \in Workers, Work(w) \/ Crash(w) PROVE UNCHANGED pushes
    BY <1>1 DEF Work, Claim, Plan, Prepare, Lock, Publish, Record, Fail, Crash
  <1>2. QED
    BY <1>1 DEF Next, CatalogueChanges, RequestSync, Disconnect, Connect, LeaseExpires, Arrives, IsLost,
       OwnerCommits, OwnerForces

LEMMA OwnStep ==
  ASSUME MirrorInv, OwnKept, Next \/ UNCHANGED vars
  PROVE  OwnKept'
  <1>1. CASE Next
    <2>1. CommitsStay /\ Made \subseteq Rooted /\ NoCommit \in Rooted /\ KeepsOwn(NoCommit)
      <3>1. Len(commits) \in Nat
        BY DEF MirrorInv, MirrorTyped
      <3>2. QED
        BY <1>1, <3>1, NothingTyped, StepsAppend DEF MirrorInv, ParentsExist, Made, Rooted, KeepsOwn
    <2>2. \A c \in Made \union {NoCommit} : KeepsOwn(c)'
      BY <2>1, KeepsOwnStays DEF OwnKept
    <2>3. \A c \in wire' : KeepsOwn(c)'
      BY <1>1, <2>2, OnTheirWay
    <2>4. ASSUME NEW w \in Workers PROVE KeepsOwn(job[w].new)'
      <3>1. CASE job'[w].new \in {job[w].new, NoCommit}
        BY <2>2, <3>1 DEF KeepsOwn, Made
      <3>2. CASE Prepare(w)
        <4>1. KeepsOwn(job'[w].new) /\ UNCHANGED commits
          BY <3>2, PreparedKeepsOwn DEF Prepare
        <4>2. QED
          BY <4>1 DEF KeepsOwn, Held, History, HasParents
      <3>3. QED
        BY <1>1, <3>1, <3>2, NewCommits
    <2>5. pushes' \in Nat
      BY <1>1, PushesCounted DEF OwnKept, Pushed
    <2>6. QED
      BY <2>3, <2>4, <2>5 DEF OwnKept, Made
  <1>2. CASE UNCHANGED vars
    BY <1>2 DEF vars, OwnKept, Made, KeepsOwn, Held, History, HasParents
  <1>3. QED
    BY <1>1, <1>2

\* The mirror moves the branch only to a commit that one of its workers made.
LEMMA MirrorMoves ==
  ASSUME MirrorInv, OwnKept, Next, head' # head, UNCHANGED pushes
  PROVE  commits'[head'] \in Made
  <1>1. ASSUME NEW c \in Made, Moves(c) PROVE commits'[head'] \in Made
    BY <1>1, MovesAppend
  <1>2. ASSUME NEW w \in Workers, Work(w) \/ Crash(w) PROVE commits'[head'] \in Made
    <2>1. Publish(w) /\ Moves(job[w].new)
      BY <1>2 DEF Work, Claim, Plan, Prepare, Lock, Publish, Record, Fail, Crash
    <2>2. QED
      BY <1>1, <2>1 DEF Made
  <1>3. ASSUME NEW c \in wire, Arrives(c) \/ IsLost(c) PROVE commits'[head'] \in Made
    BY <1>1, <1>3 DEF Arrives, IsLost, Made
  <1>4. ~Pushed
    BY DEF Pushed, OwnKept
  <1>5. QED
    BY <1>2, <1>3, <1>4 DEF Next, CatalogueChanges, RequestSync, Disconnect, Connect, LeaseExpires, OwnerCommits, OwnerForces

\* GitHubSync, for every number of workers, of pushes and of mishaps: the commit that the
\* mirror makes on an owner's folder leaves the folder, whenever the commit lands, unless
\* the mirror had the skill in the history it is made on.
THEOREM OwnersKeepTheirFolders == SkillsSpec => OwnFoldersStay
  <1> DEFINE Own == MirrorInv /\ OwnKept
             Stays == head' # head /\ UNCHANGED pushes =>
                        LET on == commits'[head'].parent
                        IN  on # 0 /\ commits[on].folder = "own" /\ ~Held(on) => commits'[head'].folder = "own"
  <1>1. SkillsInit => Own
    <2> SUFFICES ASSUME SkillsInit PROVE Own
      OBVIOUS
    <2>1. Init /\ MirrorInv
      BY MirrorStarts DEF SkillsInit
    <2>2. wire = {} /\ \A w \in Workers : job[w].new = NoCommit
      BY <2>1 DEF Init, Idle
    <2>3. OwnKept
      BY <2>1, <2>2, NothingTyped DEF Init, OwnKept, Made, KeepsOwn
    <2>4. QED
      BY <2>1, <2>3
  <1>2. Own /\ [SkillsNext]_skills_vars => Own'
    BY MirrorStep, OwnStep DEF SkillsNext, skills_vars
  <1>3. Own /\ [SkillsNext]_skills_vars => [Stays]_vars
    <2> SUFFICES ASSUME Own, [SkillsNext]_skills_vars, ~UNCHANGED vars PROVE Stays
      OBVIOUS
    <2>1. Next
      BY DEF SkillsNext, skills_vars
    <2>2. head' # head /\ UNCHANGED pushes => KeepsOwn(commits'[head'])
      BY <2>1, MirrorMoves DEF OwnKept
    <2>3. QED
      BY <2>2 DEF KeepsOwn
  <1> HIDE DEF Own
  <1>4. QED
    BY <1>1, <1>2, <1>3, PTL DEF SkillsSpec, OwnFoldersStay
=============================================================================
