----------------------------- MODULE BoxProofs -----------------------------
(***************************************************************************)
(* Proofs about the modules of one Companion's Box: its lifecycle, the     *)
(* daemon that runs in it, and the journal that the daemon writes.         *)
(***************************************************************************)
EXTENDS MCCompanionBox, TLAPS, FiniteSetTheorems, WellFoundedInduction

(* Helpers: the least of finitely many numbers, and a name that is free.     *)

\* Min of finitely many naturals is the least of them: what lies below an element is a
\* smaller subset, and there is a smallest one.
LEMMA MinIsLeast ==
  ASSUME NEW S \in SUBSET Nat, IsFiniteSet(S), S # {}
  PROVE  Min(S) \in S /\ \A m \in S : Min(S) <= m
  <1> DEFINE Below(n) == {m \in S : m <= n}
             All == {Below(n) : n \in S}
  <1>1. IsWellFoundedOn(StrictSubsetOrdering(S), SUBSET S)
    BY FS_StrictSubsetOrderingWellFounded, FS_FiniteSubsetsOfFinite
  <1>2. PICK B \in All : \A C \in All : <<C, B>> \notin StrictSubsetOrdering(S)
    <2>1. All \subseteq SUBSET S /\ All # {}
      OBVIOUS
    <2> HIDE DEF All
    <2>2. QED
      BY <1>1, <2>1, WFMin
  <1>3. PICK n \in S : B = Below(n)
    OBVIOUS
  <1>4. ASSUME NEW m \in S, m < n PROVE FALSE
    <2>1. Below(m) \in All /\ Below(m) \in SUBSET S /\ B \in SUBSET S
      BY <1>3
    <2>2. Below(m) \subseteq B /\ n \in B /\ n \notin Below(m)
      <3>1. m \in Nat /\ n \in Nat /\ \A j \in S : j \in Nat /\ (j <= m => j <= n)
        BY <1>4
      <3>2. \A j : j \in B <=> j \in S /\ j <= n
        BY <1>3
      <3>3. \A j : j \in Below(m) <=> j \in S /\ j <= m
        OBVIOUS
      <3>4. n <= n /\ ~(n <= m)
        BY <1>4, <3>1
      <3> HIDE DEF Below
      <3>5. QED
        BY <3>1, <3>2, <3>3, <3>4
    <2>3. <<Below(m), B>> \in StrictSubsetOrdering(S)
      BY <2>1, <2>2 DEF StrictSubsetOrdering
    <2>4. QED
      BY <1>2, <2>1, <2>3
  <1>5. \A m \in S : n <= m
    BY <1>4
  <1>6. QED
    BY <1>5 DEF Min

\* Of the numbers up to one more than there are names, one is no name.
LEMMA FreeName ==
  ASSUME NEW names, IsFiniteSet(names)
  PROVE  A!Unused(names) \in Nat \ {0} /\ A!Unused(names) \notin names
  <1> DEFINE k == Cardinality(names)
             Free == {n \in 1..k + 1 : n \notin names}
  <1>1. k \in Nat
    BY FS_CardinalityType
  <1>2. Free # {}
    <2>1. SUFFICES ASSUME 1..k + 1 \subseteq names PROVE FALSE
      OBVIOUS
    <2> HIDE DEF k
    <2>2. Cardinality(1..k + 1) = k + 1
      <3>1. 1 \in Int /\ k + 1 \in Int /\ ~(1 > k + 1)
        BY <1>1
      <3>2. Cardinality(1..k + 1) = (k + 1) - 1 + 1
        BY <3>1, FS_Interval
      <3>3. QED
        BY <1>1, <3>2
    <2>3. Cardinality(1..k + 1) <= k
      BY <2>1, FS_Subset DEF k
    <2>4. QED
      BY <1>1, <2>2, <2>3
  <1>3. Min(Free) \in Free
    <2>1. IsFiniteSet(1..k + 1) /\ Free \subseteq 1..k + 1 /\ Free \subseteq Nat
      BY <1>1, FS_Interval
    <2>2. IsFiniteSet(Free)
      BY <2>1, FS_Subset
    <2> HIDE DEF Free
    <2>3. QED
      BY <1>2, <2>1, <2>2, MinIsLeast
  <1>4. A!Unused(names) = Min(Free)
    <2>1. A!Cardinality(names) = k
      BY DEF A!Cardinality, Cardinality
    <2>2. A!Unused(names) = A!Min(Free)
      BY <2>1 DEF A!Unused
    <2> HIDE DEF Free
    <2>3. QED
      BY <2>2 DEF A!Min, Min
  <1>5. QED
    BY <1>1, <1>3, <1>4
-----------------------------------------------------------------------------
(* The lifecycle. *)

BoxStates == {"none", "booting", "ready", "archiving", "archived", "deleting", "gone"}

States == BoxStates \cup {"unknown", "absent"}
Checkpoints == {"none", "pending", "resolving_box", "box_absence_observed", "box_resolved", "creating_box", "box_created",
                "waiting_ready", "box_ready_observed", "stopping_pi", "provider_stop_requested", "waiting_archived",
                "box_archived", "skills_updated", "restarting_box", "provider_delete_requested", "waiting_deleted",
                "box_absent", "provider_deleted"}
Sources == {"none", "look", "created", "absent", "name", "resume", "stop"}
Operations == [kind : Kinds \cup {"none"}, cp : Checkpoints]
Replies == [of : Sources, box : 0..MaxBoxes, state : States]
Instances == [box : 0..MaxBoxes, state : States, retire : {"active", "requested", "retired"}]

\* A Box that cannot be back: there is none, or the provider has ended it.
Gone(b) == b = NoBox \/ (b \in Boxes /\ boxes[b] = "gone")
WorkTyped == /\ op \in Operations /\ held \in BOOLEAN /\ posts \in Nat
             /\ ans \in Replies
             /\ ans.box # NoBox => boxes[ans.box] # "none"
BoxTyped == /\ inst \in Instances
            /\ inst.box # NoBox => boxes[inst.box] # "none"
            /\ boxes \in [Boxes -> BoxStates] /\ named \subseteq Boxes

\* What carries the name, or is about to get it, is the recorded Box or cannot be back.
Known == /\ \A b \in named : b = inst.box \/ Gone(b)
         /\ \A c \in late : c.what = "name" => c.box = inst.box \/ Gone(c.box)

\* An answer is in the hands of the lease's holder; to a Delete absence is for good.
Answered == /\ ~held => ans = NoAnswer
            /\ At("delete", "waiting_deleted") /\ ans # NoAnswer => ans.state = "absent"
            /\ op.kind = "delete" /\ ans.state = "absent" => Gone(inst.box) /\ ans.box = NoBox
Deleted == op.kind = "delete" /\ op.cp \in {"box_absent", "provider_deleted"} => Gone(inst.box) /\ ans = NoAnswer

\* A Start posts at creating_box only, and does not come back to it.
BeforeCreate == {"pending", "resolving_box", "box_absence_observed"}
Posted == /\ posts <= 1
          /\ op.kind = "start" /\ op.cp \in BeforeCreate => posts = 0
          /\ Creating /\ held /\ ans = NoAnswer => posts = 0

LifeInv == WorkTyped /\ BoxTyped /\ Known /\ Answered /\ Deleted /\ Posted

\* What is left of a Box at the provider is left, and what it ended stays ended.
BoxesMove == /\ boxes' \in [Boxes -> BoxStates]
             /\ \A b \in Boxes : /\ boxes[b] = "gone" => boxes'[b] = "gone"
                                 /\ boxes[b] # "none" => boxes'[b] # "none"
\* The world of a step that leaves the recorded Box: nothing but it may get the name.
WorldMoves == /\ BoxesMove /\ named' \subseteq Boxes /\ named' \subseteq named \cup {inst.box}
              /\ \A c \in late' : c \in late \/ c.box = inst.box
              /\ inst' \in Instances /\ inst'.box = inst.box

\* The values of an executor at rest are of their types.
LEMMA RestsTyped ==
  /\ NoOp \in Operations /\ NoAnswer \in Replies /\ 0 \in 0..MaxBoxes
  /\ NoAnswer.box = NoBox /\ NoAnswer.state = "none" /\ NoOp.kind = "none" /\ NoOp.cp = "none"
  BY BoxAssumption DEF NoOp, NoAnswer, NoBox, Operations, Replies, Kinds, Checkpoints, Sources, States,
     BoxStates

LEMMA LifeStarts == Init => LifeInv
  <1> SUFFICES ASSUME Init PROVE LifeInv
    OBVIOUS
  <1>1. /\ op = NoOp /\ held = FALSE /\ ans = NoAnswer /\ posts = 0 /\ late = {} /\ named = {}
        /\ inst = [box |-> 0, state |-> "unknown", retire |-> "active"]
    BY DEF Init, NoBox
  <1>2. WorkTyped
    BY <1>1, RestsTyped DEF WorkTyped
  <1>3. BoxTyped
    BY <1>1, RestsTyped DEF BoxTyped, NoBox, Init, BoxStates, Instances, States
  <1>4. Known /\ Answered /\ Deleted /\ Posted
    BY <1>1, RestsTyped DEF Known, Answered, Deleted, Posted, NoBox, Creating, At
  <1>5. QED
    BY <1>2, <1>3, <1>4 DEF LifeInv

\* What the other actors change keeps the types of the Boxes.
LEMMA WorldKeeps == ASSUME LifeInv, WorldMoves PROVE BoxTyped' /\ Known'
  <1>1. inst.box \in 0..MaxBoxes /\ \A b \in 0..MaxBoxes : b # NoBox => b \in Boxes
    BY BoxAssumption DEF LifeInv, BoxTyped, Instances, Boxes, NoBox
  <1>2. BoxTyped'
    BY <1>1 DEF LifeInv, BoxTyped, WorldMoves, BoxesMove
  <1>3. ASSUME NEW b \in Boxes, boxes[b] = "gone" PROVE boxes'[b] = "gone"
    BY <1>3 DEF WorldMoves, BoxesMove
  <1>4. \A b \in named' : b = inst'.box \/ Gone(b)'
    BY <1>3 DEF LifeInv, Known, BoxTyped, WorldMoves, Gone
  <1>5. ASSUME NEW c \in late', c.what = "name" PROVE c.box = inst'.box \/ Gone(c.box)'
    BY <1>3, <1>5 DEF LifeInv, Known, BoxTyped, WorldMoves, Gone
  <1>6. QED
    BY <1>2, <1>4, <1>5 DEF Known

\* The world stands still, or the provider alone moves.
LEMMA WorldRests ==
  ASSUME LifeInv, UNCHANGED <<boxes, named>>, late' \subseteq late, inst' = inst
  PROVE  WorldMoves
  BY DEF LifeInv, BoxTyped, WorldMoves, BoxesMove

\* How the work of a step goes on: it ends, is given up, moves its checkpoint or has an answer.
WorkHolds == WorkTyped /\ Answered /\ Deleted /\ Posted

LEMMA WorkEnds ==
  ASSUME LifeInv, Ends, posts' \in {0, 1} PROVE WorkHolds'
  <1>1. op' = NoOp /\ held' = FALSE /\ ans' = NoAnswer
    BY DEF Ends
  <1>2. WorkTyped'
    <2>1. op' \in Operations /\ ans' \in Replies /\ ans'.box = NoBox
      BY <1>1, RestsTyped
    <2>2. posts' \in Nat
      OBVIOUS
    <2>3. QED
      BY <1>1, <2>1, <2>2 DEF WorkTyped
  <1>3. Answered' /\ Deleted' /\ Posted'
    BY <1>1, RestsTyped DEF Answered, Deleted, Posted, Creating, At
  <1>4. QED
    BY <1>2, <1>3 DEF WorkHolds

LEMMA GoneStays ==
  ASSUME LifeInv, BoxesMove, NEW b, Gone(b) PROVE b = NoBox \/ (b \in Boxes /\ boxes'[b] = "gone")
  BY DEF Gone, BoxesMove

\* Posts stay, but for the one of a create.
LEMMA WorkAbandoned ==
  ASSUME LifeInv, Abandons, WorldMoves, posts' = posts \/ (Creating /\ ans = NoAnswer /\ held /\ posts' = 1) PROVE WorkHolds'
  <1>1. op' = op /\ held' = FALSE /\ ans' = NoAnswer /\ inst'.box = inst.box /\ BoxesMove
    BY DEF Abandons, WorldMoves
  <1>2. NoAnswer \in Replies /\ NoAnswer.box = NoBox /\ NoAnswer.state # "absent"
    BY RestsTyped
  <1>3. WorkTyped'
    <2>1. ans' \in Replies /\ ans'.box = NoBox
      BY <1>1, <1>2
    <2>2. op' \in Operations
      BY <1>1 DEF LifeInv, WorkTyped
    <2>3. posts' \in Nat
      BY DEF LifeInv, WorkTyped
    <2>4. QED
      BY <1>1, <2>1, <2>2, <2>3 DEF WorkTyped
  <1>4. Answered'
    BY <1>1, <1>2 DEF Answered, At
  <1>5. Deleted'
    BY <1>1, GoneStays DEF Deleted, LifeInv, Gone
  <1>6. Posted'
    BY <1>1 DEF Posted, LifeInv, Creating, At, BeforeCreate
  <1>7. QED
    BY <1>3, <1>4, <1>5, <1>6 DEF WorkHolds

LEMMA WorkGoes ==
  ASSUME LifeInv, NEW cp \in Checkpoints, Goes(cp), posts' = posts, inst'.box \in 0..MaxBoxes,
         op.kind = "delete" /\ cp \in {"box_absent", "provider_deleted"} => Gone(inst.box)',
         op.kind = "start" /\ cp \in BeforeCreate \cup {"creating_box"} => posts = 0
  PROVE  WorkHolds'
  <1>1. op' = [op EXCEPT !.cp = cp] /\ held' = held /\ ans' = NoAnswer
    BY DEF Goes
  <1>2. op \in Operations /\ held \in BOOLEAN /\ posts \in Nat /\ posts <= 1
    BY DEF LifeInv, WorkTyped, Posted
  <1>3. op' \in Operations /\ op'.kind = op.kind /\ op'.cp = cp
    BY <1>1, <1>2 DEF Operations
  <1>4. NoAnswer \in Replies /\ NoAnswer.box = NoBox /\ NoAnswer.state # "absent"
    BY RestsTyped
  <1>5. WorkTyped'
    BY <1>1, <1>2, <1>3, <1>4 DEF WorkTyped
  <1>6. Answered'
    BY <1>1, <1>4 DEF Answered, At
  <1>7. Deleted' /\ Posted'
    BY <1>1, <1>2, <1>3 DEF Deleted, Posted, Creating, At
  <1>8. QED
    BY <1>5, <1>6, <1>7 DEF WorkHolds

LEMMA WorkAnswered ==
  ASSUME LifeInv, WorldMoves, held, NEW of \in Sources, NEW b \in 0..MaxBoxes, NEW s \in States, Answers(of, b, s),
         of # "none", posts' \in {0, 1}, posts' = posts \/ Creating, b # NoBox => boxes'[b] # "none",
         At("delete", "waiting_deleted") => s = "absent",
         op.kind = "delete" => op.cp \notin {"box_absent", "provider_deleted"},
         op.kind = "delete" /\ s = "absent" => Gone(inst.box) /\ b = NoBox
  PROVE  WorkHolds'
  <1>1. op' = op /\ held' = held /\ ans' = [of |-> of, box |-> b, state |-> s] /\ inst'.box = inst.box /\ BoxesMove
    BY DEF Answers, WorldMoves
  <1>2. WorkTyped'
    BY <1>1 DEF WorkTyped, LifeInv, Replies, Posted
  <1>3. Answered'
    BY <1>1, GoneStays DEF Answered, At, Gone
  <1>4. Deleted'
    BY <1>1 DEF Deleted
  <1>5. ans' # NoAnswer
    BY <1>1 DEF NoAnswer
  <1>6. Posted'
    BY <1>1, <1>5 DEF Posted, LifeInv, Creating, At, BeforeCreate
  <1>7. QED
    BY <1>2, <1>3, <1>4, <1>6 DEF WorkHolds

LEMMA LifeHolds == ASSUME LifeInv, WorldMoves, WorkHolds' PROVE LifeInv'
  BY WorldKeeps DEF LifeInv, WorkHolds
-----------------------------------------------------------------------------
(* One lemma for each action of BoxLifecycle. *)

\* What is known of a Box id on record, and of a Box the provider lists.
LEMMA RecordedBox ==
  ASSUME LifeInv
  PROVE  /\ inst.box \in 0..MaxBoxes /\ (inst.box # NoBox => inst.box \in Boxes /\ boxes[inst.box] # "none")
         /\ ~Exists(inst.box) => Gone(inst.box)
         /\ \A b : Exists(b) => ~Gone(b) /\ b # NoBox
  BY BoxAssumption DEF LifeInv, BoxTyped, Instances, Boxes, NoBox, Exists, Gone

\* The Box a listing finds is one of the list.
LEMMA CanonicalIsListed ==
  ASSUME LifeInv
  PROVE  Listed \subseteq {inst.box} /\ Listed \subseteq Boxes /\ (Listed # {} => Canonical \in Listed)
  <1>1. Listed \subseteq {inst.box}
    BY RecordedBox DEF Listed, LifeInv, Known
  <1>2. Listed \subseteq Boxes
    BY DEF Listed, LifeInv, BoxTyped
  <1>3. ASSUME Listed # {} PROVE Canonical \in Listed
    <2>1. IsFiniteSet(Boxes) /\ Boxes \subseteq Nat
      BY BoxAssumption, FS_Interval DEF Boxes
    <2>2. IsFiniteSet(Listed) /\ Listed \in SUBSET Nat
      BY <1>2, <2>1, FS_Subset
    <2>3. Min(Listed) \in Listed
      BY <1>3, <2>2, MinIsLeast
    <2>4. QED
      BY <1>3, <2>3 DEF Canonical
  <1>4. QED
    BY <1>1, <1>2, <1>3

\* The identifier of a new Box names no other one.
LEMMA FreshBox ==
  ASSUME LifeInv, Fresh # {}
  PROVE  Min(Fresh) \in Boxes /\ boxes[Min(Fresh)] = "none"
  <1>1. IsFiniteSet(Boxes) /\ Boxes \subseteq Nat
    BY BoxAssumption, FS_Interval DEF Boxes
  <1>2. Fresh \subseteq Boxes
    BY DEF Fresh
  <1>3. IsFiniteSet(Fresh) /\ Fresh \in SUBSET Nat
    BY <1>1, <1>2, FS_Subset
  <1>4. Min(Fresh) \in Fresh
    BY <1>3, MinIsLeast
  <1>5. QED
    BY <1>4 DEF Fresh

\* A Box that exists never comes back from where it is gone.
LEMMA BecomesMoves ==
  ASSUME LifeInv, NEW b, NEW from, NEW to \in BoxStates \ {"none"}, "gone" \notin from, Becomes(b, from, to)
  PROVE  BoxesMove
  <1>1. boxes \in [Boxes -> BoxStates]
    BY DEF LifeInv, BoxTyped
  <1>2. QED
    BY <1>1 DEF Becomes, BoxesMove

\* A call moves one Box forward, and names none but the recorded one.
LEMMA EffectMoves ==
  ASSUME LifeInv, NEW what, NEW b, Effect(what, b), what = "name" => b = inst.box \/ Gone(b),
         late' \subseteq late, inst' = inst
  PROVE  WorldMoves
  <1>1. BoxesMove
    <2>1. boxes \in [Boxes -> BoxStates]
      BY DEF LifeInv, BoxTyped
    <2>2. {"booting", "archiving", "deleting"} \subseteq BoxStates \ {"none"}
      BY DEF BoxStates
    <2>3. CASE what = "create"
      BY <2>2, <2>3, BecomesMoves DEF Effect
    <2>4. CASE what = "resume"
      BY <2>2, <2>4, BecomesMoves DEF Effect
    <2>5. CASE what = "stop"
      BY <2>2, <2>5, BecomesMoves DEF Effect
    <2>6. CASE what = "delete"
      BY <2>2, <2>6, BecomesMoves DEF Effect
    <2>7. CASE what \notin {"create", "resume", "stop", "delete"}
      BY <2>1, <2>7 DEF Effect, BoxesMove
    <2>8. QED
      BY <2>3, <2>4, <2>5, <2>6, <2>7
  <1>2. Named(what, b) \subseteq {inst.box} /\ Named(what, b) \subseteq Boxes
    BY RecordedBox DEF Named
  <1>3. named' = named \cup Named(what, b)
    BY DEF Effect
  <1>4. QED
    BY <1>1, <1>2, <1>3 DEF WorldMoves, LifeInv, BoxTyped

\* A step of the work alone.
LEMMA WorkAlone ==
  ASSUME LifeInv, UNCHANGED <<late, inst, provider>>, WorkHolds' PROVE LifeInv'
  BY WorldRests, LifeHolds DEF provider

\* The actions of the executor and of the provider, one lemma each, keep the invariant.
LEMMA HoldsAdvance == ASSUME LifeInv, Advance PROVE LifeInv'
  <1>1. UNCHANGED <<late, inst, provider, posts>> /\ Executes
    BY DEF Advance, record, history
  <1>2. inst'.box \in 0..MaxBoxes
    BY <1>1, RecordedBox
  <1>3. ASSUME NEW cp, <<op.kind, op.cp, cp>> \in Follows, Goes(cp) PROVE WorkHolds'
    <2>1. cp \in Checkpoints /\ cp \notin {"box_absent", "provider_deleted", "creating_box"}
      BY <1>3 DEF Follows, Checkpoints
    <2>2. op.kind = "start" => op.cp = "pending"
      BY <1>3 DEF Follows
    <2>3. op.kind = "start" => posts = 0
      BY <2>2 DEF LifeInv, Posted, BeforeCreate
    <2>4. QED
      BY <1>1, <1>2, <1>3, <2>1, <2>3, WorkGoes
  <1>4. ASSUME At("restart_box", "pending"), Goes("skills_updated") PROVE WorkHolds'
    <2>1. "skills_updated" \in Checkpoints /\ op.kind = "restart_box"
      BY <1>4 DEF Checkpoints, At
    <2>2. QED
      BY <1>1, <1>2, <1>4, <2>1, WorkGoes
  <1>5. WorkHolds'
    BY <1>3, <1>4 DEF Advance
  <1>6. QED
    BY <1>1, <1>5, WorkAlone

\* At most one create is counted.
LEMMA PostsBit == ASSUME LifeInv PROVE posts \in {0, 1}
  BY DEF LifeInv, WorkTyped, Posted

LEMMA HoldsFails ==
  ASSUME LifeInv, NEW code, Fails(code), UNCHANGED <<late, inst, provider>> PROVE LifeInv'
  <1>1. Ends /\ posts' \in {0, 1}
    BY PostsBit DEF Fails
  <1>2. QED
    BY <1>1, WorkEnds, WorkAlone

LEMMA HoldsGivesUp == ASSUME LifeInv, GivesUp \/ Cannot PROVE LifeInv'
  BY HoldsFails DEF GivesUp, Cannot, record

LEMMA HoldsSucceeds == ASSUME LifeInv, Succeeds PROVE LifeInv'
  <1>1. Ends /\ posts' \in {0, 1} /\ UNCHANGED <<late, provider>>
    BY PostsBit DEF Succeeds, history
  <1>2. CASE UNCHANGED inst
    BY <1>1, <1>2, WorkEnds, WorkAlone
  <1>3. CASE /\ op.kind = "delete" /\ op.cp \in {"box_absent", "provider_deleted"}
             /\ inst' = [box |-> NoBox, state |-> "absent", retire |-> "retired"]
    <2>1. Gone(inst.box)
      BY <1>3 DEF LifeInv, Deleted
    <2>2. inst' \in Instances /\ inst'.box = NoBox
      BY <1>3, BoxAssumption DEF Instances, States, NoBox
    <2>3. BoxTyped'
      BY <1>1, <2>2 DEF BoxTyped, LifeInv, provider
    <2>4. Known'
      BY <1>1, <2>1, <2>2 DEF Known, LifeInv, provider, Gone
    <2>5. WorkHolds'
      BY <1>1, WorkEnds
    <2>6. QED
      BY <2>3, <2>4, <2>5 DEF LifeInv, WorkHolds
  <1>4. QED
    BY <1>2, <1>3 DEF Succeeds

LEMMA HoldsLook == ASSUME LifeInv, Look PROVE LifeInv'
  <1>1. UNCHANGED <<late, inst, provider>> /\ Executes /\ Looks
    BY DEF Look, record
  <1>2. CASE Fails("box_identity_conflict")
    BY <1>1, <1>2, HoldsFails
  <1>3. CASE /\ ~(At("delete", "box_absence_observed") /\ inst.box # NoBox /\ inst.box \notin Listed)
             /\ Answers("look", IF Exists(Found) THEN Found ELSE NoBox, Status(Found)) /\ UNCHANGED history
    <2> DEFINE b == IF Exists(Found) THEN Found ELSE NoBox
               s == Status(Found)
    <2>1. Found = NoBox \/ Found \in Boxes
      BY RecordedBox, CanonicalIsListed DEF Found, Canonical
    <2>2. b \in 0..MaxBoxes /\ (b # NoBox => boxes[b] # "none")
      BY <2>1, BoxAssumption DEF Boxes, NoBox, Exists
    <2>3. s \in States
      BY <2>1 DEF Status, Exists, States, LifeInv, BoxTyped
    <2>4. ~At("delete", "waiting_deleted") /\ (op.kind = "delete" => op.cp \notin {"box_absent", "provider_deleted"})
      BY <1>1 DEF Looks, At
    <2>5. ASSUME op.kind = "delete", s = "absent" PROVE Gone(inst.box) /\ b = NoBox
      <3>1. ~Exists(Found) /\ b = NoBox
        BY <2>1, <2>5 DEF Status, Exists, LifeInv, BoxTyped, BoxStates
      <3>2. ~Exists(inst.box)
        BY <3>1, <2>5 DEF Found
      <3>3. QED
        BY <3>1, <3>2, RecordedBox
    <2>6. WorldMoves /\ held /\ "look" \in Sources /\ posts' = posts /\ posts' \in {0, 1} /\ boxes' = boxes
      BY <1>1, <1>3, WorldRests, PostsBit DEF provider, history, Executes, Sources
    <2> HIDE DEF b, s
    <2>7. Answers("look", b, s)
      BY <1>3 DEF b, s
    <2>8. WorkHolds'
      BY <2>2, <2>3, <2>4, <2>5, <2>6, <2>7, WorkAnswered
    <2>9. QED
      BY <1>1, <2>8, WorkAlone
  <1>4. QED
    BY <1>2, <1>3 DEF Look

LEMMA HoldsObserve == ASSUME LifeInv, Observe PROVE LifeInv'
  <1>1. UNCHANGED <<late, provider>> /\ held /\ ans.of \in {"look", "created", "absent"} /\ ans # NoAnswer
    BY DEF Observe, NoAnswer
  <1>2. CASE TooEarly
    <2>1. Abandons /\ UNCHANGED <<inst, posts>>
      BY <1>2 DEF Observe, record, history
    <2>2. WorldMoves
      BY <1>1, <2>1, WorldRests DEF provider
    <2>3. QED
      BY <2>1, <2>2, WorkAbandoned, LifeHolds
  <1>3. CASE ~TooEarly
    <2>1. inst' = [inst EXCEPT !.box = Attached, !.state = ans.state]
      BY <1>3 DEF Observe
    <2>2. ans.box \in 0..MaxBoxes /\ ans.state \in States /\ (ans.box # NoBox => boxes[ans.box] # "none")
      BY DEF LifeInv, WorkTyped, Replies
    <2>3. Attached \in 0..MaxBoxes /\ (Attached # NoBox => boxes[Attached] # "none")
      BY <2>2, RecordedBox DEF Attached
    <2>4. inst' \in Instances /\ inst'.box = Attached
      BY <2>1, <2>2, <2>3 DEF LifeInv, BoxTyped, Instances
    <2>5. BoxTyped'
      BY <1>1, <2>3, <2>4 DEF BoxTyped, LifeInv, provider
    <2>6. Known'
      BY <1>1, <2>4 DEF Known, LifeInv, provider, Gone, Attached
    <2>7. CASE Hopeless
      <3>1. Ends /\ posts' \in {0, 1}
        BY <1>3, <2>7, PostsBit DEF Observe, Fails
      <3>2. QED
        BY <2>5, <2>6, <3>1, WorkEnds DEF LifeInv, WorkHolds
    <2>8. CASE ~Hopeless
      <3>1. Goes(Proves) /\ posts' = posts
        BY <1>3, <2>8 DEF Observe, history
      <3>2. Proves \in Checkpoints
        BY DEF Proves, Checkpoints, LifeInv, WorkTyped, Operations
      <3>3. ASSUME op.kind = "delete", Proves \in {"box_absent", "provider_deleted"} PROVE Gone(inst.box)'
        <4>1. ans.state = "absent"
          BY <1>1, <3>3 DEF Proves, At, LifeInv, Answered, Deleted
        <4>2. Gone(inst.box) /\ ans.box = NoBox
          BY <3>3, <4>1 DEF LifeInv, Answered
        <4>3. QED
          BY <1>1, <2>4, <4>2 DEF Gone, Attached, provider
      <3>4. ASSUME op.kind = "start", Proves \in BeforeCreate \cup {"creating_box"} PROVE posts = 0
        BY <3>4 DEF Proves, BeforeCreate, At, LifeInv, Posted
      <3>5. WorkHolds'
        BY <2>3, <2>4, <3>1, <3>2, <3>3, <3>4, WorkGoes
      <3>6. QED
        BY <2>5, <2>6, <3>5 DEF LifeInv, WorkHolds
    <2>9. QED
      BY <2>7, <2>8
  <1>4. QED
    BY <1>2, <1>3

LEMMA HoldsCall == ASSUME LifeInv, Call PROVE LifeInv'
  <1>1. held /\ UNCHANGED <<late, inst>>
    BY DEF Call, record
  <1>2. PICK what \in Calls :
          /\ Effect(what, inst.box)
          /\ posts' = IF what = "create" THEN posts + 1 ELSE posts
          /\ \/ what = "create" /\ Answers("created", Min(Fresh), "unknown")
             \/ what = "delete" /\ ~Exists(inst.box) /\ Answers("absent", NoBox, "absent")
             \/ what = "delete" /\ Exists(inst.box) /\ Goes("provider_delete_requested")
             \/ what \in {"name", "resume", "stop"} /\ Exists(inst.box) /\ Answers(what, inst.box, "none")
    BY DEF Call
  <1>3. WorldMoves
    BY <1>1, <1>2, EffectMoves
  <1>4. ans = NoAnswer
    BY <1>2 DEF Calls
  <1>5. /\ what = "create" => Creating
        /\ what = "delete" => At("delete", "pending")
        /\ what \in {"name", "resume", "stop"} => op.kind # "delete"
    BY <1>2, <1>4 DEF Calls, Creating, At
  <1>6. Creating \/ what # "create" => posts' \in {0, 1} /\ (posts' = posts \/ Creating)
    BY <1>1, <1>2, <1>4, <1>5, PostsBit DEF LifeInv, Posted
  <1>7. {"created", "absent", "name", "resume", "stop"} \subseteq Sources \ {"none"} /\ {"unknown", "absent", "none"} \subseteq States
    BY DEF Sources, States, BoxStates
  <1>8. op.kind = "delete" => op.cp \notin {"box_absent", "provider_deleted"} /\ ~At("delete", "waiting_deleted")
    BY <1>2, <1>4 DEF Calls, At
  <1>9. CASE what = "create" /\ Answers("created", Min(Fresh), "unknown")
    <2>1. Fresh # {} /\ Becomes(Min(Fresh), {"none"}, "booting")
      BY <1>2, <1>9 DEF Effect
    <2>2. Min(Fresh) \in Boxes /\ boxes[Min(Fresh)] = "none"
      BY <2>1, FreshBox
    <2> DEFINE b == Min(Fresh)
    <2>3. b \in 0..MaxBoxes /\ boxes'[b] # "none"
      <3>1. boxes'[b] = "booting"
        BY <2>1, <2>2 DEF Becomes, LifeInv, BoxTyped
      <3>2. b \in 0..MaxBoxes
        BY <2>2, BoxAssumption DEF Boxes
      <3>3. QED
        BY <3>1, <3>2
    <2>4. op.kind # "delete"
      BY <1>5, <1>9 DEF Creating, At
    <2>5. Answers("created", b, "unknown") /\ ~At("delete", "waiting_deleted")
      BY <1>9, <2>4 DEF At
    <2> HIDE DEF b
    <2>6. "created" \in Sources /\ "created" # "none" /\ "unknown" \in States
      BY <1>7
    <2>7. posts' \in {0, 1} /\ (posts' = posts \/ Creating)
      BY <1>5, <1>6, <1>9
    <2>8. WorkHolds'
      BY <1>1, <1>3, <2>3, <2>4, <2>5, <2>6, <2>7, WorkAnswered
    <2>9. QED
      BY <1>3, <2>8, LifeHolds
  <1>10. CASE what = "delete" /\ ~Exists(inst.box) /\ Answers("absent", NoBox, "absent")
    <2>1. Gone(inst.box) /\ NoBox \in 0..MaxBoxes
      BY <1>10, RecordedBox, BoxAssumption DEF NoBox
    <2>2. "absent" \in Sources /\ "absent" # "none" /\ "absent" \in States
      BY <1>7
    <2>3. posts' \in {0, 1} /\ (posts' = posts \/ Creating)
      BY <1>6, <1>10
    <2>4. WorkHolds'
      BY <1>1, <1>3, <1>8, <1>10, <2>1, <2>2, <2>3, WorkAnswered
    <2>5. QED
      BY <1>3, <2>4, LifeHolds
  <1>11. CASE what = "delete" /\ Exists(inst.box) /\ Goes("provider_delete_requested")
    <2>1. op.kind = "delete" /\ posts' = posts /\ inst'.box \in 0..MaxBoxes
      BY <1>1, <1>2, <1>5, <1>11, RecordedBox DEF At
    <2>2. "provider_delete_requested" \in Checkpoints
      BY DEF Checkpoints
    <2>3. WorkHolds'
      BY <1>11, <2>1, <2>2, WorkGoes
    <2>4. QED
      BY <1>3, <2>3, LifeHolds
  <1>12. CASE what \in {"name", "resume", "stop"} /\ Exists(inst.box) /\ Answers(what, inst.box, "none")
    <2>1. inst.box \in 0..MaxBoxes /\ inst.box \in Boxes /\ boxes'[inst.box] # "none"
      BY <1>3, <1>12, RecordedBox DEF WorldMoves, BoxesMove
    <2>2. what \in Sources /\ what # "none" /\ "none" \in States /\ "none" # "absent"
      BY <1>7, <1>12
    <2>3. posts' \in {0, 1} /\ (posts' = posts \/ Creating)
      BY <1>6, <1>12
    <2>4. op.kind # "delete" /\ ~At("delete", "waiting_deleted")
      BY <1>5, <1>12 DEF At
    <2>5. WorkHolds'
      BY <1>1, <1>3, <1>12, <2>1, <2>2, <2>3, <2>4, WorkAnswered
    <2>6. QED
      BY <1>3, <2>5, LifeHolds
  <1>13. QED
    BY <1>2, <1>9, <1>10, <1>11, <1>12

LEMMA HoldsCreateUnanswered == ASSUME LifeInv, CreateUnanswered PROVE LifeInv'
  <1>1. held /\ "create" \in Calls /\ posts' = posts + 1 /\ Ends /\ UNCHANGED <<inst, late>>
    BY DEF CreateUnanswered
  <1>2. Creating /\ ans = NoAnswer
    BY <1>1 DEF Calls, Creating, At
  <1>3. posts' \in {0, 1}
    BY <1>1, <1>2 DEF LifeInv, Posted
  <1>4. CASE Effect("create", NoBox)
    BY <1>1, <1>3, <1>4, EffectMoves, WorkEnds, LifeHolds
  <1>5. CASE UNCHANGED provider
    BY <1>1, <1>3, <1>5, WorkEnds, WorkAlone
  <1>6. QED
    BY <1>4, <1>5 DEF CreateUnanswered

LEMMA HoldsProceeds == ASSUME LifeInv, Proceeds PROVE LifeInv'
  <1>1. UNCHANGED <<late, inst, provider, posts>>
    BY DEF Proceeds, record, history
  <1>2. PICK cp \in {"waiting_ready", "waiting_archived"} : Goes(cp)
    BY DEF Proceeds
  <1>3. cp \in Checkpoints /\ cp \notin {"box_absent", "provider_deleted", "creating_box"} \cup BeforeCreate
    BY DEF Checkpoints, BeforeCreate
  <1>4. WorkHolds'
    BY <1>1, <1>2, <1>3, RecordedBox, WorkGoes
  <1>5. QED
    BY <1>1, <1>4, WorkAlone

LEMMA HoldsResume == ASSUME LifeInv, Resume PROVE LifeInv'
  <1>1. held /\ op.kind = "restart_box" /\ boxes[inst.box] = "archived" /\ Effect("resume", inst.box)
        /\ Answers("resume", inst.box, "none") /\ UNCHANGED <<posts, late, inst>>
    BY DEF Resume, At, record
  <1>2. ans # NoAnswer /\ ans.of = "stop"
    BY DEF Resume, NoAnswer
  <1>3. WorldMoves
    BY <1>1, EffectMoves
  <1>4. inst.box \in 0..MaxBoxes /\ (inst.box # NoBox => boxes'[inst.box] # "none")
    BY <1>3, RecordedBox DEF WorldMoves, BoxesMove
  <1>5. "resume" \in Sources /\ "resume" # "none" /\ "none" \in States /\ "none" # "absent"
    BY DEF Sources, States, BoxStates
  <1>6. posts' \in {0, 1} /\ posts' = posts /\ op.kind # "delete" /\ ~At("delete", "waiting_deleted")
    BY <1>1, PostsBit DEF At
  <1>7. WorkHolds'
    BY <1>1, <1>3, <1>4, <1>5, <1>6, WorkAnswered
  <1>8. QED
    BY <1>3, <1>7, LifeHolds

LEMMA HoldsBeginCreate == ASSUME LifeInv, BeginCreate PROVE LifeInv'
  <1>1. UNCHANGED <<late, inst, provider>> /\ At("start", "box_absence_observed")
    BY DEF BeginCreate, record
  <1>2. CASE Goes("creating_box") /\ UNCHANGED history
    <2>1. posts = 0 /\ posts' = posts /\ op.kind = "start" /\ inst'.box \in 0..MaxBoxes
      BY <1>1, <1>2, RecordedBox DEF At, LifeInv, Posted, BeforeCreate, history
    <2>2. "creating_box" \in Checkpoints
      BY DEF Checkpoints
    <2>3. QED
      BY <1>1, <1>2, <2>1, <2>2, WorkGoes, WorkAlone
  <1>3. CASE Fails("refused")
    BY <1>1, <1>3, HoldsFails
  <1>4. QED
    BY <1>2, <1>3 DEF BeginCreate

LEMMA HoldsPollDelete == ASSUME LifeInv, PollDelete PROVE LifeInv'
  <1>1. UNCHANGED <<late, inst, provider, posts>> /\ At("delete", "waiting_deleted") /\ held
    BY DEF PollDelete, record, history, Executes
  <1>2. WorldMoves
    BY <1>1, WorldRests DEF provider
  <1>3. CASE Abandons
    BY <1>1, <1>2, <1>3, WorkAbandoned, LifeHolds
  <1>4. CASE ~Exists(inst.box) /\ Answers("look", NoBox, "absent")
    <2>1. Gone(inst.box) /\ NoBox \in 0..MaxBoxes /\ "look" \in Sources /\ "look" # "none" /\ "absent" \in States
      BY <1>4, RecordedBox, BoxAssumption DEF NoBox, Sources, States
    <2>2. op.kind = "delete" /\ op.cp = "waiting_deleted" /\ posts' \in {0, 1}
      BY <1>1, PostsBit DEF At
    <2>3. WorkHolds'
      BY <1>1, <1>2, <1>4, <2>1, <2>2, WorkAnswered
    <2>4. QED
      BY <1>2, <2>3, LifeHolds
  <1>5. QED
    BY <1>3, <1>4 DEF PollDelete

LEMMA HoldsAsk == ASSUME LifeInv, Ask PROVE LifeInv'
  <1>1. UNCHANGED <<op, held, ans, late, posts, provider>>
    BY DEF Ask, history
  <1>2. inst' \in Instances /\ inst'.box = inst.box
    BY DEF Ask, LifeInv, BoxTyped, Instances
  <1>3. WorldMoves
    BY <1>1, <1>2 DEF LifeInv, BoxTyped, WorldMoves, BoxesMove, provider
  <1>4. WorkHolds'
    BY <1>1, <1>2 DEF LifeInv, WorkHolds, WorkTyped, Answered, Deleted, Posted, Gone, provider, Creating, At
  <1>5. QED
    BY <1>3, <1>4, LifeHolds

LEMMA HoldsClaim == ASSUME LifeInv, asked \subseteq Kinds, Claim PROVE LifeInv'
  <1>1. ~held /\ UNCHANGED <<ans, inst, late, provider>> /\ held' = TRUE
    BY DEF Claim
  <1>2. PICK k \in asked : /\ op' = [kind |-> k, cp |-> "pending"]
                           /\ posts' = IF k = "start" THEN 0 ELSE posts
    BY DEF Claim
  <1>3. ans = NoAnswer /\ NoAnswer \in Replies /\ NoAnswer.box = NoBox /\ NoAnswer.state = "none"
    BY <1>1, RestsTyped DEF LifeInv, Answered
  <1>4. op' \in Operations
    BY <1>2 DEF Operations, Checkpoints
  <1>5. posts' \in {0, 1}
    BY <1>2, PostsBit
  <1>6. WorkHolds'
    <2>1. WorkTyped'
      BY <1>1, <1>3, <1>4, <1>5 DEF WorkTyped
    <2>2. Answered' /\ Deleted' /\ Posted'
      BY <1>1, <1>2, <1>3, <1>5 DEF Answered, Deleted, Posted, Creating, At
    <2>3. QED
      BY <2>1, <2>2 DEF WorkHolds
  <1>7. QED
    BY <1>1, <1>6, WorkAlone

LEMMA HoldsReclaim == ASSUME LifeInv, Reclaim PROVE LifeInv'
  <1>1. UNCHANGED <<inst, late, provider, posts>>
    BY DEF Reclaim, history
  <1>2. CASE Ends
    BY <1>1, <1>2, PostsBit, WorkEnds, WorkAlone
  <1>3. CASE Resumable /\ held' = TRUE /\ UNCHANGED <<op, ans>>
    <2>1. WorkHolds'
      BY <1>1, <1>3 DEF LifeInv, WorkHolds, WorkTyped, Answered, Deleted, Posted, Gone, provider, Creating, At, Resumable
    <2>2. QED
      BY <1>1, <2>1, WorkAlone
  <1>4. QED
    BY <1>2, <1>3 DEF Reclaim

LEMMA HoldsLoseLease == ASSUME LifeInv, LoseLease PROVE LifeInv'
  <1>1. held /\ Abandons /\ UNCHANGED <<inst, provider>>
    BY DEF LoseLease, record
  <1>2. CASE UNCHANGED <<late, posts>>
    BY <1>1, <1>2, WorldRests, WorkAbandoned, LifeHolds DEF provider
  <1>3. CASE \E what \in Calls : /\ late' = late \cup {[what |-> what, box |-> inst.box]}
                                 /\ posts' = IF what = "create" THEN posts + 1 ELSE posts
    <2>1. PICK what \in Calls : /\ late' = late \cup {[what |-> what, box |-> inst.box]}
                                /\ posts' = IF what = "create" THEN posts + 1 ELSE posts
      BY <1>3
    <2>2. WorldMoves
      BY <1>1, <2>1 DEF LifeInv, BoxTyped, WorldMoves, BoxesMove, provider
    <2>3. ans = NoAnswer /\ (what = "create" => Creating)
      BY <2>1 DEF Calls, Creating, At
    <2>4. posts' = posts \/ (Creating /\ ans = NoAnswer /\ held /\ posts' = 1)
      BY <1>1, <2>1, <2>3 DEF LifeInv, Posted
    <2>5. QED
      BY <1>1, <2>2, <2>4, WorkAbandoned, LifeHolds
  <1>4. QED
    BY <1>2, <1>3 DEF LoseLease

\* The work does not feel the world move.
LEMMA WorldAlone ==
  ASSUME LifeInv, WorldMoves, UNCHANGED <<work, posts>> PROVE LifeInv'
  <1>1. UNCHANGED <<op, held, ans, posts>> /\ inst'.box = inst.box /\ BoxesMove
    BY DEF work, WorldMoves
  <1>2. WorkTyped'
    <2>1. ans \in Replies /\ (ans.box # NoBox => ans.box \in Boxes)
      BY BoxAssumption DEF LifeInv, WorkTyped, Replies, Boxes, NoBox
    <2>2. ans.box # NoBox => boxes'[ans.box] # "none"
      BY <1>1, <2>1 DEF LifeInv, WorkTyped, BoxesMove
    <2>3. QED
      BY <1>1, <2>2 DEF LifeInv, WorkTyped
  <1>3. Gone(inst.box) => Gone(inst.box)'
    BY <1>1 DEF Gone, BoxesMove
  <1>4. Answered' /\ Deleted' /\ Posted'
    BY <1>1, <1>3 DEF LifeInv, Answered, Deleted, Posted, Creating, At
  <1>5. QED
    BY <1>2, <1>4, LifeHolds DEF WorkHolds

LEMMA HoldsLandsLate == ASSUME LifeInv, LandsLate PROVE LifeInv'
  <1>1. PICK c \in late : Effect(c.what, c.box) /\ late' = late \ {c}
    BY DEF LandsLate
  <1>2. UNCHANGED <<work, inst, posts>>
    BY DEF LandsLate, record
  <1>3. c.what = "name" => c.box = inst.box \/ Gone(c.box)
    BY DEF LifeInv, Known
  <1>4. QED
    BY <1>1, <1>2, <1>3, EffectMoves, WorldAlone

LEMMA HoldsProvider == ASSUME LifeInv, Ages \/ Progresses \/ Expires \/ Vanishes PROVE LifeInv'
  <1>1. UNCHANGED <<work, posts, late, inst, named>>
    BY DEF Ages, Progresses, Expires, Vanishes, record, history, provider
  <1>2. boxes \in [Boxes -> BoxStates]
    BY DEF LifeInv, BoxTyped
  <1>3. BoxesMove
    <2>1. ASSUME NEW from, from \notin {"none", "gone"}, NEW to \in BoxStates \ {"none"}, Moves(from, to)
          PROVE BoxesMove
      BY <1>2, <2>1 DEF Moves, BoxesMove
    <2>2. {"ready", "archived", "gone"} \subseteq BoxStates \ {"none"}
      BY DEF BoxStates
    <2>3. CASE Ages
      BY <1>2, <2>3 DEF Ages, provider, BoxesMove
    <2>4. CASE Progresses
      BY <2>1, <2>2, <2>4 DEF Progresses
    <2>5. CASE Expires
      BY <2>1, <2>2, <2>5 DEF Expires
    <2>6. CASE Vanishes
      BY <1>2, <2>2, <2>6 DEF Vanishes, Exists, BoxesMove
    <2>7. QED
      BY <2>3, <2>4, <2>5, <2>6
  <1>4. WorldMoves
    BY <1>1, <1>3 DEF LifeInv, BoxTyped, WorldMoves
  <1>5. QED
    BY <1>1, <1>4, WorldAlone

\* What waits is of a kind an operation can be filed with.
Kindly == asked \subseteq Kinds

\* Only the kinds of operations the database knows are asked for.
LEMMA AskedKeeps == ASSUME Kindly, [Next]_vars PROVE Kindly'
  <1>1. ASSUME UNCHANGED asked PROVE Kindly'
    BY <1>1 DEF Kindly
  <1>2. CASE Ask
    BY <1>2 DEF Ask, Kindly
  <1>3. CASE Claim
    BY <1>3 DEF Claim, Kindly
  <1>4. CASE Executor
    BY <1>1, <1>4 DEF Executor, Advance, Succeeds, Look, Observe, Call, Proceeds, Resume, BeginCreate, PollDelete, Cannot,
       Ends, Goes, Answers, Abandons, Fails
  <1>5. CASE \/ GivesUp \/ CreateUnanswered \/ Reclaim \/ LoseLease \/ LandsLate \/ Ages \/ Progresses \/ Expires
             \/ Vanishes \/ UNCHANGED vars
    BY <1>1, <1>5 DEF GivesUp, CreateUnanswered, Reclaim, LoseLease, LandsLate, Ages, Progresses, Expires, Vanishes,
       Ends, Abandons, Fails, vars, work
  <1>6. QED
    BY <1>2, <1>3, <1>4, <1>5 DEF Next, Claims

\* Every step of the lifecycle keeps its invariant.
LEMMA LifeStays == ASSUME LifeInv, Kindly, [Next]_vars PROVE LifeInv' /\ Kindly'
  <1> SUFFICES LifeInv'
    BY AskedKeeps
  <1>1. CASE Executor
    BY <1>1, HoldsAdvance, HoldsSucceeds, HoldsLook, HoldsObserve, HoldsCall, HoldsProceeds, HoldsResume,
       HoldsBeginCreate, HoldsPollDelete, HoldsGivesUp DEF Executor
  <1>2. CASE Claims
    BY <1>2, HoldsClaim, HoldsReclaim DEF Claims, Kindly
  <1>3. CASE GivesUp \/ CreateUnanswered \/ Ask \/ LoseLease \/ LandsLate
    BY <1>3, HoldsGivesUp, HoldsCreateUnanswered, HoldsAsk, HoldsLoseLease, HoldsLandsLate
  <1>4. CASE Ages \/ Progresses \/ Expires \/ Vanishes
    BY <1>4, HoldsProvider
  <1>5. CASE UNCHANGED vars
    <2>1. UNCHANGED <<work, posts, late, inst, provider>>
      BY <1>5 DEF vars, record, history
    <2>2. WorldMoves
      BY <2>1, WorldRests DEF provider
    <2>3. QED
      BY <2>1, <2>2, WorldAlone
  <1>6. QED
    BY <1>1, <1>2, <1>3, <1>4, <1>5 DEF Next

\* For every number of Boxes, requests, lost leases and Boxes that end by themselves: one
\* create is sent for a Start, and whatever lists under the Companion's name is the Box on
\* record (operations.ts, 0090's creating_box rules).
THEOREM OneBox == BoxSpec => []OneBoxPerCompanion
  <1>1. BoxInit => LifeInv /\ Kindly
    BY LifeStarts DEF BoxInit, Init, Kindly
  <1>2. ASSUME LifeInv, Kindly, [BoxNext]_box_vars PROVE LifeInv' /\ Kindly'
    BY <1>2, LifeStays DEF BoxNext, box_vars
  <1>3. LifeInv => OneBoxPerCompanion
    BY CanonicalIsListed DEF LifeInv, Posted, OneBoxPerCompanion, NamedIsRecorded, OnePostPerStart
  <1>4. QED
    BY <1>1, <1>2, <1>3, PTL DEF BoxSpec
-----------------------------------------------------------------------------
(* The daemon. *)

Holders == {"none", "op", "settings", "health"}
Doings == {"nothing", "stopped", "minted", "written", "recorded", "saw", "published"}
OpKinds == {"start", "restart_pi", "restart_box"}
OpCheckpoints == {"none", "pending", "installing_layout", "starting_pi", "restarting_pi", "pi_observed", "pi_ready"}
Rows == [inv : Nat, idle : BOOLEAN, proof : Nat, applied : Nat, live : Nat]
Ops == [kind : OpKinds \cup {"none"}, cp : OpCheckpoints, rev : Nat]
SettingsClaims == [rev : Nat, cp : {"pending", "applying", "applied", "backoff"}]
Memories == [did : Doings, tok : Nat, inv : Nat]
FileStates == [rev : Nat, staged : Nat, tmp : Nat, stray : BOOLEAN]
Daemons == [inv : Nat, rev : Nat, tok : Nat, stray : BOOLEAN]
CallsOut == [what : {"write", "restart", "stop"}, rev : Nat, tok : Nat]

DataTyped == /\ desired \in Nat /\ requests \in Nat
             /\ row \in Rows /\ work_op \in Ops /\ claim \in SettingsClaims
             /\ lease \in Holders /\ mem \in Memories
             /\ files \in FileStates /\ pi \in Daemons
             /\ queue \subseteq [kind : OpKinds, seq : Nat, rev : Nat]
             /\ calls \subseteq CallsOut /\ IsFiniteSet(calls)
\* Who holds the lease, and what a proof may name.
Holding == /\ lease = "none" => mem = A!Nothing
           /\ work_op.kind = "none" <=> work_op = A!NoOp
           /\ lease = "op" => work_op # A!NoOp
           /\ work_op # A!NoOp => lease \in {"none", "op"}
           /\ row.proof \in {0, row.inv}
\* No revision that waits, or is worked on, is older than the applied one.
Revisions ==
  /\ row.applied <= desired
  /\ \A w \in queue : row.applied <= w.rev /\ w.rev <= desired /\ w.seq <= requests
  /\ \A v, w \in queue : v.seq <= w.seq => v.rev <= w.rev
  /\ work_op # A!NoOp => /\ row.applied <= work_op.rev /\ work_op.rev <= desired
                         /\ \A w \in queue : work_op.rev <= w.rev
  /\ lease = "settings" => claim.rev <= desired /\ \A w \in queue : claim.rev <= w.rev

LiveDaemon(d, rev) == d.tok = row.live /\ d.rev >= rev
Recorded == row.inv # 0 /\ row.inv = pi.inv /\ ~pi.stray
\* What a restart would start.
Prepared(rev) == ~files.stray => /\ files.staged \in {0, row.live} /\ files.rev >= rev
                                 /\ files.staged = 0 => files.tmp \in {0, row.live}
\* What the executor did last, and what it may rely on.
InHand ==
  /\ mem.did \in {"minted", "written", "recorded"} => lease \in {"op", "settings"} /\ row.proof = 0
  /\ mem.did \in {"minted", "written"} /\ lease = "op" => work_op.cp \in {"pending", "installing_layout"}
  /\ mem.did = "minted" => mem.tok = row.live /\ mem.tok # 0
  /\ mem.did \in {"written", "recorded"} => Prepared(A!Target)
  /\ mem.did \in {"recorded", "published"} => lease = "settings"
  /\ mem.did = "published" /\ A!Allowed => claim.cp = "applied"
  /\ mem.did = "saw" /\ lease \in {"op", "settings"} =>
       mem.inv # 0 /\ (mem.inv = pi.inv /\ ~pi.stray => LiveDaemon(pi, A!Target))
\* What each checkpoint says of the Box.
AtCheckpoint ==
  /\ work_op.kind \in A!Tails /\ work_op.cp = "starting_pi" => Prepared(work_op.rev)
  /\ work_op.kind = "restart_pi" /\ work_op.cp = "restarting_pi" => Prepared(work_op.rev)
  /\ work_op.kind = "restart_pi" /\ work_op.cp = "starting_pi" =>
       /\ pi.inv \notin {0, row.inv} /\ ~pi.stray => LiveDaemon(pi, work_op.rev)
       /\ ~files.stray => /\ files.staged = 0 /\ files.tmp \in {0, row.live} /\ files.rev >= work_op.rev
                          /\ pi.inv # 0 => files.tmp = row.live
  /\ work_op.cp \in {"pi_observed", "pi_ready"} /\ Recorded => LiveDaemon(pi, work_op.rev)
  /\ lease = "settings" /\ claim.cp = "applied" /\ Recorded => LiveDaemon(pi, claim.rev)

PiInv == DataTyped /\ Holding /\ Revisions /\ InHand /\ AtCheckpoint /\ A!ProvenPiIsCurrent

\* The names that are compared with a new one are finitely many.
LEMMA NewNames ==
  ASSUME DataTyped
  PROVE  /\ A!NewInvocation \in Nat \ {0} /\ A!NewInvocation \notin {row.inv, row.proof, pi.inv, mem.inv}
         /\ A!NewToken \in Nat \ {0}
  <1>1. \A x, y, z, w : IsFiniteSet({x, y, z, w})
    <2> SUFFICES ASSUME NEW x, NEW y, NEW z, NEW w PROVE IsFiniteSet({x, y, z, w})
      OBVIOUS
    <2>1. IsFiniteSet({x, y})
      <3>1. IsFiniteSet({x} \cup {y})
        BY FS_Singleton, FS_AddElement
      <3>2. {x} \cup {y} = {x, y}
        OBVIOUS
      <3>3. QED
        BY <3>1, <3>2
    <2>2. IsFiniteSet(({x, y} \cup {z}) \cup {w})
      BY <2>1, FS_AddElement
    <2>3. ({x, y} \cup {z}) \cup {w} = {x, y, z, w}
      OBVIOUS
    <2>4. QED
      BY <2>2, <2>3
  <1>2. IsFiniteSet({row.inv, row.proof, pi.inv, mem.inv})
    BY <1>1
  <1> DEFINE S == {row.live, files.staged, files.tmp, pi.tok, mem.tok}
             T == {c.tok : c \in calls}
  <1>3. IsFiniteSet(S)
    <2>1. IsFiniteSet({row.live, files.staged, files.tmp, pi.tok} \cup {mem.tok})
      BY <1>1, FS_AddElement
    <2>2. S = {row.live, files.staged, files.tmp, pi.tok} \cup {mem.tok}
      OBVIOUS
    <2>3. QED
      BY <2>1, <2>2
  <1>4. IsFiniteSet(T)
    <2> DEFINE f == [c \in calls |-> c.tok]
    <2>1. f \in Surjection(calls, T)
      BY DEF Surjection
    <2> HIDE DEF f, T
    <2>2. QED
      BY <2>1, FS_Surjection DEF DataTyped
  <1>5. IsFiniteSet(S \cup T)
    <2> HIDE DEF S, T
    <2>1. QED
      BY <1>3, <1>4, FS_Union
  <1>6. A!NewInvocation = A!Unused({row.inv, row.proof, pi.inv, mem.inv}) /\ A!NewToken = A!Unused(S \cup T)
    BY DEF A!NewInvocation, A!NewToken
  <1> HIDE DEF S, T
  <1>7. QED
    BY <1>2, <1>5, <1>6, FreeName

LEMMA PiStarts == A!Init => PiInv
  BY FS_EmptySet DEF A!Init, A!NoOp, A!None, A!Nothing, PiInv, DataTyped, Holding, Revisions, InHand, AtCheckpoint,
     A!ProvenPiIsCurrent, Rows, Ops, SettingsClaims, Memories, FileStates, Daemons, CallsOut, Holders, Doings,
     OpCheckpoints, OpKinds, Recorded, A!Tails

\* The actions of the executor and of its surroundings, one lemma each, keep PiInv.
LEMMA PiStopPi == ASSUME PiInv, A!StopPi PROVE PiInv'
  <1> USE DEF A!StopPi, A!Lifecycle, A!Did, A!Goes, A!None, A!Nothing, A!NoOp
  <1>1. DataTyped'
    BY DEF PiInv, DataTyped, Rows, Ops, Memories, FileStates, Daemons, Doings, OpCheckpoints
  <1>2. Holding' /\ Revisions'
    BY DEF PiInv, DataTyped, Ops, Holding, Revisions, Memories
  <1>3. InHand'
    BY DEF PiInv, DataTyped, Memories, InHand
  <1>4. AtCheckpoint'
    BY DEF PiInv, DataTyped, Ops, Daemons, AtCheckpoint, Recorded
  <1>5. A!ProvenPiIsCurrent'
    BY DEF PiInv, DataTyped, Daemons, A!ProvenPiIsCurrent
  <1>6. QED
    BY <1>1, <1>2, <1>3, <1>4, <1>5 DEF PiInv

\* A work that fails, or is abandoned, leaves nothing in hand.
LEMMA PiAbandoned ==
  ASSUME PiInv, A!Abandons \/ A!Fails, UNCHANGED <<desired, row, queue, requests>>,
         files' \in FileStates, pi' \in Daemons, calls' \subseteq CallsOut, IsFiniteSet(calls'),
         pi' = pi \/ pi'.inv = 0 \/ pi'.inv \notin {row.inv, row.proof},
         (A!Fails /\ lease = "op") \/ (files' = files /\ pi' = pi) \/ work_op = A!NoOp
  PROVE  PiInv'
  <1> USE DEF A!Abandons, A!Fails, A!Nothing, A!NoOp, A!None
  <1>1. lease' = "none" /\ mem' = A!Nothing /\ work_op' \in {work_op, A!NoOp}
        /\ claim' \in {claim, [rev |-> 0, cp |-> "backoff"]}
    OBVIOUS
  <1>2. DataTyped'
    BY <1>1 DEF PiInv, DataTyped, Ops, Memories, Doings, OpCheckpoints, Holders, SettingsClaims
  <1>3. Holding' /\ Revisions'
    BY <1>1 DEF PiInv, Holding, Revisions
  <1>4. InHand'
    BY <1>1 DEF InHand
  <1>5. work_op' = A!NoOp \/ (files' = files /\ pi' = pi)
    BY DEF PiInv, Holding, DataTyped, Holders
  <1>6. AtCheckpoint'
    BY <1>1, <1>5 DEF PiInv, AtCheckpoint, Recorded, Prepared, LiveDaemon, A!Tails
  <1>7. A!ProvenPiIsCurrent'
    BY DEF PiInv, A!ProvenPiIsCurrent
  <1>8. QED
    BY <1>2, <1>3, <1>4, <1>6, <1>7 DEF PiInv

LEMMA PiBoxReady == ASSUME PiInv, A!BoxReady PROVE PiInv'
  <1> USE DEF A!BoxReady, A!Lifecycle, A!Goes, A!Nothing, A!None, A!NoOp, A!box
  <1>1. DataTyped'
    BY DEF PiInv, DataTyped, Rows, Ops, Memories, Doings, OpCheckpoints
  <1>2. Holding' /\ Revisions'
    BY DEF PiInv, DataTyped, Ops, Holding, Revisions
  <1>3. InHand'
    BY DEF InHand
  <1>4. AtCheckpoint'
    BY DEF PiInv, DataTyped, Ops, AtCheckpoint, Recorded, A!Tails
  <1>5. A!ProvenPiIsCurrent'
    BY DEF PiInv, A!ProvenPiIsCurrent
  <1>6. QED
    BY <1>1, <1>2, <1>3, <1>4, <1>5 DEF PiInv

LEMMA PiMint == ASSUME PiInv, ~Tokenless, A!Mint PROVE PiInv'
  <1> DEFINE tok == A!NewToken
  <1>1. tok \in Nat \ {0}
    BY NewNames DEF PiInv
  <1> HIDE DEF tok
  <1>2. /\ row' = [row EXCEPT !.live = tok, !.proof = 0]
        /\ mem' = [did |-> "minted", tok |-> tok, inv |-> 0]
        /\ UNCHANGED <<desired, work_op, queue, claim, lease, calls, files, pi, requests>>
    BY DEF A!Mint, A!Minted, A!None, A!Nothing, A!box, tok
  <1>3. DataTyped'
    BY <1>1, <1>2 DEF PiInv, DataTyped, Rows, Memories, Doings
  <1>4. row'.inv = row.inv /\ row'.applied = row.applied /\ row'.proof = 0 /\ row'.live = tok
    BY <1>2 DEF PiInv, DataTyped, Rows
  <1>5. /\ lease \in {"op", "settings"}
        /\ lease = "op" => work_op.cp \in {"pending", "installing_layout"}
        /\ lease = "settings" => claim.cp = "applying" /\ work_op = A!NoOp
    BY DEF A!Mint, A!Stages, A!Lifecycle, PiInv, Holding
  <1>6. Holding' /\ Revisions'
    BY <1>2, <1>4, <1>5 DEF PiInv, DataTyped, Ops, Holding, Revisions
  <1>7. InHand'
    BY <1>1, <1>2, <1>4, <1>5 DEF InHand
  <1>8. AtCheckpoint'
    BY <1>2, <1>5 DEF AtCheckpoint, A!NoOp
  <1>9. A!ProvenPiIsCurrent'
    BY <1>4 DEF A!ProvenPiIsCurrent, A!None
  <1>10. QED
    BY <1>3, <1>6, <1>7, <1>8, <1>9 DEF PiInv

\* The revision a daemon is prepared for is a number.
LEMMA TargetTyped == ASSUME PiInv PROVE A!Target \in Nat
  BY DEF PiInv, DataTyped, A!Target, Ops, SettingsClaims

LEMMA PiWrite == ASSUME PiInv, A!Write PROVE PiInv'
  <1> DEFINE rev == A!Target
  <1>1. rev \in Nat
    BY TargetTyped
  <1>2. /\ mem.did = "minted"
        /\ files' = [files EXCEPT !.rev = rev, !.staged = mem.tok, !.stray = FALSE]
        /\ mem' = [mem EXCEPT !.did = "written"]
        /\ UNCHANGED <<desired, row, work_op, queue, claim, lease, calls, pi, requests>>
    BY DEF A!Write, A!Did, A!database
  <1>3. DataTyped'
    BY <1>1, <1>2 DEF PiInv, DataTyped, FileStates, Memories, Doings
  <1>4. files'.rev = rev /\ files'.staged = row.live /\ row.live # 0 /\ mem'.did = "written"
    BY <1>2 DEF PiInv, InHand, DataTyped, FileStates, Memories
  <1>5. rev' = rev
    BY <1>2 DEF A!Target
  <1>6. Holding' /\ Revisions'
    BY <1>2 DEF PiInv, Holding, Revisions, InHand
  <1>7. Prepared(A!Target)'
    BY <1>1, <1>2, <1>4, <1>5 DEF Prepared
  <1>8. InHand'
    <2>1. lease \in {"op", "settings"} /\ row.proof = 0 /\ (lease = "op" => work_op.cp \in {"pending", "installing_layout"})
      BY <1>2 DEF PiInv, InHand
    <2>2. QED
      BY <1>2, <1>4, <1>7, <2>1 DEF InHand
  <1>9. AtCheckpoint'
    BY <1>2 DEF PiInv, InHand, AtCheckpoint, Recorded, LiveDaemon, Holding, A!NoOp
  <1>10. A!ProvenPiIsCurrent'
    BY <1>2 DEF PiInv, A!ProvenPiIsCurrent
  <1>11. QED
    BY <1>3, <1>6, <1>8, <1>9, <1>10 DEF PiInv

LEMMA PiWriteFails == ASSUME PiInv, A!WriteFails PROVE PiInv'
  <1>1. /\ mem.did = "minted" /\ A!Fails /\ UNCHANGED <<desired, row, queue, calls, pi, requests>>
        /\ \E rev \in {files.rev, A!Target} : files' = [files EXCEPT !.rev = rev, !.staged = 0, !.tmp = 0]
    BY DEF A!WriteFails, A!Did, A!None
  <1>2. files' \in FileStates
    <2>1. PICK rev \in {files.rev, A!Target} : files' = [files EXCEPT !.rev = rev, !.staged = 0, !.tmp = 0]
      BY <1>1
    <2>2. files \in FileStates /\ rev \in Nat
      BY TargetTyped DEF PiInv, DataTyped, FileStates
    <2>3. QED
      BY <2>1, <2>2 DEF FileStates
  <1>3. lease = "op" \/ work_op = A!NoOp
    BY <1>1 DEF PiInv, InHand, Holding
  <1>4. QED
    BY <1>1, <1>2, <1>3, PiAbandoned DEF PiInv, DataTyped

LEMMA PiRecord == ASSUME PiInv, A!Record PROVE PiInv'
  <1>1. mem.did = "written" /\ UNCHANGED <<desired, queue, calls, files, pi, requests>>
    BY DEF A!Record, A!Did, A!box
  <1>2. /\ Prepared(A!Target) /\ lease \in {"op", "settings"} /\ row.proof = 0
        /\ lease = "op" => work_op.cp \in {"pending", "installing_layout"} /\ A!Target = work_op.rev
    BY <1>1 DEF PiInv, InHand, A!Target
  <1>3. CASE lease = "settings"
    <2>1. mem' = [A!Nothing EXCEPT !.did = "recorded"] /\ UNCHANGED <<work_op, row, claim, lease>>
      BY <1>3 DEF A!Record
    <2>2. mem' \in Memories /\ mem'.did = "recorded"
      BY <2>1 DEF A!Nothing, A!None, Memories, Doings
    <2>3. DataTyped' /\ Holding' /\ Revisions' /\ AtCheckpoint' /\ A!ProvenPiIsCurrent'
      BY <1>1, <1>3, <2>1, <2>2 DEF PiInv, DataTyped, Holding, Revisions, AtCheckpoint, Prepared, Recorded, LiveDaemon,
         A!ProvenPiIsCurrent
    <2>4. Prepared(A!Target)'
      BY <1>1, <1>2, <2>1 DEF Prepared, A!Target
    <2>5. InHand'
      BY <1>2, <1>3, <2>1, <2>2, <2>4 DEF InHand
    <2>6. QED
      BY <2>3, <2>5 DEF PiInv
  <1>4. CASE lease # "settings" /\ work_op.kind = "restart_pi"
    <2>1. A!Goes("restarting_pi") /\ UNCHANGED row
      BY <1>4 DEF A!Record
    <2>2. work_op' = [work_op EXCEPT !.cp = "restarting_pi"] /\ mem' = A!Nothing /\ UNCHANGED <<claim, lease>>
      BY <2>1 DEF A!Goes
    <2>3. DataTyped'
      BY <1>1, <2>1, <2>2 DEF PiInv, DataTyped, Ops, OpCheckpoints, Memories, Doings, A!Nothing, A!None
    <2>4. work_op'.kind = "restart_pi" /\ work_op'.rev = work_op.rev /\ work_op'.cp = "restarting_pi"
      BY <1>4, <2>2 DEF PiInv, DataTyped, Ops
    <2>5. Holding' /\ Revisions'
      BY <1>1, <1>4, <2>1, <2>2, <2>4 DEF PiInv, Holding, Revisions, A!NoOp
    <2>6. InHand'
      BY <2>2 DEF InHand, A!Nothing
    <2>7. AtCheckpoint'
      BY <1>1, <1>2, <1>4, <2>1, <2>2, <2>4 DEF AtCheckpoint, Prepared, A!Tails
    <2>8. A!ProvenPiIsCurrent'
      BY <1>1, <2>1 DEF PiInv, A!ProvenPiIsCurrent
    <2>9. QED
      BY <2>3, <2>5, <2>6, <2>7, <2>8 DEF PiInv
  <1>5. CASE A!Abandons /\ UNCHANGED row
    BY <1>1, <1>5, PiAbandoned DEF PiInv, DataTyped
  <1>6. CASE /\ lease # "settings" /\ work_op.kind # "restart_pi" /\ ~(work_op.rev < row.applied)
             /\ A!Goes("starting_pi") /\ row' = [row EXCEPT !.applied = work_op.rev]
    <2>1. work_op' = [work_op EXCEPT !.cp = "starting_pi"] /\ mem' = A!Nothing /\ UNCHANGED <<claim, lease>>
      BY <1>6 DEF A!Goes
    <2>2. /\ row' \in Rows /\ row'.inv = row.inv /\ row'.proof = row.proof /\ row'.live = row.live
          /\ row'.applied = work_op.rev
      BY <1>6 DEF PiInv, DataTyped, Rows, Ops
    <2>3. /\ work_op' \in Ops /\ work_op'.kind = work_op.kind /\ work_op'.rev = work_op.rev
          /\ work_op'.cp = "starting_pi"
      BY <2>1 DEF PiInv, DataTyped, Ops, OpCheckpoints
    <2>4. DataTyped'
      BY <1>1, <2>1, <2>2, <2>3 DEF PiInv, DataTyped, Memories, Doings, A!Nothing, A!None
    <2>5. work_op # A!NoOp /\ lease = "op"
      BY <1>2, <1>6 DEF PiInv, Holding
    <2>6. Holding'
      BY <2>1, <2>2, <2>3, <2>5 DEF PiInv, Holding, A!NoOp
    <2>7. Revisions'
      BY <1>1, <2>1, <2>2, <2>3, <2>5 DEF PiInv, Revisions, DataTyped, Ops, Rows
    <2>8. InHand'
      BY <2>1 DEF InHand, A!Nothing
    <2>9. AtCheckpoint'
      BY <1>1, <1>2, <1>6, <2>1, <2>2, <2>3, <2>5 DEF AtCheckpoint, Prepared
    <2>10. A!ProvenPiIsCurrent'
      BY <1>2, <2>2 DEF A!ProvenPiIsCurrent, A!None
    <2>11. QED
      BY <2>4, <2>6, <2>7, <2>8, <2>9, <2>10 DEF PiInv
  <1>7. QED
    BY <1>3, <1>4, <1>5, <1>6 DEF A!Record

\* What a restart makes of the files, and the daemon it starts.
Restarted == files' = A!RestartedFiles /\ pi' = A!DaemonOf(A!RestartedFiles)

\* A restart leaves files and a daemon of their types.
LEMMA RestartedTyped ==
  ASSUME PiInv
  PROVE  A!RestartedFiles \in FileStates /\ A!DaemonOf(A!RestartedFiles) \in Daemons /\ A!DaemonOf(files) \in Daemons
         /\ A!NewInvocation \in Nat \ {0}
  <1>1. files \in FileStates /\ A!NewInvocation \in Nat \ {0}
    BY NewNames DEF PiInv, DataTyped
  <1>2. A!RestartedFiles \in FileStates
    BY <1>1 DEF A!RestartedFiles, FileStates, A!None
  <1>3. \A f \in FileStates : A!DaemonOf(f) \in Daemons
    BY <1>1 DEF A!DaemonOf, FileStates, Daemons
  <1>4. QED
    BY <1>1, <1>2, <1>3

\* A new daemon: what was staged, or else what it had, and an invocation nothing knows.
LEMMA RestartedDaemon ==
  ASSUME PiInv, Restarted
  PROVE  /\ files' \in FileStates /\ pi' \in Daemons
         /\ pi'.inv # 0 /\ pi'.inv \notin {row.inv, row.proof, mem.inv}
         /\ pi'.stray = files.stray /\ files'.stray = files.stray /\ files'.rev = files.rev /\ pi'.rev = files.rev
         /\ files'.staged = 0 /\ pi'.tok = files'.tmp
         /\ files'.tmp = IF files.tmp = 0 \/ files.staged # 0 THEN files.staged ELSE files.tmp
  <1>1. files \in FileStates /\ A!NewInvocation \in Nat \ {0} /\ A!NewInvocation \notin {row.inv, row.proof, mem.inv}
    BY NewNames DEF PiInv, DataTyped
  <1>2. /\ files' = [files EXCEPT !.tmp = IF files.tmp = 0 \/ files.staged # 0 THEN files.staged ELSE files.tmp, !.staged = 0]
        /\ pi' = [inv |-> A!NewInvocation, rev |-> files'.rev, tok |-> files'.tmp, stray |-> files'.stray]
    BY DEF Restarted, A!RestartedFiles, A!DaemonOf, A!None
  <1>3. files' \in FileStates /\ pi' \in Daemons
    BY RestartedTyped DEF Restarted
  <1>4. /\ files'.stray = files.stray /\ files'.rev = files.rev /\ files'.staged = 0
        /\ files'.tmp = IF files.tmp = 0 \/ files.staged # 0 THEN files.staged ELSE files.tmp
    BY <1>1, <1>2 DEF FileStates
  <1>5. /\ pi'.inv = A!NewInvocation /\ pi'.rev = files'.rev /\ pi'.tok = files'.tmp /\ pi'.stray = files'.stray
    BY <1>2
  <1>6. QED
    BY <1>1, <1>3, <1>4, <1>5

\* A daemon started from prepared files is live, and the files stay prepared.
LEMMA PreparedStarts ==
  ASSUME PiInv, Restarted, A!Credentials, UNCHANGED row, NEW rev \in Nat, Prepared(rev)
  PROVE  /\ ~pi'.stray => LiveDaemon(pi', rev) /\ files'.tmp = row.live /\ files'.rev >= rev
         /\ ~files'.stray => files'.staged \in {0, row.live} /\ files'.rev >= rev /\ files'.tmp \in {0, row.live}
  <1>1. files \in FileStates
    BY DEF PiInv, DataTyped
  <1>2. QED
    BY <1>1, RestartedDaemon DEF Prepared, LiveDaemon, A!Credentials, FileStates, A!None

\* Where nothing is told, only the names and the files of the Box may matter.
LEMMA PiRestarts ==
  ASSUME PiInv, Restarted, A!Credentials, UNCHANGED <<desired, row, work_op, queue, claim, lease, requests>>,
         calls' \subseteq CallsOut, IsFiniteSet(calls'),
         \/ mem' = mem
         \/ /\ mem' = [did |-> "saw", tok |-> 0, inv |-> A!NewInvocation]
            /\ lease \in {"op", "settings"} /\ Prepared(A!Target)
         \/ lease = "health" /\ mem' = [mem EXCEPT !.inv = A!NewInvocation] /\ mem.did = "saw"
  PROVE  PiInv'
  <1>1. A!NewInvocation \in Nat \ {0} /\ row \in Rows /\ mem \in Memories /\ work_op \in Ops /\ claim \in SettingsClaims
    BY NewNames DEF PiInv, DataTyped
  <1>2. mem' \in Memories
    BY <1>1 DEF Memories, Doings
  <1>3. DataTyped'
    BY <1>2, RestartedDaemon DEF PiInv, DataTyped
  <1>4. Holding' /\ Revisions'
    BY DEF PiInv, Holding, Revisions
  <1>5. \A rev \in Nat : Prepared(rev) => Prepared(rev)'
    <2> SUFFICES ASSUME NEW rev \in Nat, Prepared(rev) PROVE Prepared(rev)'
      OBVIOUS
    <2>1. QED
      BY PreparedStarts DEF Prepared
  <1>6. A!Target' = A!Target /\ A!Target \in Nat /\ A!Allowed' = A!Allowed
    BY TargetTyped DEF A!Target, A!Allowed
  <1>7. Prepared(A!Target) => Prepared(A!Target)'
    <2> DEFINE rev == A!Target
    <2>1. rev' = rev /\ rev \in Nat
      BY <1>6
    <2> HIDE DEF rev
    <2>2. Prepared(rev) => Prepared(rev)'
      BY <1>5, <2>1 DEF Prepared
    <2>3. QED
      BY <2>2 DEF rev
  <1>8. InHand'
    <2>1. CASE mem' = mem
      BY <1>6, <1>7, <2>1, RestartedDaemon DEF PiInv, InHand
    <2>2. CASE /\ mem' = [did |-> "saw", tok |-> 0, inv |-> A!NewInvocation]
               /\ lease \in {"op", "settings"} /\ Prepared(A!Target)
      <3>1. mem'.did = "saw" /\ mem'.inv # 0
        BY <1>1, <2>2
      <3>2. lease \in {"op", "settings"} /\ ~pi'.stray => LiveDaemon(pi, A!Target)'
        BY <1>6, <2>2, PreparedStarts DEF LiveDaemon
      <3>3. QED
        BY <3>1, <3>2 DEF InHand
    <2>3. CASE lease = "health" /\ mem' = [mem EXCEPT !.inv = A!NewInvocation] /\ mem.did = "saw"
      <3>1. mem'.did = "saw" /\ lease' = "health"
        BY <1>1, <2>3 DEF Memories
      <3>2. QED
        BY <3>1 DEF InHand
    <2>4. QED
      BY <2>1, <2>2, <2>3
  <1>9. AtCheckpoint'
    <2>1. work_op.rev \in Nat
      BY <1>1 DEF Ops
    <2>2. work_op.kind \in A!Tails /\ work_op.cp = "starting_pi" => Prepared(work_op.rev)'
      BY <1>5, <2>1 DEF PiInv, AtCheckpoint, Prepared
    <2>3. work_op.kind = "restart_pi" /\ work_op.cp = "restarting_pi" => Prepared(work_op.rev)'
      BY <1>5, <2>1 DEF PiInv, AtCheckpoint, Prepared
    <2>4. ASSUME work_op.kind = "restart_pi", work_op.cp = "starting_pi"
          PROVE  /\ ~pi'.stray => LiveDaemon(pi', work_op.rev)
                 /\ ~files'.stray => /\ files'.staged = 0 /\ files'.rev >= work_op.rev /\ files'.tmp = row.live
      <3>1. Prepared(work_op.rev)
        BY <2>4 DEF PiInv, AtCheckpoint, Prepared
      <3>2. QED
        BY <2>1, <3>1, PreparedStarts, RestartedDaemon
    <2>5. ~Recorded'
      BY RestartedDaemon DEF Recorded
    <2>6. QED
      BY <2>2, <2>3, <2>4, <2>5 DEF AtCheckpoint, LiveDaemon
  <1>10. A!ProvenPiIsCurrent'
    BY RestartedDaemon DEF A!ProvenPiIsCurrent
  <1>11. QED
    BY <1>3, <1>4, <1>8, <1>9, <1>10 DEF PiInv

LEMMA PiRestart == ASSUME PiInv, A!Restart PROVE PiInv'
  <1>1. A!Restarts /\ UNCHANGED <<desired, row, queue, calls, requests>>
    BY DEF A!Restart
  <1>2. calls' \subseteq CallsOut /\ IsFiniteSet(calls')
    BY <1>1 DEF PiInv, DataTyped
  <1>3. CASE ~A!Credentials
    <2>1. A!Fails /\ files' = files /\ pi' = pi
      BY <1>3 DEF A!Restart, A!box
    <2>2. QED
      BY <1>1, <1>2, <2>1, PiAbandoned DEF PiInv, DataTyped
  <1>4. CASE A!Credentials /\ A!Lifecycle({"restart_pi"}, "restarting_pi")
    <2>1. Restarted /\ A!Goes("starting_pi")
      BY <1>4 DEF A!Restart, Restarted
    <2>2. work_op.kind = "restart_pi" /\ lease = "op" /\ Prepared(work_op.rev) /\ work_op.rev \in Nat
      BY <1>4 DEF A!Lifecycle, PiInv, AtCheckpoint, DataTyped, Ops
    <2>3. work_op' = [work_op EXCEPT !.cp = "starting_pi"] /\ mem' = A!Nothing /\ UNCHANGED <<claim, lease>>
      BY <2>1 DEF A!Goes
    <2>4. work_op' \in Ops /\ work_op'.kind = "restart_pi" /\ work_op'.rev = work_op.rev /\ work_op'.cp = "starting_pi"
      BY <2>2, <2>3 DEF PiInv, DataTyped, Ops, OpCheckpoints
    <2>5. DataTyped'
      BY <1>1, <2>1, <2>3, <2>4, RestartedDaemon DEF PiInv, DataTyped, Memories, Doings, A!Nothing, A!None
    <2>6. Holding' /\ Revisions'
      BY <1>1, <2>2, <2>3, <2>4 DEF PiInv, Holding, Revisions, A!NoOp
    <2>7. InHand'
      BY <2>3 DEF InHand, A!Nothing
    <2>8. /\ ~pi'.stray => LiveDaemon(pi', work_op.rev)
          /\ ~files'.stray => /\ files'.staged = 0 /\ files'.rev >= work_op.rev /\ files'.tmp = row.live
      BY <1>1, <1>4, <2>1, <2>2, PreparedStarts, RestartedDaemon
    <2>9. AtCheckpoint'
      BY <1>1, <2>2, <2>3, <2>4, <2>8 DEF AtCheckpoint, LiveDaemon, A!Tails
    <2>10. A!ProvenPiIsCurrent'
      BY <1>1, <2>1, RestartedDaemon DEF A!ProvenPiIsCurrent
    <2>11. QED
      BY <2>5, <2>6, <2>7, <2>9, <2>10 DEF PiInv
  <1>5. CASE A!Credentials /\ ~A!Lifecycle({"restart_pi"}, "restarting_pi")
    <2>1. /\ Restarted /\ UNCHANGED <<work_op, claim, lease>>
          /\ mem' = [did |-> "saw", tok |-> 0, inv |-> A!NewInvocation]
      BY <1>5 DEF A!Restart, Restarted, A!Nothing, A!None
    <2>2. lease \in {"op", "settings"} /\ Prepared(A!Target)
      BY <1>1, <1>5 DEF A!Restarts, A!Lifecycle, A!Did, A!Target, PiInv, AtCheckpoint, InHand, Prepared
    <2>3. QED
      BY <1>1, <1>2, <1>5, <2>1, <2>2, PiRestarts
  <1>6. QED
    BY <1>3, <1>4, <1>5

\* What a call that fails halfway leaves in the Box.
LEMMA BotchedTyped ==
  ASSUME PiInv, A!Botched
  PROVE  /\ files' \in FileStates /\ pi' \in Daemons
         /\ pi' = pi \/ pi'.inv = 0 \/ pi'.inv \notin {row.inv, row.proof}
  <1>1. files \in FileStates /\ pi \in Daemons /\ A!NewInvocation \notin {row.inv, row.proof}
    BY NewNames DEF PiInv, DataTyped
  <1>2. files' \in FileStates
    BY <1>1 DEF A!Botched, FileStates, A!None
  <1>3. CASE pi' = pi
    BY <1>1, <1>2, <1>3
  <1>4. CASE pi' = [pi EXCEPT !.inv = 0]
    BY <1>1, <1>2, <1>4 DEF Daemons
  <1>5. CASE pi' = A!DaemonOf(A!RestartedFiles)
    <2>1. pi' \in Daemons
      BY <1>5, RestartedTyped
    <2>2. pi'.inv = A!NewInvocation
      BY <1>5 DEF A!DaemonOf
    <2>3. QED
      BY <1>1, <1>2, <2>1, <2>2
  <1>6. QED
    BY <1>3, <1>4, <1>5 DEF A!Botched, A!None

LEMMA PiRestartFails == ASSUME PiInv, A!RestartFails PROVE PiInv'
  <1>1. A!Restarts /\ A!Botched /\ A!Fails /\ UNCHANGED <<desired, row, queue, calls, requests>>
    BY DEF A!RestartFails
  <1>2. lease = "op" \/ work_op = A!NoOp
    BY <1>1 DEF A!Restarts, A!Lifecycle, PiInv, Holding
  <1>3. QED
    BY <1>1, <1>2, BotchedTyped, PiAbandoned DEF PiInv, DataTyped

\* What is read is in hand, and nothing else moves.
LEMMA PiSees ==
  ASSUME PiInv, NEW inv \in Nat, mem' = [did |-> "saw", tok |-> 0, inv |-> inv], lease # "none",
         lease = "health" \/ (inv # 0 /\ (inv = pi.inv /\ ~pi.stray => LiveDaemon(pi, A!Target))),
         UNCHANGED <<desired, row, work_op, queue, claim, lease, calls, files, pi, requests>>
  PROVE  PiInv'
  <1>1. DataTyped'
    BY DEF PiInv, DataTyped, Memories, Doings
  <1>2. Holding' /\ Revisions' /\ AtCheckpoint' /\ A!ProvenPiIsCurrent'
    BY DEF PiInv, Holding, Revisions, AtCheckpoint, Prepared, Recorded, LiveDaemon, A!ProvenPiIsCurrent
  <1>3. A!Target' = A!Target
    BY DEF A!Target
  <1>4. InHand'
    BY <1>3 DEF InHand, LiveDaemon
  <1>5. QED
    BY <1>1, <1>2, <1>4 DEF PiInv

LEMMA PiPolls == ASSUME PiInv, A!Poll \/ A!HealthLook PROVE PiInv'
  <1>1. UNCHANGED <<desired, row, work_op, queue, claim, lease, calls, files, pi, requests>> /\ pi.inv \in Nat
        /\ mem' = [did |-> "saw", tok |-> 0, inv |-> pi.inv]
    BY DEF A!Poll, A!HealthLook, A!database, A!box, A!Nothing, A!None, PiInv, DataTyped, Daemons
  <1>2. CASE A!HealthLook
    BY <1>1, <1>2, PiSees DEF A!HealthLook
  <1>3. CASE A!Poll
    <2>1. /\ lease = "op" /\ pi.inv # 0 /\ A!Target = work_op.rev
          /\ ~pi.stray => LiveDaemon(pi, work_op.rev)
      BY <1>3 DEF A!Poll, A!Lifecycle, A!Target, A!None, PiInv, AtCheckpoint
    <2>2. QED
      BY <1>1, <2>1, PiSees
  <1>4. QED
    BY <1>2, <1>3

LEMMA PiPollExpires == ASSUME PiInv, A!PollExpires \/ A!Denied PROVE PiInv'
  BY PiAbandoned DEF A!PollExpires, A!Denied, A!box, PiInv, DataTyped

\* What the row becomes when an invocation is observed.
LEMMA ObservedRow ==
  ASSUME PiInv, NEW inv \in Nat, row' = A!Observed(inv)
  PROVE  /\ row' \in Rows /\ row'.inv = inv /\ row'.applied = row.applied /\ row'.live = row.live
         /\ row'.proof \in {0, inv} /\ row'.proof \in {0, row.proof}
         /\ inv = row.inv => row'.proof = row.proof
  BY DEF A!Observed, PiInv, DataTyped, Holding, Rows, A!None

LEMMA PiObservePi == ASSUME PiInv, A!ObservePi PROVE PiInv'
  <1>1. /\ lease \in {"op", "settings"} /\ mem.did = "saw" /\ row' = A!Observed(mem.inv) /\ mem.inv \in Nat
        /\ UNCHANGED <<desired, queue, calls, files, pi, requests>>
    BY DEF A!ObservePi, A!Did, A!box, PiInv, DataTyped, Memories
  <1>2. mem.inv = pi.inv /\ ~pi.stray => LiveDaemon(pi, A!Target)
    BY <1>1 DEF PiInv, InHand
  <1>3. /\ row' \in Rows /\ row'.inv = mem.inv /\ row'.applied = row.applied /\ row'.live = row.live
        /\ row'.proof \in {0, mem.inv} /\ row'.proof \in {0, row.proof}
        /\ mem.inv = row.inv => row'.proof = row.proof
    BY <1>1, ObservedRow
  <1>4. A!ProvenPiIsCurrent'
    BY <1>1, <1>3 DEF PiInv, A!ProvenPiIsCurrent, A!None
  <1>5. Recorded' => LiveDaemon(pi, A!Target)
    BY <1>1, <1>2, <1>3 DEF Recorded
  <1>6. CASE lease = "op"
    <2>1. work_op' = [work_op EXCEPT !.cp = "pi_observed"] /\ mem' = A!Nothing /\ UNCHANGED <<claim, lease>>
      BY <1>6 DEF A!ObservePi, A!Goes
    <2>2. work_op' \in Ops /\ work_op'.kind = work_op.kind /\ work_op'.rev = work_op.rev /\ work_op'.cp = "pi_observed"
      BY <2>1 DEF PiInv, DataTyped, Ops, OpCheckpoints
    <2>3. DataTyped'
      BY <1>1, <1>3, <2>1, <2>2 DEF PiInv, DataTyped, Memories, Doings, A!Nothing, A!None
    <2>4. Holding'
      BY <1>3, <1>6, <2>1, <2>2 DEF PiInv, Holding, A!NoOp
    <2>5. Revisions'
      BY <1>1, <1>3, <1>6, <2>1, <2>2 DEF PiInv, Holding, Revisions, A!NoOp
    <2>6. InHand'
      BY <2>1 DEF InHand, A!Nothing
    <2>7. Recorded' => LiveDaemon(pi, work_op.rev)
      BY <1>5, <1>6 DEF A!Target
    <2>8. AtCheckpoint'
      BY <1>1, <1>3, <1>6, <2>1, <2>2, <2>7 DEF AtCheckpoint, LiveDaemon
    <2>9. QED
      BY <1>4, <2>3, <2>4, <2>5, <2>6, <2>8 DEF PiInv
  <1>7. CASE lease = "settings"
    <2>1. claim' = [claim EXCEPT !.cp = "applied"] /\ mem' = A!Nothing /\ UNCHANGED <<work_op, lease>>
      BY <1>7 DEF A!ObservePi
    <2>2. claim' \in SettingsClaims /\ claim'.rev = claim.rev
      BY <2>1 DEF PiInv, DataTyped, SettingsClaims
    <2>3. DataTyped'
      BY <1>1, <1>3, <2>1, <2>2 DEF PiInv, DataTyped, Memories, Doings, A!Nothing, A!None
    <2>4. Holding' /\ work_op = A!NoOp
      BY <1>3, <1>7, <2>1 DEF PiInv, Holding
    <2>5. Revisions'
      BY <1>1, <1>3, <1>7, <2>1, <2>2 DEF PiInv, Revisions
    <2>6. InHand'
      BY <2>1 DEF InHand, A!Nothing
    <2>7. Recorded' => LiveDaemon(pi, claim.rev)
      BY <1>5, <1>7 DEF A!Target
    <2>8. AtCheckpoint'
      BY <1>1, <1>3, <2>1, <2>2, <2>4, <2>7 DEF AtCheckpoint, LiveDaemon, A!NoOp, A!Tails
    <2>9. QED
      BY <1>4, <2>3, <2>4, <2>5, <2>6, <2>8 DEF PiInv
  <1>8. QED
    BY <1>1, <1>6, <1>7

LEMMA PiPublish == ASSUME PiInv, A!Publish PROVE PiInv'
  <1>1. /\ row' = [row EXCEPT !.proof = row.inv] /\ A!Allowed
        /\ UNCHANGED <<desired, queue, calls, files, pi, requests>>
    BY DEF A!Publish, A!box
  <1>2. /\ row' \in Rows /\ row'.inv = row.inv /\ row'.applied = row.applied /\ row'.live = row.live
        /\ row'.proof = row.inv
    BY <1>1 DEF PiInv, DataTyped, Rows
  <1>3. Recorded' = Recorded
    BY <1>1, <1>2 DEF Recorded
  <1>4. row'.proof # 0 /\ row'.proof = pi.inv /\ ~pi.stray => Recorded
    BY <1>2 DEF Recorded
  <1>5. CASE lease = "op" /\ work_op.cp = "pi_observed" /\ A!Goes("pi_ready")
    <2>1. work_op' = [work_op EXCEPT !.cp = "pi_ready"] /\ mem' = A!Nothing /\ UNCHANGED <<claim, lease>>
      BY <1>5 DEF A!Goes
    <2>2. work_op' \in Ops /\ work_op'.kind = work_op.kind /\ work_op'.rev = work_op.rev /\ work_op'.cp = "pi_ready"
      BY <2>1 DEF PiInv, DataTyped, Ops, OpCheckpoints
    <2>3. DataTyped'
      BY <1>1, <1>2, <2>1, <2>2 DEF PiInv, DataTyped, Memories, Doings, A!Nothing, A!None
    <2>4. Holding'
      BY <1>2, <1>5, <2>1, <2>2 DEF PiInv, Holding, A!NoOp
    <2>5. Revisions'
      BY <1>1, <1>2, <1>5, <2>1, <2>2 DEF PiInv, Holding, Revisions, A!NoOp
    <2>6. InHand'
      BY <2>1 DEF InHand, A!Nothing
    <2>7. Recorded => LiveDaemon(pi, work_op.rev)
      BY <1>5 DEF PiInv, AtCheckpoint
    <2>8. AtCheckpoint'
      BY <1>1, <1>2, <1>3, <1>5, <2>1, <2>2, <2>7 DEF AtCheckpoint, LiveDaemon
    <2>9. row.applied <= work_op.rev /\ row.applied \in Nat /\ work_op.rev \in Nat /\ pi.rev \in Nat
      BY <1>5 DEF PiInv, DataTyped, Holding, Revisions, Rows, Ops, Daemons
    <2>10. A!ProvenPiIsCurrent'
      BY <1>1, <1>2, <1>4, <2>7, <2>9 DEF A!ProvenPiIsCurrent, LiveDaemon, A!None
    <2>11. QED
      BY <2>3, <2>4, <2>5, <2>6, <2>8, <2>10 DEF PiInv
  <1>6. CASE /\ lease = "settings" /\ claim.cp = "applied"
             /\ mem' = [A!Nothing EXCEPT !.did = "published"] /\ UNCHANGED <<work_op, claim, lease>>
    <2>1. mem' \in Memories /\ mem'.did = "published"
      BY <1>6 DEF A!Nothing, A!None, Memories, Doings
    <2>2. DataTyped'
      BY <1>1, <1>2, <1>6, <2>1 DEF PiInv, DataTyped
    <2>3. Holding' /\ Revisions' /\ work_op = A!NoOp
      BY <1>1, <1>2, <1>6 DEF PiInv, Holding, Revisions
    <2>4. InHand'
      BY <1>6, <2>1 DEF InHand
    <2>5. Recorded => LiveDaemon(pi, claim.rev)
      BY <1>6 DEF PiInv, AtCheckpoint
    <2>6. AtCheckpoint'
      BY <1>1, <1>2, <1>3, <1>6, <2>3, <2>5 DEF AtCheckpoint, LiveDaemon, A!NoOp, A!Tails
    <2>7. /\ row.applied <= claim.rev /\ row.applied \in Nat /\ claim.rev \in Nat /\ pi.rev \in Nat
      BY <1>1, <1>6 DEF PiInv, DataTyped, Revisions, Rows, SettingsClaims, Daemons, A!Allowed
    <2>8. A!ProvenPiIsCurrent'
      BY <1>1, <1>2, <1>4, <2>5, <2>7 DEF A!ProvenPiIsCurrent, LiveDaemon, A!None
    <2>9. QED
      BY <2>2, <2>3, <2>4, <2>6, <2>8 DEF PiInv
  <1>7. QED
    BY <1>5, <1>6 DEF A!Publish

LEMMA LargerOfTwo == ASSUME NEW x \in Nat, NEW y \in Nat PROVE A!Max({x, y}) = IF x >= y THEN x ELSE y
  BY DEF A!Max

LEMMA PiSettle == ASSUME PiInv, A!Settle PROVE PiInv'
  <1>1. lease' = "none" /\ mem' = A!Nothing /\ UNCHANGED <<desired, queue, calls, files, pi, requests>>
    BY DEF A!Settle, A!box
  <1>2. InHand'
    BY <1>1 DEF InHand, A!Nothing
  <1>3. CASE lease = "op" /\ work_op' = A!NoOp /\ UNCHANGED <<row, claim>>
    <2>1. DataTyped'
      BY <1>1, <1>3 DEF PiInv, DataTyped, Holders, Ops, OpCheckpoints, A!NoOp, Memories, Doings, A!Nothing, A!None
    <2>2. Holding' /\ Revisions' /\ AtCheckpoint'
      BY <1>1, <1>3 DEF PiInv, Holding, Revisions, AtCheckpoint, A!NoOp, A!Tails
    <2>3. A!ProvenPiIsCurrent'
      BY <1>1, <1>3 DEF PiInv, A!ProvenPiIsCurrent
    <2>4. QED
      BY <1>2, <2>1, <2>2, <2>3 DEF PiInv
  <1>4. CASE /\ lease = "settings" /\ mem.did = "published" /\ A!Allowed
             /\ row' = [row EXCEPT !.applied = A!Max({row.applied, claim.rev})]
             /\ claim' = [rev |-> 0, cp |-> "pending"] /\ UNCHANGED work_op
    <2>1. /\ row \in Rows /\ claim \in SettingsClaims /\ row.applied \in Nat /\ claim.rev \in Nat /\ desired \in Nat
          /\ pi.rev \in Nat /\ row.applied <= desired /\ claim.rev = desired /\ work_op = A!NoOp
      BY <1>4 DEF PiInv, DataTyped, Rows, SettingsClaims, Daemons, Holding, Revisions, A!Allowed
    <2>2. A!Max({row.applied, claim.rev}) = claim.rev
      BY <2>1, LargerOfTwo
    <2>3. /\ row' \in Rows /\ row'.inv = row.inv /\ row'.proof = row.proof /\ row'.live = row.live
          /\ row'.applied = claim.rev
      BY <1>4, <2>1, <2>2 DEF Rows
    <2>4. DataTyped'
      BY <1>1, <1>4, <2>3 DEF PiInv, DataTyped, Holders, SettingsClaims, Memories, Doings, A!Nothing, A!None
    <2>5. Holding'
      BY <1>1, <1>4, <2>1, <2>3 DEF PiInv, Holding
    <2>6. Revisions'
      BY <1>1, <1>4, <2>1, <2>3 DEF PiInv, Revisions
    <2>7. AtCheckpoint'
      BY <1>1, <1>4, <2>1 DEF AtCheckpoint, A!NoOp, A!Tails
    <2>8. Recorded => LiveDaemon(pi, claim.rev)
      BY <1>4 DEF PiInv, InHand, AtCheckpoint
    <2>9. A!ProvenPiIsCurrent'
      BY <1>1, <2>3, <2>8 DEF PiInv, Holding, A!ProvenPiIsCurrent, LiveDaemon, Recorded, A!None
    <2>10. QED
      BY <1>2, <2>4, <2>5, <2>6, <2>7, <2>9 DEF PiInv
  <1>5. QED
    BY <1>3, <1>4 DEF A!Settle, A!Did

LEMMA PiHealthRecycle == ASSUME PiInv, A!HealthRecycle PROVE PiInv'
  <1>1. /\ lease = "health" /\ mem.did = "saw" /\ A!Credentials
        /\ UNCHANGED <<desired, row, work_op, queue, claim, lease, calls, requests>>
    BY DEF A!HealthRecycle, A!Did, A!database
  <1>2. calls' \subseteq CallsOut /\ IsFiniteSet(calls')
    BY <1>1 DEF PiInv, DataTyped
  <1>3. CASE Restarted /\ mem' = [mem EXCEPT !.inv = A!NewInvocation]
    BY <1>1, <1>2, <1>3, PiRestarts
  <1>4. CASE A!Botched /\ UNCHANGED mem
    <2>1. work_op = A!NoOp
      BY <1>1 DEF PiInv, Holding
    <2>2. DataTyped'
      BY <1>1, <1>4, BotchedTyped DEF PiInv, DataTyped
    <2>3. Holding' /\ Revisions'
      BY <1>1, <1>4 DEF PiInv, Holding, Revisions
    <2>4. InHand' /\ AtCheckpoint'
      BY <1>1, <1>4, <2>1 DEF PiInv, InHand, AtCheckpoint, A!NoOp, A!Tails
    <2>5. A!ProvenPiIsCurrent'
      BY <1>1, <1>4, BotchedTyped DEF PiInv, A!ProvenPiIsCurrent, A!None
    <2>6. QED
      BY <2>2, <2>3, <2>4, <2>5 DEF PiInv
  <1>5. QED
    BY <1>3, <1>4 DEF A!HealthRecycle, Restarted

LEMMA PiHealthObserve == ASSUME PiInv, A!HealthObserve PROVE PiInv'
  <1>1. /\ lease = "health" /\ row' = A!HealthSees(mem.inv) /\ lease' = "none" /\ mem' = A!Nothing /\ mem.inv \in Nat
        /\ work_op = A!NoOp /\ UNCHANGED <<desired, work_op, queue, claim, calls, files, pi, requests>>
    BY DEF A!HealthObserve, A!box, PiInv, DataTyped, Memories, Holding
  <1>2. /\ row' \in Rows /\ row'.applied = row.applied /\ row'.live = row.live
        /\ row'.proof \in {0, row'.inv} /\ row'.proof \in {0, row.proof}
    <2>1. CASE mem.inv = 0
      <3>1. row' = [row EXCEPT !.idle = FALSE]
        BY <1>1, <2>1 DEF A!HealthSees, A!None
      <3>2. QED
        BY <3>1 DEF PiInv, DataTyped, Holding, Rows
    <2>2. CASE mem.inv # 0
      BY <1>1, <2>2, ObservedRow DEF A!HealthSees, A!None
    <2>3. QED
      BY <2>1, <2>2
  <1>3. DataTyped'
    BY <1>1, <1>2 DEF PiInv, DataTyped, Holders, Memories, Doings, A!Nothing, A!None
  <1>4. Holding' /\ Revisions'
    BY <1>1, <1>2 DEF PiInv, Holding, Revisions
  <1>5. InHand' /\ AtCheckpoint'
    BY <1>1 DEF InHand, AtCheckpoint, A!Nothing, A!NoOp, A!Tails
  <1>6. A!ProvenPiIsCurrent'
    BY <1>1, <1>2 DEF PiInv, A!ProvenPiIsCurrent, A!None
  <1>7. QED
    BY <1>3, <1>4, <1>5, <1>6 DEF PiInv

LEMMA PiChangeSettings == ASSUME PiInv, A!ChangeSettings \/ A!BackoffEnds PROVE PiInv'
  <1>1. /\ claim' = [claim EXCEPT !.cp = "pending"] /\ desired' \in {desired, desired + 1}
        /\ desired' = desired => claim.cp = "backoff"
        /\ UNCHANGED <<row, work_op, queue, lease, mem, calls, files, pi, requests>>
    BY DEF A!ChangeSettings, A!BackoffEnds, A!executor, A!box, PiInv, DataTyped
  <1>2. claim' \in SettingsClaims /\ claim'.rev = claim.rev /\ claim'.cp = "pending"
    BY <1>1 DEF PiInv, DataTyped, SettingsClaims
  <1>3. DataTyped'
    BY <1>1, <1>2 DEF PiInv, DataTyped
  <1>4. Holding'
    BY <1>1 DEF PiInv, Holding
  <1>5. Revisions'
    BY <1>1, <1>2 DEF PiInv, DataTyped, Revisions, Rows, Ops, SettingsClaims
  <1>6. A!Target' = A!Target
    BY <1>1, <1>2 DEF A!Target
  <1>7. Prepared(A!Target)' <=> Prepared(A!Target)
    BY <1>1, <1>6 DEF Prepared
  <1>8. mem.did = "published" => ~A!Allowed'
    <2> SUFFICES ASSUME mem.did = "published" PROVE ~A!Allowed'
      OBVIOUS
    <2>1. lease = "settings" /\ claim.rev <= desired /\ claim.rev \in Nat /\ desired \in Nat
      BY DEF PiInv, InHand, Revisions, DataTyped, SettingsClaims
    <2>2. A!Allowed => desired' = desired + 1
      BY <1>1 DEF PiInv, InHand
    <2>3. QED
      BY <1>1, <1>2, <2>1, <2>2 DEF A!Allowed
  <1>9. InHand'
    BY <1>1, <1>6, <1>7, <1>8 DEF PiInv, InHand, LiveDaemon
  <1>10. AtCheckpoint'
    BY <1>1, <1>2 DEF PiInv, AtCheckpoint, Prepared, Recorded, LiveDaemon
  <1>11. A!ProvenPiIsCurrent'
    BY <1>1 DEF PiInv, A!ProvenPiIsCurrent
  <1>12. QED
    BY <1>3, <1>4, <1>5, <1>9, <1>10, <1>11 DEF PiInv

LEMMA PiAsk == ASSUME PiInv, A!Ask PROVE PiInv'
  <1>1. PICK k \in OpKinds : queue' = queue \cup {[kind |-> k, seq |-> requests + 1, rev |-> desired]}
    BY DEF A!Ask, OpKinds
  <1>2. requests' = requests + 1 /\ UNCHANGED <<desired, row, work_op, claim, lease, mem, calls, files, pi>>
    BY DEF A!Ask, A!executor, A!box
  <1> DEFINE w == [kind |-> k, seq |-> requests + 1, rev |-> desired]
  <1>3. /\ w \in [kind : OpKinds, seq : Nat, rev : Nat] /\ w.seq = requests + 1 /\ w.rev = desired
        /\ queue' = queue \cup {w} /\ requests \in Nat /\ desired \in Nat
    BY <1>1 DEF PiInv, DataTyped
  <1> HIDE DEF w
  <1>4. DataTyped'
    BY <1>2, <1>3 DEF PiInv, DataTyped
  <1>5. Holding'
    BY <1>2 DEF PiInv, Holding
  <1>6. \A v \in queue : v.seq \in Nat /\ v.rev \in Nat /\ v.seq <= requests /\ row.applied <= v.rev /\ v.rev <= desired
    BY DEF PiInv, DataTyped, Revisions
  <1>7. Revisions'
    BY <1>2, <1>3, <1>6 DEF PiInv, Revisions
  <1>8. InHand' /\ AtCheckpoint' /\ A!ProvenPiIsCurrent'
    BY <1>2 DEF PiInv, InHand, AtCheckpoint, Prepared, Recorded, LiveDaemon, A!Target, A!Allowed, A!ProvenPiIsCurrent
  <1>9. QED
    BY <1>4, <1>5, <1>7, <1>8 DEF PiInv

LEMMA PiClaimOperation == ASSUME PiInv, A!ClaimOperation PROVE PiInv'
  <1>1. /\ lease = "none" /\ lease' = "op"
        /\ UNCHANGED <<desired, row, claim, mem, calls, files, pi, requests>>
    BY DEF A!ClaimOperation, A!box
  <1>2. PICK w \in queue : /\ A!First(w)
                           /\ work_op' = [kind |-> w.kind, cp |-> "pending", rev |-> w.rev]
                           /\ queue' = {v \in queue \ {w} : w.kind # "start" /\ v.seq < w.seq => v.kind # "start"}
    BY DEF A!ClaimOperation
  <1>3. /\ w.kind \in OpKinds /\ w.rev \in Nat /\ w.seq \in Nat /\ row.applied <= w.rev /\ w.rev <= desired
        /\ \A v \in queue : v.seq \in Nat /\ (w.seq <= v.seq => w.rev <= v.rev)
    BY DEF PiInv, DataTyped, Revisions
  <1>4. queue' \subseteq queue /\ \A v \in queue' : w.rev <= v.rev
    <2> SUFFICES ASSUME NEW v \in queue, v \in queue' PROVE w.seq <= v.seq
      BY <1>2, <1>3
    <2>1. CASE w.kind = "start"
      BY <1>2, <2>1 DEF A!First, A!Due
    <2>2. CASE w.kind # "start" /\ v.kind = "start"
      BY <1>2, <1>3, <2>2
    <2>3. CASE w.kind # "start" /\ v.kind # "start"
      BY <1>2, <2>3 DEF A!First, A!Due
    <2>4. QED
      BY <2>1, <2>2, <2>3
  <1>5. mem = A!Nothing
    BY <1>1 DEF PiInv, Holding
  <1>6. /\ work_op' \in Ops /\ work_op'.kind = w.kind /\ work_op'.kind # "none" /\ work_op'.cp = "pending"
        /\ work_op'.rev = w.rev
    BY <1>2, <1>3 DEF Ops, OpCheckpoints, OpKinds
  <1>7. DataTyped'
    BY <1>1, <1>4, <1>6 DEF PiInv, DataTyped, Holders
  <1>8. Holding'
    BY <1>1, <1>6 DEF PiInv, Holding, A!NoOp
  <1>9. Revisions'
    BY <1>1, <1>3, <1>4, <1>6 DEF PiInv, Revisions
  <1>10. InHand' /\ AtCheckpoint'
    BY <1>1, <1>5, <1>6 DEF InHand, AtCheckpoint, A!Nothing
  <1>11. A!ProvenPiIsCurrent'
    BY <1>1 DEF PiInv, A!ProvenPiIsCurrent
  <1>12. QED
    BY <1>7, <1>8, <1>9, <1>10, <1>11 DEF PiInv

LEMMA PiTakeOver == ASSUME PiInv, A!TakeOver \/ A!ClaimHealth PROVE PiInv'
  <1>1. /\ lease = "none" /\ lease' \in {"op", "health"} /\ (lease' = "op" <=> work_op # A!NoOp)
        /\ UNCHANGED <<desired, row, work_op, queue, claim, mem, calls, files, pi, requests>>
    BY DEF A!TakeOver, A!ClaimHealth, A!NoOperation, A!database, A!box
  <1>2. mem = A!Nothing
    BY <1>1 DEF PiInv, Holding
  <1>3. DataTyped' /\ Holding' /\ Revisions'
    BY <1>1 DEF PiInv, DataTyped, Holders, Holding, Revisions
  <1>4. InHand'
    BY <1>1, <1>2 DEF InHand, A!Nothing
  <1>5. AtCheckpoint' /\ A!ProvenPiIsCurrent'
    BY <1>1 DEF PiInv, AtCheckpoint, Prepared, Recorded, LiveDaemon, A!ProvenPiIsCurrent
  <1>6. QED
    BY <1>3, <1>4, <1>5 DEF PiInv

LEMMA PiClaimSettings == ASSUME PiInv, A!ClaimSettings PROVE PiInv'
  <1>1. /\ lease = "none" /\ lease' = "settings" /\ work_op = A!NoOp /\ queue = {}
        /\ claim' = [rev |-> desired, cp |-> "applying"]
        /\ UNCHANGED <<desired, row, work_op, queue, mem, calls, files, pi, requests>>
    BY DEF A!ClaimSettings, A!NoOperation, A!Captured, A!box
  <1>2. mem = A!Nothing
    BY <1>1 DEF PiInv, Holding
  <1>3. DataTyped' /\ Holding'
    BY <1>1 DEF PiInv, DataTyped, Holders, Holding, SettingsClaims
  <1>4. Revisions'
    BY <1>1 DEF PiInv, DataTyped, Revisions
  <1>5. InHand' /\ AtCheckpoint'
    BY <1>1, <1>2 DEF InHand, AtCheckpoint, A!Nothing, A!NoOp, A!Tails
  <1>6. A!ProvenPiIsCurrent'
    BY <1>1 DEF PiInv, A!ProvenPiIsCurrent
  <1>7. QED
    BY <1>3, <1>4, <1>5, <1>6 DEF PiInv

LEMMA PiLoseLease == ASSUME PiInv, A!LoseLease PROVE PiInv'
  <1>1. A!Abandons /\ calls' = calls \cup A!OnItsWay /\ UNCHANGED <<desired, row, queue, files, pi, requests>>
    BY DEF A!LoseLease, A!box
  <1>2. A!OnItsWay \subseteq CallsOut /\ IsFiniteSet(A!OnItsWay)
    <2> DEFINE write == [what |-> "write", rev |-> A!Target, tok |-> mem.tok]
               restart == [what |-> "restart", rev |-> 0, tok |-> 0]
               stop == [what |-> "stop", rev |-> 0, tok |-> 0]
    <2>1. A!OnItsWay \subseteq {write, restart, stop}
      BY DEF A!OnItsWay, A!None
    <2>2. write \in CallsOut /\ restart \in CallsOut /\ stop \in CallsOut
      BY TargetTyped DEF CallsOut, PiInv, DataTyped, Memories
    <2> HIDE DEF write, restart, stop
    <2>3. IsFiniteSet({write, restart, stop})
      <3>1. IsFiniteSet(({write} \cup {restart}) \cup {stop})
        BY FS_Singleton, FS_AddElement
      <3>2. ({write} \cup {restart}) \cup {stop} = {write, restart, stop}
        OBVIOUS
      <3>3. QED
        BY <3>1, <3>2
    <2>4. QED
      BY <2>1, <2>2, <2>3, FS_Subset
  <1>3. calls' \subseteq CallsOut /\ IsFiniteSet(calls')
    BY <1>1, <1>2, FS_Union DEF PiInv, DataTyped
  <1>4. QED
    BY <1>1, <1>3, PiAbandoned DEF PiInv, DataTyped

LEMMA PiLandsLate == ASSUME PiInv, A!LandsLate PROVE PiInv'
  <1>1. PICK c \in calls :
          /\ calls' = calls \ {c}
          /\ \/ files' = [files EXCEPT !.rev = c.rev, !.staged = c.tok, !.stray = TRUE] /\ UNCHANGED pi
             \/ files' = [files EXCEPT !.tmp = 0] /\ pi' = [pi EXCEPT !.inv = 0]
             \/ A!Credentials /\ Restarted
             \/ UNCHANGED <<files, pi>>
    BY DEF A!LandsLate, A!None, A!box, Restarted
  <1>2. UNCHANGED <<desired, row, work_op, queue, claim, lease, mem, requests>>
    BY DEF A!LandsLate, A!database, A!executor
  <1>3. calls' \subseteq CallsOut /\ IsFiniteSet(calls') /\ c.rev \in Nat /\ c.tok \in Nat
    BY <1>1, FS_RemoveElement DEF PiInv, DataTyped, CallsOut
  <1>4. A!Target' = A!Target /\ (A!Allowed' <=> A!Allowed)
    BY <1>2 DEF A!Target, A!Allowed
  <1>5. Holding' /\ Revisions'
    BY <1>2 DEF PiInv, Holding, Revisions
  <1>6. CASE A!Credentials /\ Restarted
    BY <1>2, <1>3, <1>6, PiRestarts
  <1>7. CASE UNCHANGED <<files, pi>>
    <2>1. DataTyped'
      BY <1>2, <1>3, <1>7 DEF PiInv, DataTyped
    <2>2. Prepared(A!Target)' <=> Prepared(A!Target)
      BY <1>2, <1>4, <1>7 DEF Prepared
    <2>3. InHand' /\ AtCheckpoint' /\ A!ProvenPiIsCurrent'
      BY <1>2, <1>4, <1>7, <2>2 DEF PiInv, InHand, AtCheckpoint, Prepared, Recorded, LiveDaemon, A!ProvenPiIsCurrent
    <2>4. QED
      BY <1>5, <2>1, <2>3 DEF PiInv
  <1>8. CASE files' = [files EXCEPT !.rev = c.rev, !.staged = c.tok, !.stray = TRUE] /\ UNCHANGED pi
    <2>1. files' \in FileStates /\ files'.stray
      BY <1>3, <1>8 DEF PiInv, DataTyped, FileStates
    <2>2. DataTyped'
      BY <1>2, <1>3, <1>8, <2>1 DEF PiInv, DataTyped
    <2>3. InHand' /\ AtCheckpoint' /\ A!ProvenPiIsCurrent'
      BY <1>2, <1>4, <1>8, <2>1 DEF PiInv, InHand, AtCheckpoint, Prepared, Recorded, LiveDaemon, A!ProvenPiIsCurrent
    <2>4. QED
      BY <1>5, <2>2, <2>3 DEF PiInv
  <1>9. CASE files' = [files EXCEPT !.tmp = 0] /\ pi' = [pi EXCEPT !.inv = 0]
    <2>1. /\ files' \in FileStates /\ files'.stray = files.stray /\ files'.rev = files.rev
          /\ files'.staged = files.staged /\ files'.tmp = 0
          /\ pi' \in Daemons /\ pi'.inv = 0
      BY <1>9 DEF PiInv, DataTyped, FileStates, Daemons
    <2>2. DataTyped'
      BY <1>2, <1>3, <2>1 DEF PiInv, DataTyped
    <2>3. Prepared(A!Target) => Prepared(A!Target)'
      BY <1>2, <1>4, <2>1 DEF Prepared
    <2>4. InHand'
      BY <1>2, <1>4, <2>1, <2>3 DEF PiInv, InHand
    <2>5. AtCheckpoint'
      BY <1>2, <2>1 DEF PiInv, AtCheckpoint, Prepared, Recorded
    <2>6. A!ProvenPiIsCurrent'
      BY <1>2, <2>1 DEF A!ProvenPiIsCurrent, A!None
    <2>7. QED
      BY <1>5, <2>2, <2>4, <2>5, <2>6 DEF PiInv
  <1>10. QED
    BY <1>1, <1>6, <1>7, <1>8, <1>9

LEMMA PiDaemonEnds == ASSUME PiInv, A!DaemonEnds PROVE PiInv'
  <1>1. /\ pi.inv # 0 /\ pi' \in {[pi EXCEPT !.inv = 0], A!DaemonOf(files)}
        /\ UNCHANGED <<desired, row, work_op, queue, claim, lease, mem, calls, files, requests>>
    BY DEF A!DaemonEnds, A!None, A!database, A!executor
  <1>2. /\ pi' \in Daemons /\ (pi'.inv = 0 \/ pi'.inv \notin {row.inv, row.proof, mem.inv})
        /\ pi'.inv # 0 => pi'.tok = files.tmp /\ pi'.rev = files.rev /\ pi'.stray = files.stray
    <2>1. CASE pi' = [pi EXCEPT !.inv = 0]
      BY <2>1 DEF PiInv, DataTyped, Daemons
    <2>2. CASE pi' = A!DaemonOf(files)
      <3>1. pi' = [inv |-> A!NewInvocation, rev |-> files.rev, tok |-> files.tmp, stray |-> files.stray]
        BY <2>2 DEF A!DaemonOf
      <3>2. A!NewInvocation \notin {row.inv, row.proof, mem.inv} /\ pi' \in Daemons
        BY <2>2, NewNames, RestartedTyped DEF PiInv
      <3>3. QED
        BY <3>1, <3>2
    <2>3. QED
      BY <1>1, <2>1, <2>2
  <1>3. DataTyped' /\ Holding' /\ Revisions'
    BY <1>1, <1>2 DEF PiInv, DataTyped, Holding, Revisions
  <1>4. A!Target' = A!Target /\ (A!Allowed' <=> A!Allowed)
    BY <1>1 DEF A!Target, A!Allowed
  <1>5. Prepared(A!Target)' <=> Prepared(A!Target)
    BY <1>1, <1>4 DEF Prepared
  <1>6. InHand'
    BY <1>1, <1>2, <1>4, <1>5 DEF PiInv, InHand
  <1>7. AtCheckpoint'
    BY <1>1, <1>2 DEF PiInv, AtCheckpoint, Prepared, Recorded, LiveDaemon
  <1>8. A!ProvenPiIsCurrent'
    BY <1>1, <1>2 DEF A!ProvenPiIsCurrent, A!None
  <1>9. QED
    BY <1>3, <1>6, <1>7, <1>8 DEF PiInv

\* Every step of the activation keeps its invariant.
LEMMA PiStays == ASSUME PiInv, ~Tokenless, [A!Next]_activation PROVE PiInv'
  <1>1. CASE A!Executor
    BY <1>1, PiStopPi, PiBoxReady, PiMint, PiWrite, PiRecord, PiRestart, PiPolls, PiPollExpires, PiObservePi, PiPublish,
       PiSettle, PiHealthObserve DEF A!Executor
  <1>2. CASE A!Claims
    BY <1>2, PiClaimOperation, PiTakeOver, PiClaimSettings DEF A!Claims
  <1>3. CASE A!BackoffEnds \/ A!ChangeSettings \/ A!Ask
    BY <1>3, PiChangeSettings, PiAsk
  <1>4. CASE A!WriteFails \/ A!RestartFails \/ A!HealthRecycle
    BY <1>4, PiWriteFails, PiRestartFails, PiHealthRecycle
  <1>5. CASE A!LoseLease \/ A!LandsLate \/ A!DaemonEnds
    BY <1>5, PiLoseLease, PiLandsLate, PiDaemonEnds
  <1>6. CASE UNCHANGED activation
    BY <1>6 DEF activation, PiInv, DataTyped, Holding, Revisions, InHand, AtCheckpoint, Prepared, Recorded, LiveDaemon,
       A!Target, A!Allowed, A!ProvenPiIsCurrent
  <1>7. QED
    BY <1>1, <1>2, <1>3, <1>4, <1>5, <1>6 DEF A!Next

\* For every number of revisions, requests and mishaps, where staging mints a token: a daemon
\* that runs and is proven was started with the credentials minted last and with no older
\* settings than the applied ones (settingsActivation.ts, 0092's material proof).
THEOREM ProvenPi == ~Tokenless => (BoxSpec => []ProvenPiIsCurrent)
  <1> SUFFICES ASSUME ~Tokenless PROVE BoxSpec => []ProvenPiIsCurrent
    OBVIOUS
  <1>1. BoxInit => PiInv
    BY PiStarts DEF BoxInit
  <1>2. ASSUME PiInv, [BoxNext]_box_vars PROVE PiInv'
    BY <1>2, PiStays DEF BoxNext, box_vars
  <1>3. PiInv => ProvenPiIsCurrent
    BY DEF PiInv, ProvenPiIsCurrent
  <1>4. QED
    BY <1>1, <1>2, <1>3, PTL DEF BoxSpec
-----------------------------------------------------------------------------
(* The journal. *)

\* The records of U have the numbers lo + 1 to hi, one each.
Held(U, lo, hi) == /\ {r.seq : r \in U} = (lo + 1)..hi
                   /\ \A r, q \in U : r.seq = q.seq => r = q

\* The k-th number of an interval.
LEMMA NthOfInterval ==
  ASSUME NEW lo \in Nat, NEW hi \in Nat, NEW k \in 1..(hi - lo)
  PROVE  J!Nth((lo + 1)..hi, k) = lo + k
  <1> DEFINE nums == (lo + 1)..hi
  <1>1. \A n \in nums : {m \in nums : m < n} = (lo + 1)..(n - 1)
    OBVIOUS
  <1>2. \A n \in nums : Cardinality((lo + 1)..(n - 1)) = n - 1 - lo
    <2>1. TAKE n \in nums
    <2>2. lo + 1 \in Int /\ n - 1 \in Int
      OBVIOUS
    <2>3. Cardinality((lo + 1)..(n - 1)) = IF lo + 1 > n - 1 THEN 0 ELSE (n - 1) - (lo + 1) + 1
      BY <2>2, FS_Interval
    <2>4. QED
      BY <2>3
  <1>3. \A n \in nums : Cardinality({m \in nums : m < n}) = n - 1 - lo
    BY <1>1, <1>2
  <1>4. lo + k \in nums
    OBVIOUS
  <1>5. \A n \in nums : Cardinality({m \in nums : m < n}) = k - 1 <=> n = lo + k
    BY <1>3
  <1>6. J!Nth(nums, k) = CHOOSE n \in nums : Cardinality({m \in nums : m < n}) = k - 1
    BY DEF J!Nth, J!Cardinality, Cardinality
  <1> HIDE DEF nums
  <1>7. QED
    BY <1>4, <1>5, <1>6 DEF nums

\* A number that is held names one record.
LEMMA HeldAt ==
  ASSUME NEW U, NEW lo \in Nat, NEW hi \in Nat, Held(U, lo, hi)
  PROVE  /\ \A s \in (lo + 1)..hi : J!Numbered(U, s) \in U /\ J!Numbered(U, s).seq = s
         /\ \A r \in U : r.seq \in (lo + 1)..hi /\ r = J!Numbered(U, r.seq)
  <1>1. \A s \in (lo + 1)..hi : J!Numbered(U, s) \in U /\ J!Numbered(U, s).seq = s
    <2>1. TAKE s \in (lo + 1)..hi
    <2>2. \E r \in U : r.seq = s
      BY DEF Held
    <2>3. QED
      BY <2>2 DEF J!Numbered
  <1>2. \A r \in U : r.seq \in (lo + 1)..hi
    BY DEF Held
  <1>3. QED
    BY <1>1, <1>2 DEF Held

\* Records that are held, in order.
LEMMA OrderedIs ==
  ASSUME NEW U, NEW lo \in Nat, NEW hi \in Nat, lo <= hi, Held(U, lo, hi)
  PROVE  J!InOrder(U) = [k \in 1..(hi - lo) |-> J!Numbered(U, lo + k)]
  <1>1. {r.seq : r \in U} = (lo + 1)..hi
    BY DEF Held
  <1>2. Cardinality((lo + 1)..hi) = hi - lo
    <2>1. Cardinality((lo + 1)..hi) = IF lo + 1 > hi THEN 0 ELSE hi - (lo + 1) + 1
      BY FS_Interval
    <2>2. QED
      BY <2>1
  <1>3. J!InOrder(U) = [k \in 1..(hi - lo) |-> J!Numbered(U, J!Nth((lo + 1)..hi, k))]
    BY <1>1, <1>2 DEF J!InOrder, J!Cardinality, Cardinality
  <1>4. \A k \in 1..(hi - lo) : J!Nth((lo + 1)..hi, k) = lo + k
    BY NthOfInterval
  <1>5. \A k \in 1..(hi - lo) : J!Numbered(U, J!Nth((lo + 1)..hi, k)) = J!Numbered(U, lo + k)
    BY <1>4
  <1>6. QED
    BY <1>3, <1>5

\* What a reader finds after a cursor.
LEMMA AfterIs ==
  ASSUME NEW fs, NEW lo \in Nat, NEW hi \in Nat, Held(J!Records(fs), lo, hi), NEW n \in lo..hi
  PROVE  J!After(fs, n) = [k \in 1..(hi - n) |-> J!Numbered(J!Records(fs), n + k)]
  <1> DEFINE U == J!Records(fs)
             V == {r \in U : r.seq > n}
  <1>0. n \in Nat /\ n <= hi
    OBVIOUS
  <1>1. Held(V, n, hi)
    <2>0. /\ \A r \in U : r.seq \in (lo + 1)..hi
          /\ \A s \in (lo + 1)..hi : \E r \in U : r.seq = s
      BY DEF Held
    <2> HIDE DEF U
    <2>1. \A r \in V : r.seq \in (n + 1)..hi
      BY <2>0, <1>0
    <2>2. \A s \in (n + 1)..hi : \E r \in V : r.seq = s
      <3>1. TAKE s \in (n + 1)..hi
      <3>2. s \in (lo + 1)..hi /\ s > n
        BY <1>0
      <3>3. PICK r \in U : r.seq = s
        BY <2>0, <3>2
      <3>4. r \in V
        BY <3>2, <3>3
      <3>5. QED
        BY <3>3, <3>4
    <2>3. QED
      BY <2>1, <2>2 DEF Held, U
  <1>2. J!After(fs, n) = [k \in 1..(hi - n) |-> J!Numbered(V, n + k)]
    BY <1>0, <1>1, OrderedIs DEF J!After
  <1>3. \A k \in 1..(hi - n) : J!Numbered(V, n + k) = J!Numbered(U, n + k)
    <2>1. TAKE k \in 1..(hi - n)
    <2>2. n + k \in (n + 1)..hi /\ n + k \in (lo + 1)..hi
      OBVIOUS
    <2> HIDE DEF U, V
    <2>3. J!Numbered(V, n + k) \in V /\ J!Numbered(V, n + k).seq = n + k
      BY <1>0, <1>1, <2>2, HeldAt
    <2>4. J!Numbered(V, n + k) \in U
      BY <2>3 DEF V
    <2>5. QED
      BY <2>3, <2>4, HeldAt DEF U
  <1> HIDE DEF U, V
  <1>4. QED
    BY <1>2, <1>3 DEF U

Opens(fs) == IF fs = <<>> THEN 0 ELSE fs[1].start - 1
Closes(fs) == IF fs = <<>> THEN 0 ELSE J!LastSeq(fs[Len(fs)])

\* Segment files as the process leaves them: numbered without a gap, within a file and from
\* one to the next; only the last may be without a record or end in a fragment.
Chained(fs) ==
  /\ fs \in Seq(J!File)
  /\ \A i \in 1..Len(fs) : /\ fs[i].start > 0
                           /\ \A k \in 1..Len(fs[i].recs) : fs[i].recs[k].seq = fs[i].start + k - 1
  /\ \A i \in 1..Len(fs) - 1 : fs[i].recs # <<>> /\ ~fs[i].cut /\ fs[i + 1].start = J!LastSeq(fs[i]) + 1
  /\ \A i, j \in 1..Len(fs) : i < j => J!LastSeq(fs[i]) < fs[j].start
  /\ \A s \in Opens(fs) + 1..Closes(fs) : \E i \in 1..Len(fs) : fs[i].start <= s /\ s <= J!LastSeq(fs[i])
  /\ fs # <<>> /\ fs[1].recs = <<>> => fs[1].start = 1
Whole(fs) == \A i \in 1..Len(fs) : fs[i].recs # <<>> /\ ~fs[i].cut

\* What a segment file is made of.
LEMMA FileTyped ==
  ASSUME NEW f \in J!File
  PROVE  /\ f.start \in Nat /\ f.recs \in Seq(J!Record) /\ f.cut \in BOOLEAN
         /\ Len(f.recs) \in Nat /\ DOMAIN f.recs = 1..Len(f.recs)
         /\ \A k \in 1..Len(f.recs) : f.recs[k] \in J!Record /\ f.recs[k].seq \in Nat
         /\ J!LastSeq(f) \in Int /\ J!LastSeq(f) = f.start + Len(f.recs) - 1
         /\ f.recs # <<>> <=> Len(f.recs) > 0
  <1>1. f.start \in Nat /\ f.recs \in Seq(J!Record) /\ f.cut \in BOOLEAN
    BY DEF J!File
  <1>2. /\ Len(f.recs) \in Nat /\ DOMAIN f.recs = 1..Len(f.recs)
        /\ \A k \in 1..Len(f.recs) : f.recs[k] \in J!Record
        /\ f.recs # <<>> <=> Len(f.recs) > 0
    BY <1>1
  <1>3. \A r \in J!Record : r.seq \in Nat
    BY DEF J!Record
  <1>4. QED
    BY <1>1, <1>2, <1>3 DEF J!LastSeq

\* What a list of segment files is made of.
LEMMA ListTyped ==
  ASSUME NEW fs \in Seq(J!File)
  PROVE  /\ Len(fs) \in Nat /\ DOMAIN fs = 1..Len(fs) /\ (fs = <<>> <=> Len(fs) = 0)
         /\ \A i \in 1..Len(fs) : fs[i] \in J!File
  OBVIOUS

\* The records of the files, by their places.
LEMMA RecordsAre ==
  ASSUME NEW fs \in Seq(J!File)
  PROVE  /\ \A i \in 1..Len(fs) : \A k \in 1..Len(fs[i].recs) : fs[i].recs[k] \in J!Records(fs)
         /\ \A r \in J!Records(fs) : \E i \in 1..Len(fs) : \E k \in 1..Len(fs[i].recs) : r = fs[i].recs[k]
         /\ \A r \in J!Records(fs) : r \in J!Record /\ r.seq \in Nat
  <1>1. DOMAIN fs = 1..Len(fs) /\ \A i \in 1..Len(fs) : DOMAIN fs[i].recs = 1..Len(fs[i].recs)
    BY ListTyped, FileTyped
  <1>2. /\ \A i \in 1..Len(fs) : \A k \in 1..Len(fs[i].recs) : fs[i].recs[k] \in J!Records(fs)
        /\ \A r \in J!Records(fs) : \E i \in 1..Len(fs) : \E k \in 1..Len(fs[i].recs) : r = fs[i].recs[k]
    BY <1>1 DEF J!Records
  <1>3. \A i \in 1..Len(fs) : \A k \in 1..Len(fs[i].recs) : fs[i].recs[k] \in J!Record /\ fs[i].recs[k].seq \in Nat
    BY ListTyped, FileTyped
  <1>4. \A r \in J!Records(fs) : r \in J!Record /\ r.seq \in Nat
    BY <1>2, <1>3
  <1>5. QED
    BY <1>2, <1>4

\* The files lie between the first and the last number.
LEMMA Spans ==
  ASSUME NEW fs, Chained(fs)
  PROVE  /\ Opens(fs) \in Nat /\ Closes(fs) \in Nat /\ Opens(fs) <= Closes(fs)
         /\ \A i \in 1..Len(fs) : Opens(fs) < fs[i].start /\ J!LastSeq(fs[i]) <= Closes(fs)
         /\ \A i \in 1..Len(fs) : fs[i].start \in Nat /\ J!LastSeq(fs[i]) \in Nat
         /\ \A i \in 1..Len(fs) : J!LastSeq(fs[i]) = fs[i].start + Len(fs[i].recs) - 1 /\ Len(fs[i].recs) \in Nat
  <1>0. fs \in Seq(J!File) /\ Len(fs) \in Nat /\ (fs = <<>> <=> Len(fs) = 0) /\ \A i \in 1..Len(fs) : fs[i] \in J!File
    BY ListTyped DEF Chained
  <1>1. \A i \in 1..Len(fs) : /\ fs[i].start \in Nat /\ fs[i].start > 0 /\ Len(fs[i].recs) \in Nat
                              /\ J!LastSeq(fs[i]) = fs[i].start + Len(fs[i].recs) - 1
    BY <1>0, FileTyped DEF Chained
  <1>2. \A i \in 1..Len(fs) : J!LastSeq(fs[i]) \in Nat /\ J!LastSeq(fs[i]) >= fs[i].start - 1
    BY <1>1
  <1>3. \A i, j \in 1..Len(fs) : i < j => J!LastSeq(fs[i]) < fs[j].start
    BY DEF Chained
  <1>4. CASE fs = <<>>
    BY <1>0, <1>4 DEF Opens, Closes
  <1>5. CASE fs # <<>>
    <2>1. 1 \in 1..Len(fs) /\ Len(fs) \in 1..Len(fs)
      BY <1>0, <1>5
    <2>2. Opens(fs) = fs[1].start - 1 /\ Closes(fs) = J!LastSeq(fs[Len(fs)])
      BY <1>5 DEF Opens, Closes
    <2>3. \A i \in 1..Len(fs) : Opens(fs) < fs[i].start
      <3>1. TAKE i \in 1..Len(fs)
      <3>2. CASE i = 1
        BY <1>1, <2>1, <2>2, <3>2
      <3>3. CASE i > 1
        <4>1. J!LastSeq(fs[1]) < fs[i].start
          BY <1>3, <2>1, <3>3
        <4>2. QED
          BY <4>1, <1>1, <1>2, <2>1, <2>2
      <3>4. QED
        BY <3>2, <3>3
    <2>4. \A i \in 1..Len(fs) : J!LastSeq(fs[i]) <= Closes(fs)
      <3>1. TAKE i \in 1..Len(fs)
      <3>2. CASE i = Len(fs)
        BY <1>2, <2>1, <2>2, <3>2
      <3>3. CASE i < Len(fs)
        <4>1. J!LastSeq(fs[i]) < fs[Len(fs)].start
          BY <1>3, <2>1, <3>3
        <4>2. QED
          BY <4>1, <1>1, <1>2, <2>1, <2>2
      <3>4. QED
        BY <1>0, <3>2, <3>3
    <2>5. Opens(fs) \in Nat /\ Closes(fs) \in Nat
      BY <1>1, <1>2, <2>1, <2>2
    <2>6. Opens(fs) <= Closes(fs)
      <3>1. Opens(fs) < fs[Len(fs)].start
        BY <2>1, <2>3
      <3>2. QED
        BY <3>1, <1>1, <1>2, <2>1, <2>2, <2>5
    <2>7. QED
      BY <1>1, <1>2, <2>3, <2>4, <2>5, <2>6
  <1>6. QED
    BY <1>4, <1>5

\* Chained files hold the records of a range of numbers, one each.
LEMMA ChainHolds ==
  ASSUME NEW fs, Chained(fs)
  PROVE  Held(J!Records(fs), Opens(fs), Closes(fs))
  <1> DEFINE U == J!Records(fs)
  <1>0. fs \in Seq(J!File)
    BY DEF Chained
  <1>1. /\ Opens(fs) \in Nat /\ Closes(fs) \in Nat /\ Opens(fs) <= Closes(fs)
        /\ \A i \in 1..Len(fs) : Opens(fs) < fs[i].start /\ J!LastSeq(fs[i]) <= Closes(fs)
        /\ \A i \in 1..Len(fs) : fs[i].start \in Nat /\ J!LastSeq(fs[i]) \in Nat
        /\ \A i \in 1..Len(fs) : J!LastSeq(fs[i]) = fs[i].start + Len(fs[i].recs) - 1 /\ Len(fs[i].recs) \in Nat
    BY Spans
  <1>2. \A i \in 1..Len(fs) : \A k \in 1..Len(fs[i].recs) : fs[i].recs[k].seq = fs[i].start + k - 1
    BY DEF Chained
  <1>3. \A i, j \in 1..Len(fs) : i < j => J!LastSeq(fs[i]) < fs[j].start
    BY DEF Chained
  <1>4. /\ \A i \in 1..Len(fs) : \A k \in 1..Len(fs[i].recs) : fs[i].recs[k] \in U
        /\ \A r \in U : \E i \in 1..Len(fs) : \E k \in 1..Len(fs[i].recs) : r = fs[i].recs[k]
        /\ \A r \in U : r.seq \in Nat
    BY <1>0, RecordsAre
  <1> HIDE DEF U
  <1>5. \A r \in U : \E i \in 1..Len(fs) : /\ fs[i].start <= r.seq /\ r.seq <= J!LastSeq(fs[i])
                                           /\ r = fs[i].recs[r.seq - fs[i].start + 1]
    <2>1. TAKE r \in U
    <2>2. PICK i \in 1..Len(fs) : \E k \in 1..Len(fs[i].recs) : r = fs[i].recs[k]
      BY <1>4
    <2>2a. PICK k \in 1..Len(fs[i].recs) : r = fs[i].recs[k]
      BY <2>2
    <2>3. fs[i].start \in Nat /\ J!LastSeq(fs[i]) = fs[i].start + Len(fs[i].recs) - 1 /\ Len(fs[i].recs) \in Nat
      BY <1>1
    <2>4. r.seq = fs[i].start + k - 1 /\ k \in Nat /\ k >= 1 /\ k <= Len(fs[i].recs)
      BY <1>2, <2>2a, <2>3
    <2>5. k = r.seq - fs[i].start + 1 /\ fs[i].start <= r.seq /\ r.seq <= J!LastSeq(fs[i])
      BY <2>3, <2>4
    <2>6. QED
      BY <2>2a, <2>5
  <1>5a. \A r \in U : r.seq \in (Opens(fs) + 1)..Closes(fs)
    <2>1. TAKE r \in U
    <2>2. PICK i \in 1..Len(fs) : fs[i].start <= r.seq /\ r.seq <= J!LastSeq(fs[i])
      BY <1>5
    <2>3. /\ Opens(fs) \in Nat /\ Closes(fs) \in Nat /\ Opens(fs) < fs[i].start /\ J!LastSeq(fs[i]) <= Closes(fs)
          /\ fs[i].start \in Nat /\ J!LastSeq(fs[i]) \in Nat
      BY <1>1
    <2>4. r.seq \in Nat
      BY <1>4
    <2>5. QED
      BY <2>2, <2>3, <2>4
  <1>6. \A s \in (Opens(fs) + 1)..Closes(fs) : \E r \in U : r.seq = s
    <2>1. TAKE s \in (Opens(fs) + 1)..Closes(fs)
    <2>2. PICK i \in 1..Len(fs) : fs[i].start <= s /\ s <= J!LastSeq(fs[i])
      BY DEF Chained
    <2>3. s - fs[i].start + 1 \in 1..Len(fs[i].recs)
      BY <1>1, <2>1, <2>2
    <2>4. fs[i].recs[s - fs[i].start + 1].seq = fs[i].start + (s - fs[i].start + 1) - 1
      BY <1>2, <2>2, <2>3
    <2>5. fs[i].start + (s - fs[i].start + 1) - 1 = s
      BY <1>1, <2>1, <2>2
    <2>6. QED
      BY <1>4, <2>2, <2>3, <2>4, <2>5
  <1>7. \A r, q \in U : r.seq = q.seq => r = q
    <2>1. SUFFICES ASSUME NEW r \in U, NEW q \in U, r.seq = q.seq PROVE r = q
      OBVIOUS
    <2>2. PICK i \in 1..Len(fs) : /\ fs[i].start <= r.seq /\ r.seq <= J!LastSeq(fs[i])
                                  /\ r = fs[i].recs[r.seq - fs[i].start + 1]
      BY <1>5
    <2>3. PICK j \in 1..Len(fs) : /\ fs[j].start <= q.seq /\ q.seq <= J!LastSeq(fs[j])
                                  /\ q = fs[j].recs[q.seq - fs[j].start + 1]
      BY <1>5
    <2>4. /\ i < j => J!LastSeq(fs[i]) < fs[j].start
          /\ j < i => J!LastSeq(fs[j]) < fs[i].start
      BY <1>3
    <2>5. /\ fs[i].start \in Nat /\ J!LastSeq(fs[i]) \in Nat /\ fs[j].start \in Nat /\ J!LastSeq(fs[j]) \in Nat
          /\ r.seq \in Nat /\ q.seq \in Nat
      BY <1>1, <1>4
    <2>6. ~(i < j) /\ ~(j < i)
      BY <2>1, <2>2, <2>3, <2>4, <2>5
    <2>7. i = j
      <3>1. Len(fs) \in Nat
        BY <1>0
      <3>2. QED
        BY <2>6, <3>1
    <2>8. QED
      BY <2>1, <2>2, <2>3, <2>7
  <1>8. QED
    BY <1>5a, <1>6, <1>7 DEF Held, U

\* Whole chained files that begin at the cursor or before it are accepted.
LEMMA ChainAccepted ==
  ASSUME NEW fs, Chained(fs), Whole(fs), NEW n \in Nat, Opens(fs) <= n
  PROVE  J!Accepted(fs, n)
  <1>0. fs \in Seq(J!File) /\ Len(fs) \in Nat /\ DOMAIN fs = 1..Len(fs) /\ \A i \in 1..Len(fs) : fs[i] \in J!File
    BY ListTyped DEF Chained
  <1>1. \A i \in 1..Len(fs) : /\ DOMAIN fs[i].recs = 1..Len(fs[i].recs) /\ Len(fs[i].recs) \in Nat /\ Len(fs[i].recs) > 0
                              /\ fs[i].start \in Nat /\ ~fs[i].cut
    BY <1>0, FileTyped DEF Whole
  <1>2. \A i \in 1..Len(fs) : \A k \in 1..Len(fs[i].recs) : fs[i].recs[k].seq = fs[i].start + k - 1
    BY DEF Chained
  <1>3. \A i \in 1..Len(fs) : fs[i].start = fs[i].recs[1].seq
    <2>1. TAKE i \in 1..Len(fs)
    <2>2. 1 \in 1..Len(fs[i].recs) /\ fs[i].start \in Nat
      BY <1>1
    <2>3. fs[i].recs[1].seq = fs[i].start + 1 - 1
      BY <1>2, <2>2
    <2>4. QED
      BY <2>2, <2>3
  <1>4. fs # <<>> => fs[1].start <= n + 1
    <2>1. SUFFICES ASSUME fs # <<>> PROVE fs[1].start <= n + 1
      OBVIOUS
    <2>2. 1 \in 1..Len(fs)
      BY <1>0, <2>1
    <2>3. fs[1].start \in Nat /\ fs[1].start - 1 <= n
      BY <1>1, <2>1, <2>2 DEF Opens
    <2>4. QED
      BY <2>3
  <1>5. \A i \in 2..Len(fs) : fs[i].start = J!LastSeq(fs[i - 1]) + 1
    <2>1. TAKE i \in 2..Len(fs)
    <2>2. i - 1 \in 1..Len(fs) - 1 /\ (i - 1) + 1 = i
      BY <1>0
    <2>3. QED
      BY <2>2 DEF Chained
  <1>6. QED
    BY <1>0, <1>1, <1>2, <1>3, <1>4, <1>5 DEF J!Accepted

\* Files without their last empty one, and without a fragment, hold the same records.
LEMMA SameRecords ==
  ASSUME NEW fs, Chained(fs), NEW gs \in Seq(J!File), Len(gs) <= Len(fs),
         \A i \in 1..Len(gs) : gs[i].start = fs[i].start /\ gs[i].recs = fs[i].recs /\ ~gs[i].cut /\ gs[i].recs # <<>>,
         Len(gs) = Len(fs) \/ (Len(gs) = Len(fs) - 1 /\ fs[Len(fs)].recs = <<>>)
  PROVE  /\ Chained(gs) /\ Whole(gs)
         /\ Opens(gs) = Opens(fs) /\ Closes(gs) = Closes(fs) /\ J!Records(gs) = J!Records(fs)
  <1>0. /\ fs \in Seq(J!File) /\ Len(fs) \in Nat /\ (fs = <<>> <=> Len(fs) = 0) /\ \A i \in 1..Len(fs) : fs[i] \in J!File
        /\ Len(gs) \in Nat /\ (gs = <<>> <=> Len(gs) = 0) /\ \A i \in 1..Len(gs) : gs[i] \in J!File
    BY ListTyped DEF Chained
  <1>1. \A i \in 1..Len(gs) : i \in 1..Len(fs)
    BY <1>0
  <1>2. \A i \in 1..Len(gs) : J!LastSeq(gs[i]) = J!LastSeq(fs[i])
    BY DEF J!LastSeq
  <1>3. \A i \in 1..Len(fs) : /\ fs[i].start \in Nat /\ J!LastSeq(fs[i]) \in Nat /\ Len(fs[i].recs) \in Nat
                              /\ J!LastSeq(fs[i]) = fs[i].start + Len(fs[i].recs) - 1
    BY Spans
  <1>4. \A i \in 1..Len(fs) : Len(fs[i].recs) > 0 => i \in 1..Len(gs)
    BY <1>0
  <1>5. Opens(gs) = Opens(fs) /\ Closes(gs) = Closes(fs)
    <2>1. CASE Len(gs) = Len(fs)
      <3>1. CASE fs = <<>>
        BY <1>0, <2>1, <3>1 DEF Opens, Closes
      <3>2. CASE fs # <<>>
        <4>1. 1 \in 1..Len(gs) /\ Len(gs) \in 1..Len(gs) /\ gs # <<>>
          BY <1>0, <2>1, <3>2
        <4>2. QED
          BY <1>2, <2>1, <3>2, <4>1 DEF Opens, Closes
      <3>3. QED
        BY <3>1, <3>2
    <2>2. CASE Len(gs) = Len(fs) - 1 /\ fs[Len(fs)].recs = <<>>
      <3>1. Len(fs) \in 1..Len(fs) /\ fs # <<>> /\ Len(fs[Len(fs)].recs) = 0
        BY <1>0, <2>2
      <3>2. J!LastSeq(fs[Len(fs)]) = fs[Len(fs)].start - 1
        BY <1>3, <3>1
      <3>3. CASE Len(gs) = 0
        <4>1. Len(fs) = 1 /\ gs = <<>>
          BY <1>0, <2>2, <3>3
        <4>2. fs # <<>> /\ fs[1].recs = <<>>
          BY <2>2, <3>1, <4>1
        <4>3. fs[1].start = 1
          BY <4>2 DEF Chained
        <4>4. QED
          BY <3>1, <3>2, <4>1, <4>3 DEF Opens, Closes
      <3>4. CASE Len(gs) # 0
        <4>1. 1 \in 1..Len(gs) /\ Len(gs) \in 1..Len(gs) /\ gs # <<>>
          BY <1>0, <3>4
        <4>2. Len(gs) \in 1..Len(fs) - 1 /\ Len(gs) + 1 = Len(fs)
          BY <1>0, <2>2, <4>1
        <4>3. fs[Len(fs)].start = J!LastSeq(fs[Len(gs)]) + 1
          BY <4>2 DEF Chained
        <4>4. fs[Len(fs)].start \in Nat /\ J!LastSeq(fs[Len(gs)]) \in Nat
          BY <1>1, <1>3, <3>1, <4>1
        <4>5. Closes(fs) = J!LastSeq(gs[Len(gs)])
          BY <1>2, <3>1, <3>2, <4>1, <4>3, <4>4 DEF Closes
        <4>6. QED
          BY <3>1, <4>1, <4>5 DEF Opens, Closes
      <3>5. QED
        BY <3>3, <3>4
    <2>3. QED
      BY <2>1, <2>2
  <1>6. J!Records(gs) = J!Records(fs)
    <2>1. ASSUME NEW r \in J!Records(gs) PROVE r \in J!Records(fs)
      <3>1. PICK i \in 1..Len(gs) : \E k \in 1..Len(gs[i].recs) : r = gs[i].recs[k]
        BY RecordsAre
      <3>2. PICK k \in 1..Len(gs[i].recs) : r = gs[i].recs[k]
        BY <3>1
      <3>3. i \in 1..Len(fs) /\ k \in 1..Len(fs[i].recs) /\ r = fs[i].recs[k]
        BY <1>1, <3>2
      <3>4. QED
        BY <1>0, <3>3, RecordsAre
    <2>2. ASSUME NEW r \in J!Records(fs) PROVE r \in J!Records(gs)
      <3>1. PICK i \in 1..Len(fs) : \E k \in 1..Len(fs[i].recs) : r = fs[i].recs[k]
        BY <1>0, RecordsAre
      <3>2. PICK k \in 1..Len(fs[i].recs) : r = fs[i].recs[k]
        BY <3>1
      <3>3. i \in 1..Len(gs)
        <4>1. Len(fs[i].recs) \in Nat /\ Len(fs[i].recs) > 0
          BY <1>3, <3>2
        <4>2. QED
          BY <1>4, <4>1
      <3>4. k \in 1..Len(gs[i].recs) /\ r = gs[i].recs[k]
        BY <3>2, <3>3
      <3>5. QED
        BY <3>3, <3>4, RecordsAre
    <2>3. QED
      BY <2>1, <2>2
  <1>7. Whole(gs)
    BY DEF Whole
  <1>8. \A i \in 1..Len(gs) : gs[i].start > 0 /\ \A k \in 1..Len(gs[i].recs) : gs[i].recs[k].seq = gs[i].start + k - 1
    BY <1>1 DEF Chained
  <1>9. \A i \in 1..Len(gs) - 1 : gs[i].recs # <<>> /\ ~gs[i].cut /\ gs[i + 1].start = J!LastSeq(gs[i]) + 1
    <2>1. TAKE i \in 1..Len(gs) - 1
    <2>2. i \in 1..Len(gs) /\ i + 1 \in 1..Len(gs) /\ i \in 1..Len(fs) - 1
      BY <1>0
    <2>3. fs[i + 1].start = J!LastSeq(fs[i]) + 1
      BY <2>2 DEF Chained
    <2>4. QED
      BY <1>2, <2>2, <2>3
  <1>10. \A i, j \in 1..Len(gs) : i < j => J!LastSeq(gs[i]) < gs[j].start
    BY <1>1, <1>2 DEF Chained
  <1>11. \A s \in Opens(gs) + 1..Closes(gs) : \E i \in 1..Len(gs) : gs[i].start <= s /\ s <= J!LastSeq(gs[i])
    <2>1. TAKE s \in Opens(gs) + 1..Closes(gs)
    <2>2. s \in Opens(fs) + 1..Closes(fs) /\ s \in Int
      BY <1>5, Spans
    <2>3. PICK i \in 1..Len(fs) : fs[i].start <= s /\ s <= J!LastSeq(fs[i])
      BY <2>2 DEF Chained
    <2>4. /\ fs[i].start \in Nat /\ J!LastSeq(fs[i]) \in Nat /\ Len(fs[i].recs) \in Nat
          /\ J!LastSeq(fs[i]) = fs[i].start + Len(fs[i].recs) - 1
      BY <1>3
    <2>5. Len(fs[i].recs) > 0
      BY <2>2, <2>3, <2>4
    <2>6. i \in 1..Len(gs)
      BY <1>4, <2>5
    <2>7. QED
      BY <1>2, <2>3, <2>6
  <1>12. gs # <<>> /\ gs[1].recs = <<>> => gs[1].start = 1
    BY <1>0
  <1>13. QED
    BY <1>5, <1>6, <1>7, <1>8, <1>9, <1>10, <1>11, <1>12 DEF Chained

\* What recovery keeps.
LEMMA CleanedKeeps ==
  ASSUME NEW fs, Chained(fs)
  PROVE  LET gs == J!Cleaned(fs) IN
         /\ Chained(gs) /\ Whole(gs)
         /\ Opens(gs) = Opens(fs) /\ Closes(gs) = Closes(fs) /\ J!Records(gs) = J!Records(fs)
  <1> DEFINE gs == J!Cleaned(fs)
  <1>0. /\ fs \in Seq(J!File) /\ DOMAIN fs = 1..Len(fs) /\ (fs = <<>> <=> Len(fs) = 0)
        /\ \A i \in 1..Len(fs) : fs[i] \in J!File
    BY ListTyped DEF Chained
  <1>0a. Len(fs) \in Nat
    BY ListTyped DEF Chained
  <1>1. PICK m \in Nat : /\ m <= Len(fs)
                         /\ \/ m = Len(fs) /\ (fs = <<>> \/ fs[Len(fs)].recs # <<>>)
                            \/ m = Len(fs) - 1 /\ fs[Len(fs)].recs = <<>>
    <2>1. CASE fs = <<>> \/ fs[Len(fs)].recs # <<>>
      BY <1>0a, <2>1
    <2>2. CASE fs # <<>> /\ fs[Len(fs)].recs = <<>>
      <3>1. Len(fs) - 1 \in Nat /\ Len(fs) - 1 <= Len(fs)
        BY <1>0, <1>0a, <2>2
      <3>2. QED
        BY <2>2, <3>1
    <2>3. QED
      BY <2>1, <2>2
  <1>2. \A i \in 1..Len(fs) : fs[i].recs # <<>> <=> i \in 1..m
    <2>1. TAKE i \in 1..Len(fs)
    <2>2. CASE i = Len(fs)
      <3>1. fs # <<>> /\ Len(fs) >= 1
        BY <1>0, <1>0a, <2>2
      <3>2. CASE m = Len(fs) /\ fs[Len(fs)].recs # <<>>
        BY <1>0a, <2>2, <3>1, <3>2
      <3>3. CASE m = Len(fs) - 1 /\ fs[Len(fs)].recs = <<>>
        BY <1>0a, <2>2, <3>1, <3>3
      <3>4. QED
        BY <1>1, <3>1, <3>2, <3>3
    <2>3. CASE i < Len(fs)
      <3>1. i \in 1..Len(fs) - 1
        BY <1>0, <2>3
      <3>2. fs[i].recs # <<>>
        BY <3>1 DEF Chained
      <3>3. QED
        BY <1>0a, <1>1, <2>3, <3>2
    <2>4. QED
      BY <1>0a, <2>2, <2>3
  <1>3. J!Kept(fs) = (0 + 1)..m
    <2>1. J!Kept(fs) = {i \in 1..Len(fs) : fs[i].recs # <<>>}
      BY <1>0 DEF J!Kept
    <2>2. QED
      BY <1>0a, <1>1, <1>2, <2>1
  <1>4. Cardinality((0 + 1)..m) = m
    <2>1. Cardinality((0 + 1)..m) = IF 0 + 1 > m THEN 0 ELSE m - (0 + 1) + 1
      BY <1>1, FS_Interval
    <2>2. QED
      BY <1>1, <2>1
  <1>5. \A k \in 1..m : J!Nth((0 + 1)..m, k) = k
    <2>1. TAKE k \in 1..m
    <2>2. k \in 1..(m - 0) /\ 0 + k = k
      BY <1>1
    <2>3. J!Nth((0 + 1)..m, k) = 0 + k
      BY <1>1, <2>2, NthOfInterval
    <2>4. QED
      BY <2>2, <2>3
  <1>6. gs = [k \in 1..m |-> [fs[J!Nth((0 + 1)..m, k)] EXCEPT !.cut = FALSE]]
    BY <1>3, <1>4 DEF J!Cleaned, J!Cardinality, Cardinality
  <1>7. gs = [k \in 1..m |-> [fs[k] EXCEPT !.cut = FALSE]]
    BY <1>5, <1>6
  <1> HIDE DEF gs
  <1>8. \A k \in 1..m : k \in 1..Len(fs)
    BY <1>0a, <1>1
  <1>9. \A k \in 1..m : [fs[k] EXCEPT !.cut = FALSE] \in J!File
    BY <1>0, <1>8 DEF J!File
  <1>10. gs \in Seq(J!File) /\ Len(gs) = m
    BY <1>1, <1>7, <1>9
  <1>11. \A k \in 1..m : gs[k].start = fs[k].start /\ gs[k].recs = fs[k].recs /\ ~gs[k].cut
    BY <1>0, <1>7, <1>8 DEF J!File
  <1>12. QED
    BY <1>1, <1>2, <1>8, <1>10, <1>11, SameRecords DEF gs

\* The last segments of a chain, the first d gone.
LEMMA RestKeeps ==
  ASSUME NEW fs, Chained(fs), Whole(fs), fs # <<>>, NEW d \in 0..(Len(fs) - 1)
  PROVE  LET gs == SubSeq(fs, d + 1, Len(fs)) IN
         /\ Chained(gs) /\ Whole(gs)
         /\ Opens(gs) = fs[d + 1].start - 1 /\ Closes(gs) = Closes(fs)
         /\ J!Records(gs) = {r \in J!Records(fs) : r.seq > Opens(gs)}
  <1> DEFINE gs == SubSeq(fs, d + 1, Len(fs))
  <1>0. /\ fs \in Seq(J!File) /\ (fs = <<>> <=> Len(fs) = 0)
        /\ \A i \in 1..Len(fs) : fs[i] \in J!File
    BY ListTyped DEF Chained
  <1>1. Len(fs) \in Nat
    BY ListTyped DEF Chained
  <1>2. d \in Nat /\ d < Len(fs) /\ d + 1 \in 1..Len(fs) /\ Len(fs) \in 1..Len(fs)
    BY <1>1
  <1>3. gs \in Seq(J!File) /\ Len(gs) = Len(fs) - d /\ \A i \in 1..Len(gs) : gs[i] = fs[i + d]
    <2>1. Len(gs) = Len(fs) - d
      BY <1>0, <1>1, <1>2
    <2>2. \A i \in 1..Len(gs) : gs[i] = fs[i + d]
      <3>1. \A i \in 1..(Len(fs) - d) : gs[i] = fs[(d + 1) + i - 1]
        BY <1>0, <1>1, <1>2
      <3>2. \A i \in 1..(Len(fs) - d) : (d + 1) + i - 1 = i + d
        BY <1>2
      <3>3. QED
        BY <2>1, <3>1, <3>2
    <2>3. gs \in Seq(J!File)
      BY <1>0, <1>1, <1>2
    <2>4. QED
      BY <2>1, <2>2, <2>3
  <1> HIDE DEF gs
  <1>4. Len(gs) \in Nat /\ Len(gs) = Len(fs) - d /\ Len(gs) > 0 /\ gs # <<>>
    <2>1. Len(gs) \in Nat /\ Len(gs) = Len(fs) - d /\ Len(gs) > 0
      BY <1>1, <1>2, <1>3
    <2>2. QED
      BY <2>1, <1>3
  <1>5. \A i \in 1..Len(gs) : i + d \in 1..Len(fs)
    BY <1>1, <1>2, <1>4
  <1>6. \A i \in 1..Len(fs) : i > d => i - d \in 1..Len(gs) /\ gs[i - d] = fs[i]
    <2>1. \A i \in 1..Len(fs) : i > d => i - d \in 1..Len(gs) /\ (i - d) + d = i
      BY <1>1, <1>2, <1>4
    <2>2. QED
      BY <2>1, <1>3
  <1>7. /\ \A i \in 1..Len(fs) : fs[i].start \in Nat /\ J!LastSeq(fs[i]) \in Nat /\ Len(fs[i].recs) \in Nat
        /\ \A i \in 1..Len(fs) : J!LastSeq(fs[i]) = fs[i].start + Len(fs[i].recs) - 1
    BY Spans
  <1>8. Opens(gs) = fs[d + 1].start - 1 /\ Closes(gs) = Closes(fs)
    <2>1. gs[1] = fs[d + 1]
      <3>1. 1 \in 1..Len(gs) /\ 1 + d = d + 1
        BY <1>2, <1>4
      <3>2. QED
        BY <3>1, <1>3
    <2>2. gs[Len(gs)] = fs[Len(fs)]
      <3>1. Len(gs) \in 1..Len(gs) /\ Len(gs) + d = Len(fs)
        BY <1>1, <1>2, <1>4
      <3>2. QED
        BY <3>1, <1>3
    <2>3. QED
      BY <2>1, <2>2, <1>4 DEF Opens, Closes
  <1>9. Whole(gs)
    BY <1>3, <1>5 DEF Whole
  <1>10. \A i \in 1..Len(gs) : gs[i].start > 0 /\ \A k \in 1..Len(gs[i].recs) : gs[i].recs[k].seq = gs[i].start + k - 1
    <2>1. \A i \in 1..Len(fs) : fs[i].start > 0 /\ \A k \in 1..Len(fs[i].recs) : fs[i].recs[k].seq = fs[i].start + k - 1
      BY DEF Chained
    <2>2. QED
      BY <2>1, <1>3, <1>5
  <1>11. \A i \in 1..Len(gs) - 1 : gs[i].recs # <<>> /\ ~gs[i].cut /\ gs[i + 1].start = J!LastSeq(gs[i]) + 1
    <2>1. TAKE i \in 1..Len(gs) - 1
    <2>2. i \in 1..Len(gs) /\ i + 1 \in 1..Len(gs) /\ i + d \in 1..Len(fs) - 1 /\ (i + 1) + d = (i + d) + 1
      BY <1>1, <1>2, <1>4
    <2>3. fs[i + d].recs # <<>> /\ ~fs[i + d].cut /\ fs[(i + d) + 1].start = J!LastSeq(fs[i + d]) + 1
      BY <2>2 DEF Chained
    <2>4. gs[i] = fs[i + d] /\ gs[i + 1] = fs[(i + 1) + d]
      BY <2>2, <1>3
    <2>5. QED
      BY <2>2, <2>3, <2>4
  <1>12. \A i, j \in 1..Len(gs) : i < j => J!LastSeq(gs[i]) < gs[j].start
    <2>1. TAKE i, j \in 1..Len(gs)
    <2>2. gs[i] = fs[i + d] /\ gs[j] = fs[j + d]
      BY <1>3
    <2>3. i + d \in 1..Len(fs) /\ j + d \in 1..Len(fs) /\ (i < j => i + d < j + d)
      BY <1>2, <1>4, <1>5
    <2>4. i + d < j + d => J!LastSeq(fs[i + d]) < fs[j + d].start
      BY <2>3 DEF Chained
    <2>5. QED
      BY <2>2, <2>3, <2>4
  <1>13. Opens(fs) \in Nat /\ Opens(fs) <= Opens(gs) /\ Closes(fs) \in Nat /\ Opens(gs) \in Nat
    <2>1. Opens(fs) \in Nat /\ Opens(fs) < fs[d + 1].start /\ fs[d + 1].start \in Nat /\ Closes(fs) \in Nat
      BY <1>2, Spans
    <2>2. QED
      BY <2>1, <1>8
  <1>14. \A i \in 1..Len(fs) : i <= d => J!LastSeq(fs[i]) <= Opens(gs)
    <2>1. TAKE i \in 1..Len(fs)
    <2>2. i <= d => i < d + 1
      BY <1>2
    <2>3. i < d + 1 => J!LastSeq(fs[i]) < fs[d + 1].start
      BY <1>2 DEF Chained
    <2>4. J!LastSeq(fs[i]) \in Nat /\ fs[d + 1].start \in Nat
      BY <1>2, <1>7
    <2>5. QED
      BY <2>2, <2>3, <2>4, <1>8
  <1>15. \A s \in Opens(gs) + 1..Closes(gs) : \E i \in 1..Len(gs) : gs[i].start <= s /\ s <= J!LastSeq(gs[i])
    <2>1. TAKE s \in Opens(gs) + 1..Closes(gs)
    <2>2. s \in Opens(fs) + 1..Closes(fs) /\ s \in Int /\ s > Opens(gs)
      BY <1>8, <1>13
    <2>3. PICK i \in 1..Len(fs) : fs[i].start <= s /\ s <= J!LastSeq(fs[i])
      BY <2>2 DEF Chained
    <2>4. i > d
      <3>1. i <= d => J!LastSeq(fs[i]) <= Opens(gs)
        BY <1>14
      <3>2. J!LastSeq(fs[i]) \in Nat /\ i \in Nat
        BY <1>1, <1>7
      <3>3. QED
        BY <2>2, <2>3, <3>1, <3>2, <1>2, <1>13
    <2>5. i - d \in 1..Len(gs) /\ gs[i - d] = fs[i]
      BY <2>4, <1>6
    <2>6. QED
      BY <2>3, <2>5
  <1>16. gs # <<>> /\ gs[1].recs = <<>> => gs[1].start = 1
    <2>1. 1 \in 1..Len(gs)
      BY <1>4
    <2>2. QED
      BY <2>1, <1>9 DEF Whole
  <1>17. Chained(gs)
    BY <1>3, <1>10, <1>11, <1>12, <1>15, <1>16 DEF Chained
  <1>18. \A r \in J!Records(gs) : r \in J!Records(fs) /\ r.seq > Opens(gs)
    <2>1. TAKE r \in J!Records(gs)
    <2>2. PICK i \in 1..Len(gs) : \E k \in 1..Len(gs[i].recs) : r = gs[i].recs[k]
      BY <1>3, RecordsAre
    <2>3. PICK k \in 1..Len(gs[i].recs) : r = gs[i].recs[k]
      BY <2>2
    <2>4. i + d \in 1..Len(fs) /\ k \in 1..Len(fs[i + d].recs) /\ r = fs[i + d].recs[k]
      BY <2>3, <1>3, <1>5
    <2>5. r \in J!Records(fs)
      BY <2>4, <1>0, RecordsAre
    <2>6. Held(J!Records(gs), Opens(gs), Closes(gs)) /\ Opens(gs) \in Nat /\ Closes(gs) \in Nat
      BY <1>17, ChainHolds, Spans
    <2>7. r.seq \in (Opens(gs) + 1)..Closes(gs)
      BY <2>6, HeldAt
    <2>8. QED
      BY <2>5, <2>6, <2>7
  <1>19. \A r \in J!Records(fs) : r.seq > Opens(gs) => r \in J!Records(gs)
    <2>1. SUFFICES ASSUME NEW r \in J!Records(fs), r.seq > Opens(gs) PROVE r \in J!Records(gs)
      OBVIOUS
    <2>2. Held(J!Records(fs), Opens(fs), Closes(fs)) /\ Held(J!Records(gs), Opens(gs), Closes(gs))
      BY <1>17, ChainHolds
    <2>3. r.seq \in (Opens(fs) + 1)..Closes(fs)
      BY <2>2, <1>13, HeldAt
    <2>4. r.seq \in (Opens(gs) + 1)..Closes(gs)
      BY <2>1, <2>3, <1>8, <1>13
    <2>5. PICK q \in J!Records(gs) : q.seq = r.seq
      BY <2>2, <2>4 DEF Held
    <2>6. q \in J!Records(fs)
      BY <1>18
    <2>7. QED
      BY <2>2, <2>5, <2>6 DEF Held
  <1>20. J!Records(gs) = {r \in J!Records(fs) : r.seq > Opens(gs)}
    BY <1>18, <1>19
  <1>21. QED
    BY <1>8, <1>9, <1>17, <1>20 DEF gs

\* What retention leaves, whole or cut short: every record after the cursor.
LEMMA RetainCutKeeps ==
  ASSUME NEW fs, Chained(fs), Whole(fs), NEW n \in Nat, Opens(fs) <= n, NEW gs \in J!RetainCuts(fs, n)
  PROVE  /\ Chained(gs) /\ Whole(gs)
         /\ Opens(gs) <= n /\ Closes(gs) = Closes(fs)
         /\ J!Records(gs) \subseteq J!Records(fs)
         /\ \A m \in Nat : n <= m => J!After(gs, m) = J!After(fs, m)
  <1>1. Len(fs) \in Nat /\ (fs = <<>> <=> Len(fs) = 0)
    BY ListTyped DEF Chained
  <1>2. PICK d \in J!Releasable(fs, n) \cup {0} : gs = SubSeq(fs, d + 1, Len(fs))
    BY DEF J!RetainCuts
  <1>3. CASE fs = <<>>
    <2>1. d = 0
      BY <1>1, <1>3, <1>2 DEF J!Releasable
    <2>2. gs = fs
      BY <1>2, <1>3, <2>1
    <2>3. QED
      BY <2>2
  <1>4. CASE fs # <<>>
    <2>1. d \in 0..(Len(fs) - 1)
      BY <1>1, <1>4 DEF J!Releasable
    <2>2. /\ Chained(gs) /\ Whole(gs)
          /\ Opens(gs) = fs[d + 1].start - 1 /\ Closes(gs) = Closes(fs)
          /\ J!Records(gs) = {r \in J!Records(fs) : r.seq > Opens(gs)}
      BY <1>2, <1>4, <2>1, RestKeeps
    <2>3. Opens(gs) <= n
      <3>1. CASE d = 0
        BY <1>4, <2>2, <3>1 DEF Opens
      <3>2. CASE d # 0
        <4>1. d \in 1..Len(fs) - 1 /\ J!LastSeq(fs[d]) <= n
          BY <3>2 DEF J!Releasable
        <4>2. fs[d + 1].start = J!LastSeq(fs[d]) + 1
          BY <4>1 DEF Chained
        <4>3. J!LastSeq(fs[d]) \in Nat
          <5>1. d \in 1..Len(fs)
            BY <1>1, <4>1
          <5>2. QED
            BY <5>1, Spans
        <4>4. QED
          BY <2>2, <4>1, <4>2, <4>3
      <3>3. QED
        BY <3>1, <3>2
    <2>4. \A m \in Nat : n <= m => {r \in J!Records(gs) : r.seq > m} = {r \in J!Records(fs) : r.seq > m}
      <3>1. \A r \in J!Records(fs) : r.seq \in Nat
        BY RecordsAre DEF Chained
      <3>2. Opens(gs) \in Nat
        BY <2>2, Spans
      <3>3. SUFFICES ASSUME NEW m \in Nat, n <= m
                     PROVE  {r \in J!Records(gs) : r.seq > m} = {r \in J!Records(fs) : r.seq > m}
        OBVIOUS
      <3>4. \A r \in J!Records(fs) : r.seq > m => r.seq > Opens(gs)
        BY <2>3, <3>1, <3>2, <3>3
      <3>5. QED
        BY <2>2, <3>4
    <2>5. QED
      BY <2>2, <2>3, <2>4 DEF J!After
  <1>5. QED
    BY <1>3, <1>4

\* The greatest of finitely many numbers.
LEMMA MaxIsOne ==
  ASSUME NEW m \in Nat, NEW S \in SUBSET (0..m), S # {}
  PROVE  Max(S) \in S
  <1> DEFINE T == {m - x : x \in S}
  <1>1. T \in SUBSET Nat /\ T # {}
    <2>1. \A x \in S : m - x \in Nat
      OBVIOUS
    <2>2. QED
      BY <2>1
  <1>2. IsFiniteSet(T)
    <2>1. T \subseteq 0..m
      OBVIOUS
    <2>2. IsFiniteSet(0..m)
      BY FS_Interval
    <2>3. QED
      BY <2>1, <2>2, FS_Subset
  <1>3. Min(T) \in T /\ \A y \in T : Min(T) <= y
    BY <1>1, <1>2, MinIsLeast
  <1>4. PICK x \in S : Min(T) = m - x
    BY <1>3
  <1>5. \A y \in S : x >= y
    <2>1. TAKE y \in S
    <2>2. m - y \in T
      OBVIOUS
    <2>3. m - x <= m - y
      BY <1>3, <1>4, <2>2
    <2>4. x \in Nat /\ y \in Nat
      OBVIOUS
    <2>5. QED
      BY <2>3, <2>4
  <1>6. QED
    BY <1>5 DEF Max

\* Retention that ends is one of its cuts.
LEMMA RetainIsCut ==
  ASSUME NEW fs, Chained(fs), NEW n
  PROVE  J!Retain(fs, n) \in J!RetainCuts(fs, n)
  <1> DEFINE S == J!Releasable(fs, n) \cup {0}
  <1>1. Len(fs) \in Nat
    BY ListTyped DEF Chained
  <1>2. S \in SUBSET (0..Len(fs)) /\ S # {}
    BY <1>1 DEF J!Releasable
  <1>3. Max(S) \in S
    BY <1>1, <1>2, MaxIsOne
  <1>4. J!Max(S) = Max(S)
    BY DEF J!Max, Max
  <1>5. QED
    BY <1>3, <1>4 DEF J!Retain, J!RetainCuts

\* The last number recovery finds.
LEMMA TailIs ==
  ASSUME NEW fs, Chained(fs), NEW n \in Nat, Opens(fs) <= n, n <= Closes(fs)
  PROVE  J!TailOf(fs, n) = Closes(fs)
  <1> DEFINE S == {n} \cup {r.seq : r \in J!Records(fs)}
  <1>1. Opens(fs) \in Nat /\ Closes(fs) \in Nat /\ Held(J!Records(fs), Opens(fs), Closes(fs))
    BY ChainHolds, Spans
  <1>2. {r.seq : r \in J!Records(fs)} = (Opens(fs) + 1)..Closes(fs)
    BY <1>1 DEF Held
  <1>3. S = {n} \cup ((Opens(fs) + 1)..Closes(fs))
    BY <1>2
  <1> HIDE DEF S
  <1>4. Closes(fs) \in S /\ \A x \in S : x \in Nat /\ Closes(fs) >= x
    BY <1>1, <1>3
  <1>5. Max(S) = Closes(fs)
    <2>1. \A x \in S : (\A y \in S : x >= y) => x = Closes(fs)
      BY <1>4
    <2>2. QED
      BY <1>4, <2>1 DEF Max
  <1>6. J!Max(S) = Max(S)
    BY DEF J!Max, Max
  <1>7. QED
    BY <1>5, <1>6 DEF J!TailOf, S

\* The last file replaced by one with the same records, or (e = 1) one record more.
LEMMA ReplaceKeeps ==
  ASSUME NEW ts, Chained(ts), ts # <<>>, NEW f \in J!File, NEW e \in {0, 1}, f.start = ts[Len(ts)].start,
         Len(f.recs) = Len(ts[Len(ts)].recs) + e,
         \A k \in 1..Len(ts[Len(ts)].recs) : f.recs[k] = ts[Len(ts)].recs[k],
         e = 1 => f.recs[Len(f.recs)].seq = Closes(ts) + 1
  PROVE  LET gs == [ts EXCEPT ![Len(ts)] = f] IN
         /\ Chained(gs) /\ gs # <<>> /\ Len(gs) = Len(ts) /\ gs[Len(gs)] = f
         /\ \A i \in 1..Len(gs) : i # Len(gs) => gs[i] = ts[i]
         /\ Opens(gs) = Opens(ts) /\ Closes(gs) = Closes(ts) + e
         /\ \A r : r \in J!Records(gs) <=> r \in J!Records(ts) \/ (e = 1 /\ r = f.recs[Len(f.recs)])
  <1> DEFINE gs == [ts EXCEPT ![Len(ts)] = f]
             n == Len(ts)
             old == ts[n]
  <1>0. /\ ts \in Seq(J!File) /\ (ts = <<>> <=> Len(ts) = 0)
        /\ \A i \in 1..Len(ts) : ts[i] \in J!File
    BY ListTyped DEF Chained
  <1>1. n \in Nat /\ n > 0 /\ n \in 1..n /\ 1 \in 1..n
    <2>1. Len(ts) \in Nat
      BY <1>0
    <2>2. QED
      BY <1>0, <2>1
  <1>2. gs \in Seq(J!File) /\ Len(gs) = n /\ gs[n] = f /\ \A i \in 1..n : i # n => gs[i] = ts[i]
    BY <1>0, <1>1
  <1> HIDE DEF gs
  <1>3. gs # <<>>
    BY <1>1, <1>2
  <1>4. /\ \A i \in 1..n : ts[i].start \in Nat /\ J!LastSeq(ts[i]) \in Nat /\ Len(ts[i].recs) \in Nat
        /\ \A i \in 1..n : J!LastSeq(ts[i]) = ts[i].start + Len(ts[i].recs) - 1
        /\ Closes(ts) \in Nat /\ Opens(ts) \in Nat
    BY Spans
  <1>5. Closes(ts) = J!LastSeq(old)
    BY DEF Closes
  <1>6. J!LastSeq(f) = J!LastSeq(old) + e
    <2>1. J!LastSeq(f) = f.start + Len(f.recs) - 1
      BY DEF J!LastSeq
    <2>2. old.start \in Nat /\ Len(old.recs) \in Nat /\ J!LastSeq(old) = old.start + Len(old.recs) - 1
      BY <1>1, <1>4
    <2>3. QED
      BY <2>1, <2>2
  <1>7. \A i \in 1..n : gs[i].start = ts[i].start /\ gs[i].start \in Nat
    BY <1>2, <1>4
  <1>8. \A i \in 1..n : i # n => J!LastSeq(gs[i]) = J!LastSeq(ts[i])
    BY <1>2
  <1>9. \A i \in 1..n : J!LastSeq(ts[i]) <= J!LastSeq(gs[i])
    <2>1. TAKE i \in 1..n
    <2>2. J!LastSeq(ts[i]) \in Nat
      BY <1>4
    <2>3. CASE i # n
      BY <1>8, <2>2, <2>3
    <2>4. CASE i = n
      BY <1>2, <1>6, <2>2, <2>4
    <2>5. QED
      BY <2>3, <2>4
  <1>10. Opens(gs) = Opens(ts) /\ Closes(gs) = Closes(ts) + e
    BY <1>1, <1>2, <1>3, <1>5, <1>6, <1>7 DEF Opens, Closes
  <1>11. \A i \in 1..n : gs[i].start > 0 /\ \A k \in 1..Len(gs[i].recs) : gs[i].recs[k].seq = gs[i].start + k - 1
    <2>1. \A i \in 1..n : ts[i].start > 0 /\ \A k \in 1..Len(ts[i].recs) : ts[i].recs[k].seq = ts[i].start + k - 1
      BY DEF Chained
    <2>2. \A k \in 1..Len(f.recs) : f.recs[k].seq = f.start + k - 1
      <3>1. TAKE k \in 1..Len(f.recs)
      <3>2. old.start \in Nat /\ Len(old.recs) \in Nat /\ J!LastSeq(old) = old.start + Len(old.recs) - 1
        BY <1>1, <1>4
      <3>3. CASE k \in 1..Len(old.recs)
        BY <1>1, <2>1, <3>3
      <3>4. CASE e = 1 /\ k = Len(f.recs)
        <4>1. f.recs[k].seq = J!LastSeq(old) + 1 /\ k = Len(old.recs) + 1
          BY <1>5, <3>4
        <4>2. QED
          BY <3>2, <4>1
      <3>5. QED
        BY <3>2, <3>3, <3>4
    <2>3. TAKE i \in 1..n
    <2>4. CASE i = n
      BY <1>1, <1>2, <2>1, <2>2, <2>4
    <2>5. CASE i # n
      BY <1>2, <2>1, <2>5
    <2>6. QED
      BY <2>4, <2>5
  <1>12. \A i \in 1..n - 1 : gs[i].recs # <<>> /\ ~gs[i].cut /\ gs[i + 1].start = J!LastSeq(gs[i]) + 1
    <2>1. TAKE i \in 1..n - 1
    <2>2. i \in 1..n /\ i + 1 \in 1..n /\ i # n
      BY <1>1
    <2>3. ts[i].recs # <<>> /\ ~ts[i].cut /\ ts[i + 1].start = J!LastSeq(ts[i]) + 1
      BY DEF Chained
    <2>4. QED
      BY <1>2, <1>7, <1>8, <2>2, <2>3
  <1>13. \A i, j \in 1..n : i < j => J!LastSeq(gs[i]) < gs[j].start
    <2>1. SUFFICES ASSUME NEW i \in 1..n, NEW j \in 1..n, i < j PROVE J!LastSeq(gs[i]) < gs[j].start
      OBVIOUS
    <2>2. i # n
      BY <1>1, <2>1
    <2>3. J!LastSeq(ts[i]) < ts[j].start
      BY <2>1 DEF Chained
    <2>4. QED
      BY <1>7, <1>8, <2>2, <2>3
  <1>14. \A s \in Opens(gs) + 1..Closes(gs) : \E i \in 1..n : gs[i].start <= s /\ s <= J!LastSeq(gs[i])
    <2>1. TAKE s \in Opens(gs) + 1..Closes(gs)
    <2>2. s \in Int /\ Opens(ts) + 1 <= s /\ s <= Closes(ts) + e
      BY <1>4, <1>10
    <2>3. CASE s <= Closes(ts)
      <3>1. s \in Opens(ts) + 1..Closes(ts)
        BY <1>4, <2>2, <2>3
      <3>2. PICK i \in 1..n : ts[i].start <= s /\ s <= J!LastSeq(ts[i])
        BY <3>1 DEF Chained
      <3>3. gs[i].start = ts[i].start /\ J!LastSeq(ts[i]) \in Nat /\ J!LastSeq(ts[i]) <= J!LastSeq(gs[i])
        BY <1>4, <1>7, <1>9
      <3>4. J!LastSeq(gs[i]) \in Int
        <4>1. gs[i] \in J!File
          BY <1>2
        <4>2. QED
          BY <4>1, FileTyped
      <3>5. QED
        BY <2>2, <3>2, <3>3, <3>4
    <2>4. CASE s = Closes(ts) + 1 /\ e = 1
      <3>1. gs[n].start = old.start /\ J!LastSeq(gs[n]) = s
        BY <1>1, <1>2, <1>5, <1>6, <1>7, <2>4
      <3>2. old.start \in Nat /\ Len(old.recs) \in Nat /\ J!LastSeq(old) = old.start + Len(old.recs) - 1
        BY <1>1, <1>4
      <3>3. old.start <= s
        BY <1>5, <2>4, <3>2
      <3>4. QED
        BY <1>1, <2>2, <3>1, <3>3
    <2>5. QED
      BY <1>4, <2>2, <2>3, <2>4
  <1>15. gs[1].recs = <<>> => gs[1].start = 1
    <2>1. ts[1].recs = <<>> => ts[1].start = 1
      BY DEF Chained
    <2>2. CASE n = 1
      <3>1. f.recs = <<>> => Len(f.recs) = 0
        OBVIOUS
      <3>2. Len(old.recs) \in Nat /\ (Len(old.recs) = 0 => old.recs = <<>>)
        BY <1>0, <1>1, FileTyped
      <3>3. f.recs = <<>> => old.recs = <<>>
        BY <3>1, <3>2
      <3>4. QED
        BY <1>1, <1>2, <1>7, <2>1, <2>2, <3>3
    <2>3. CASE n # 1
      BY <1>1, <1>2, <2>1, <2>3
    <2>4. QED
      BY <2>2, <2>3
  <1>16. Chained(gs)
    BY <1>2, <1>11, <1>12, <1>13, <1>14, <1>15 DEF Chained
  <1>17. Len(old.recs) \in Nat /\ Len(f.recs) = Len(old.recs) + e
    BY <1>1, <1>4
  <1>18. \A r \in J!Records(gs) : r \in J!Records(ts) \/ (e = 1 /\ r = f.recs[Len(f.recs)])
    <2>1. TAKE r \in J!Records(gs)
    <2>2. PICK i \in 1..n : \E k \in 1..Len(gs[i].recs) : r = gs[i].recs[k]
      BY <1>2, RecordsAre
    <2>3. PICK k \in 1..Len(gs[i].recs) : r = gs[i].recs[k]
      BY <2>2
    <2>4. CASE i # n
      BY <1>0, <1>2, <2>3, <2>4, RecordsAre
    <2>5. CASE i = n
      <3>1. k \in 1..Len(f.recs) /\ r = f.recs[k]
        BY <1>2, <2>3, <2>5
      <3>2. k \in 1..Len(old.recs) \/ (e = 1 /\ k = Len(f.recs))
        BY <1>17, <3>1
      <3>3. k \in 1..Len(old.recs) => r = old.recs[k]
        BY <3>1
      <3>4. k \in 1..Len(old.recs) => r \in J!Records(ts)
        BY <1>0, <1>1, <3>3, RecordsAre
      <3>5. QED
        BY <3>1, <3>2, <3>4
    <2>6. QED
      BY <2>4, <2>5
  <1>19. \A r \in J!Records(ts) : r \in J!Records(gs)
    <2>1. TAKE r \in J!Records(ts)
    <2>2. PICK i \in 1..n : \E k \in 1..Len(ts[i].recs) : r = ts[i].recs[k]
      BY <1>0, RecordsAre
    <2>3. PICK k \in 1..Len(ts[i].recs) : r = ts[i].recs[k]
      BY <2>2
    <2>4. k \in 1..Len(gs[i].recs) /\ r = gs[i].recs[k]
      <3>1. CASE i # n
        BY <1>2, <2>3, <3>1
      <3>2. CASE i = n
        <4>1. k \in 1..Len(old.recs) /\ r = old.recs[k]
          BY <2>3, <3>2
        <4>2. k \in 1..Len(f.recs) /\ r = f.recs[k]
          BY <1>17, <4>1
        <4>3. QED
          BY <1>2, <3>2, <4>2
      <3>3. QED
        BY <3>1, <3>2
    <2>5. QED
      BY <1>2, <2>4, RecordsAre
  <1>20. e = 1 => f.recs[Len(f.recs)] \in J!Records(gs)
    <2>1. e = 1 => Len(f.recs) \in 1..Len(f.recs)
      BY <1>17
    <2>2. QED
      BY <1>1, <1>2, <2>1, RecordsAre
  <1>21. QED
    BY <1>2, <1>3, <1>10, <1>16, <1>18, <1>19, <1>20 DEF gs

\* The file an append writes to.
LEMMA TargetKeeps ==
  ASSUME Chained(journalFiles), Whole(journalFiles), broker.tail = Closes(journalFiles)
  PROVE  /\ Chained(J!Target) /\ J!Target # <<>> /\ ~J!Target[Len(J!Target)].cut
         /\ J!Target[Len(J!Target)] \in J!File
         /\ Opens(J!Target) = Opens(journalFiles) /\ Closes(J!Target) = Closes(journalFiles)
         /\ J!Records(J!Target) = J!Records(journalFiles)
  <1> DEFINE fs == journalFiles
             ts == J!Target
             new == [start |-> broker.tail + 1, recs |-> <<>>, cut |-> FALSE]
  <1>0. /\ fs \in Seq(J!File) /\ (fs = <<>> <=> Len(fs) = 0)
        /\ \A i \in 1..Len(fs) : fs[i] \in J!File
    BY ListTyped DEF Chained
  <1>1. Len(fs) \in Nat
    BY ListTyped DEF Chained
  <1>2. Closes(fs) \in Nat /\ Opens(fs) \in Nat
    BY Spans
  <1>3. CASE ~J!Full
    <2>1. ts = fs /\ fs # <<>>
      BY <1>3 DEF J!Target, J!Full
    <2>2. Len(fs) \in 1..Len(fs)
      BY <1>0, <1>1, <2>1
    <2>3. QED
      BY <1>0, <2>1, <2>2 DEF Whole
  <1>4. CASE J!Full
    <2>1. ts = Append(fs, new)
      BY <1>4 DEF J!Target
    <2>2. new \in J!File /\ new.recs = <<>> /\ Len(new.recs) = 0 /\ new.start = Closes(fs) + 1 /\ ~new.cut
      BY <1>2 DEF J!File
    <2> HIDE DEF new
    <2>3. ts \in Seq(J!File) /\ Len(ts) = Len(fs) + 1 /\ ts[Len(fs) + 1] = new /\ \A i \in 1..Len(fs) : ts[i] = fs[i]
      BY <1>0, <1>1, <2>1, <2>2
    <2> HIDE DEF ts
    <2>4. Len(ts) \in Nat /\ ts # <<>> /\ 1 \in 1..Len(ts) /\ \A i \in 1..Len(ts) : i \in 1..Len(fs) \/ i = Len(fs) + 1
      <3>1. Len(ts) \in Nat /\ Len(ts) > 0 /\ \A i \in 1..Len(ts) : i \in 1..Len(fs) \/ i = Len(fs) + 1
        BY <1>1, <2>3
      <3>2. QED
        BY <3>1
    <2>5. J!LastSeq(new) = Closes(fs)
      BY <1>2, <2>2 DEF J!LastSeq
    <2>6. Closes(ts) = Closes(fs)
      BY <2>3, <2>4, <2>5 DEF Closes
    <2>7. Opens(ts) = Opens(fs)
      <3>1. CASE fs = <<>>
        <4>1. ts[1] = new
          BY <1>0, <2>3, <3>1
        <4>2. QED
          BY <2>2, <2>4, <3>1, <4>1 DEF Opens, Closes
      <3>2. CASE fs # <<>>
        <4>1. 1 \in 1..Len(fs)
          BY <1>0, <1>1, <3>2
        <4>2. QED
          BY <2>3, <2>4, <3>2, <4>1 DEF Opens
      <3>3. QED
        BY <3>1, <3>2
    <2>8. \A i \in 1..Len(ts) : /\ ts[i].start > 0
                                /\ \A k \in 1..Len(ts[i].recs) : ts[i].recs[k].seq = ts[i].start + k - 1
      <3>1. \A i \in 1..Len(fs) : /\ fs[i].start > 0
                                  /\ \A k \in 1..Len(fs[i].recs) : fs[i].recs[k].seq = fs[i].start + k - 1
        BY DEF Chained
      <3>2. new.start > 0
        BY <1>2, <2>2
      <3>3. TAKE i \in 1..Len(ts)
      <3>4. CASE i \in 1..Len(fs)
        BY <2>3, <3>1, <3>4
      <3>5. CASE i = Len(fs) + 1
        <4>1. ts[i] = new
          BY <2>3, <3>5
        <4>2. QED
          BY <2>2, <3>2, <4>1
      <3>6. QED
        BY <2>4, <3>4, <3>5
    <2>9. \A i \in 1..Len(ts) - 1 : ts[i].recs # <<>> /\ ~ts[i].cut /\ ts[i + 1].start = J!LastSeq(ts[i]) + 1
      <3>1. TAKE i \in 1..Len(ts) - 1
      <3>2. i \in 1..Len(fs) /\ (i = Len(fs) \/ (i \in 1..Len(fs) - 1 /\ i + 1 \in 1..Len(fs)))
        BY <1>1, <2>3
      <3>3. ts[i] = fs[i] /\ fs[i].recs # <<>> /\ ~fs[i].cut
        BY <2>3, <3>2 DEF Whole
      <3>4. CASE i = Len(fs)
        <4>1. Closes(fs) = J!LastSeq(fs[i])
          BY <1>0, <1>1, <3>2, <3>4 DEF Closes
        <4>2. ts[i + 1] = new
          BY <2>3, <3>4
        <4>3. QED
          BY <2>2, <3>3, <4>1, <4>2
      <3>5. CASE i \in 1..Len(fs) - 1 /\ i + 1 \in 1..Len(fs)
        <4>1. fs[i + 1].start = J!LastSeq(fs[i]) + 1
          BY <3>5 DEF Chained
        <4>2. ts[i + 1] = fs[i + 1]
          BY <2>3, <3>5
        <4>3. QED
          BY <3>3, <4>1, <4>2
      <3>6. QED
        BY <3>2, <3>4, <3>5
    <2>10. \A i, j \in 1..Len(ts) : i < j => J!LastSeq(ts[i]) < ts[j].start
      <3>1. SUFFICES ASSUME NEW i \in 1..Len(ts), NEW j \in 1..Len(ts), i < j PROVE J!LastSeq(ts[i]) < ts[j].start
        OBVIOUS
      <3>2. i \in 1..Len(fs) /\ ts[i] = fs[i]
        <4>1. i \in 1..Len(fs)
          BY <1>1, <2>3, <3>1
        <4>2. QED
          BY <2>3, <4>1
      <3>3. CASE j \in 1..Len(fs)
        BY <2>3, <3>1, <3>2, <3>3 DEF Chained
      <3>4. CASE j = Len(fs) + 1
        <4>1. J!LastSeq(fs[i]) <= Closes(fs) /\ J!LastSeq(fs[i]) \in Nat
          BY <3>2, Spans
        <4>2. ts[j].start = Closes(fs) + 1
          BY <2>2, <2>3, <3>4
        <4>3. QED
          BY <1>2, <3>2, <4>1, <4>2
      <3>5. QED
        BY <2>4, <3>3, <3>4
    <2>11. \A s \in Opens(ts) + 1..Closes(ts) : \E i \in 1..Len(ts) : ts[i].start <= s /\ s <= J!LastSeq(ts[i])
      <3>1. TAKE s \in Opens(ts) + 1..Closes(ts)
      <3>2. PICK i \in 1..Len(fs) : fs[i].start <= s /\ s <= J!LastSeq(fs[i])
        BY <2>6, <2>7 DEF Chained
      <3>3. i \in 1..Len(ts)
        BY <1>1, <2>3
      <3>4. QED
        BY <2>3, <3>2, <3>3
    <2>12. ts[1].recs = <<>> => ts[1].start = 1
      <3>1. CASE fs = <<>>
        <4>1. ts[1] = new /\ Closes(fs) = 0
          BY <1>0, <2>3, <3>1 DEF Closes
        <4>2. QED
          BY <2>2, <4>1
      <3>2. CASE fs # <<>>
        <4>1. 1 \in 1..Len(fs)
          BY <1>0, <1>1, <3>2
        <4>2. QED
          BY <2>3, <4>1 DEF Whole
      <3>3. QED
        BY <3>1, <3>2
    <2>13. Chained(ts)
      BY <2>3, <2>8, <2>9, <2>10, <2>11, <2>12 DEF Chained
    <2>14. J!Records(ts) = J!Records(fs)
      <3>1. ASSUME NEW r \in J!Records(ts) PROVE r \in J!Records(fs)
        <4>1. PICK i \in 1..Len(ts) : \E k \in 1..Len(ts[i].recs) : r = ts[i].recs[k]
          BY <2>3, RecordsAre
        <4>2. PICK k \in 1..Len(ts[i].recs) : r = ts[i].recs[k]
          BY <4>1
        <4>3. i \in 1..Len(fs)
          <5>1. i = Len(fs) + 1 => ts[i] = new
            BY <2>3
          <5>2. i = Len(fs) + 1 => 1..Len(ts[i].recs) = {}
            BY <2>2, <5>1
          <5>3. QED
            BY <2>4, <4>2, <5>2
        <4>4. QED
          BY <1>0, <2>3, <4>2, <4>3, RecordsAre
      <3>2. ASSUME NEW r \in J!Records(fs) PROVE r \in J!Records(ts)
        <4>1. PICK i \in 1..Len(fs) : \E k \in 1..Len(fs[i].recs) : r = fs[i].recs[k]
          BY <1>0, RecordsAre
        <4>2. i \in 1..Len(ts) /\ ts[i] = fs[i]
          BY <1>1, <2>3
        <4>3. QED
          BY <2>3, <4>1, <4>2, RecordsAre
      <3>3. QED
        BY <3>1, <3>2
    <2>15. ts[Len(ts)] = new
      BY <2>3
    <2>16. QED
      BY <2>2, <2>4, <2>6, <2>7, <2>13, <2>14, <2>15 DEF ts
  <1>5. QED
    BY <1>3, <1>4

(* The log a journal is. *)

Pending == J!After(journalFiles, J!Released)
\* A step of the log from n released and p pending records to m and q, or none.
LogMove(n, p, m, q) ==
  \/ m = n /\ q = p
  \/ \E k \in 1..Len(p) : m = n + k /\ q = SubSeq(p, k + 1, Len(p))
  \/ \E w \in J!Invocations : m = n /\ q = Append(p, [seq |-> n + Len(p) + 1, by |-> w])

\* After a cursor within the files a reader finds the numbers that follow it, one each.
LEMMA AfterTyped ==
  ASSUME NEW fs, Chained(fs), NEW n \in Nat, Opens(fs) <= n, n <= Closes(fs)
  PROVE  /\ J!After(fs, n) = [k \in 1..(Closes(fs) - n) |-> J!Numbered(J!Records(fs), n + k)]
         /\ Closes(fs) - n \in Nat /\ J!After(fs, n) \in Seq(J!Record) /\ Len(J!After(fs, n)) = Closes(fs) - n
         /\ \A k \in 1..(Closes(fs) - n) : /\ J!After(fs, n)[k] \in J!Records(fs)
                                           /\ J!After(fs, n)[k].seq = n + k
  <1>1. Opens(fs) \in Nat /\ Closes(fs) \in Nat /\ Held(J!Records(fs), Opens(fs), Closes(fs))
    BY ChainHolds, Spans
  <1>2. n \in Opens(fs)..Closes(fs) /\ Closes(fs) - n \in Nat
    BY <1>1
  <1>3. J!After(fs, n) = [k \in 1..(Closes(fs) - n) |-> J!Numbered(J!Records(fs), n + k)]
    BY <1>1, <1>2, AfterIs
  <1>4. \A k \in 1..(Closes(fs) - n) : /\ J!Numbered(J!Records(fs), n + k) \in J!Records(fs)
                                       /\ J!Numbered(J!Records(fs), n + k).seq = n + k
    <2>1. \A k \in 1..(Closes(fs) - n) : n + k \in (Opens(fs) + 1)..Closes(fs)
      BY <1>1, <1>2
    <2>2. \A s \in (Opens(fs) + 1)..Closes(fs) : J!Numbered(J!Records(fs), s) \in J!Records(fs)
                                                /\ J!Numbered(J!Records(fs), s).seq = s
      BY <1>1, HeldAt
    <2>3. QED
      BY <2>1, <2>2
  <1>5. \A r \in J!Records(fs) : r \in J!Record
    BY RecordsAre DEF Chained
  <1>6. \A k \in 1..(Closes(fs) - n) : J!Numbered(J!Records(fs), n + k) \in J!Record
    BY <1>4, <1>5
  <1>7. J!After(fs, n) \in Seq(J!Record) /\ Len(J!After(fs, n)) = Closes(fs) - n
    BY <1>2, <1>3, <1>6
  <1>8. QED
    BY <1>2, <1>3, <1>4, <1>7

\* A sequence without its first d members.
LEMMA RestOf ==
  ASSUME NEW S, NEW p \in Seq(S), NEW d \in 0..Len(p)
  PROVE  SubSeq(p, d + 1, Len(p)) = [k \in 1..(Len(p) - d) |-> p[k + d]]
  <1>1. Len(p) \in Nat /\ d \in Nat /\ d <= Len(p)
    OBVIOUS
  <1>2. Len(SubSeq(p, d + 1, Len(p))) = Len(p) - d
    BY <1>1
  <1>3. \A k \in 1..(Len(p) - d) : SubSeq(p, d + 1, Len(p))[k] = p[(d + 1) + k - 1] /\ (d + 1) + k - 1 = k + d
    BY <1>1
  <1>4. SubSeq(p, d + 1, Len(p)) \in Seq(S)
    BY <1>1
  <1>5. QED
    BY <1>2, <1>3, <1>4

\* A sequence with one member more.
LEMMA AppendIs ==
  ASSUME NEW S, NEW p \in Seq(S), NEW x \in S
  PROVE  /\ Append(p, x) \in Seq(S) /\ Len(Append(p, x)) = Len(p) + 1
         /\ Append(p, x)[Len(p) + 1] = x /\ \A k \in 1..Len(p) : Append(p, x)[k] = p[k]
  OBVIOUS

\* A later cursor releases records and changes no other.
LEMMA CursorMoves ==
  ASSUME NEW fs, Chained(fs), NEW n \in Nat, Opens(fs) <= n, NEW m \in Nat, n <= m, m <= Closes(fs)
  PROVE  LogMove(n, J!After(fs, n), m, J!After(fs, m))
  <1> DEFINE p == J!After(fs, n)
             q == J!After(fs, m)
             c == Closes(fs)
  <1>1. Opens(fs) \in Nat /\ c \in Nat /\ n <= c /\ Opens(fs) <= m
    BY Spans
  <1>2. /\ p = [k \in 1..(c - n) |-> J!Numbered(J!Records(fs), n + k)] /\ p \in Seq(J!Record) /\ Len(p) = c - n
        /\ q = [k \in 1..(c - m) |-> J!Numbered(J!Records(fs), m + k)] /\ q \in Seq(J!Record) /\ Len(q) = c - m
    BY <1>1, AfterTyped
  <1> HIDE DEF p, q, c
  <1>3. CASE m = n
    BY <1>3 DEF LogMove, p, q
  <1>4. CASE m # n
    <2>1. m - n \in 1..Len(p) /\ m = n + (m - n)
      BY <1>1, <1>2, <1>4 DEF c
    <2>2. q = SubSeq(p, (m - n) + 1, Len(p))
      <3>1. SubSeq(p, (m - n) + 1, Len(p)) = [k \in 1..(c - m) |-> p[k + (m - n)]]
        <4>1. m - n \in 0..Len(p) /\ Len(p) - (m - n) = c - m
          BY <1>1, <1>2, <2>1 DEF c
        <4>2. SubSeq(p, (m - n) + 1, Len(p)) = [k \in 1..(Len(p) - (m - n)) |-> p[k + (m - n)]]
          <5>1. p \in Seq(J!Record)
            BY <1>2
          <5>2. QED
            BY <4>1, <5>1, RestOf
        <4>3. QED
          BY <4>1, <4>2
      <3>2. \A k \in 1..(c - m) : p[k + (m - n)] = J!Numbered(J!Records(fs), m + k)
        <4>1. TAKE k \in 1..(c - m)
        <4>2. k + (m - n) \in 1..(c - n) /\ n + (k + (m - n)) = m + k
          BY <1>1, <1>4 DEF c
        <4>3. p[k + (m - n)] = J!Numbered(J!Records(fs), n + (k + (m - n)))
          BY <1>2, <4>2
        <4>4. QED
          BY <4>2, <4>3
      <3>3. QED
        BY <1>2, <3>1, <3>2
    <2>3. QED
      BY <2>1, <2>2 DEF LogMove, p, q
  <1>5. QED
    BY <1>3, <1>4

\* An appended record is put.
LEMMA RecordMoves ==
  ASSUME NEW fs, Chained(fs), NEW gs, Chained(gs), NEW n \in Nat, Opens(fs) <= n, n <= Closes(fs), Opens(gs) = Opens(fs),
         NEW w \in J!Invocations,
         J!Records(gs) = J!Records(fs) \cup {[seq |-> Closes(fs) + 1, by |-> w]}, Closes(gs) = Closes(fs) + 1
  PROVE  LogMove(n, J!After(fs, n), n, J!After(gs, n))
  <1> DEFINE p == J!After(fs, n)
             q == J!After(gs, n)
             c == Closes(fs)
             new == [seq |-> c + 1, by |-> w]
  <1>1. Opens(fs) \in Nat /\ c \in Nat /\ n <= c + 1 /\ n <= Closes(gs)
    BY Spans
  <1>2. /\ p = [k \in 1..(c - n) |-> J!Numbered(J!Records(fs), n + k)] /\ p \in Seq(J!Record) /\ Len(p) = c - n
        /\ \A k \in 1..(c - n) : p[k] \in J!Records(fs) /\ p[k].seq = n + k
    BY <1>1, AfterTyped
  <1>3. /\ q \in Seq(J!Record) /\ Len(q) = Closes(gs) - n
        /\ \A k \in 1..(Closes(gs) - n) : q[k] \in J!Records(gs) /\ q[k].seq = n + k
    BY <1>1, AfterTyped
  <1> HIDE DEF p, q, c
  <1>4. Closes(gs) = c + 1 /\ c - n \in Nat /\ (c + 1) - n = (c - n) + 1
    BY <1>1 DEF c
  <1>5. \A r, s \in J!Records(gs) : r.seq = s.seq => r = s
    BY ChainHolds DEF Held
  <1>6. new \in J!Records(gs) /\ new.seq = c + 1 /\ new \in J!Record
    BY <1>1 DEF c, J!Record
  <1>7. \A k \in 1..(c - n) : q[k] = p[k]
    <2>1. TAKE k \in 1..(c - n)
    <2>2. k \in 1..(Closes(gs) - n)
      BY <1>1, <1>4
    <2>3. p[k] \in J!Records(gs)
      BY <1>2
    <2>4. QED
      BY <1>2, <1>3, <1>5, <2>2, <2>3
  <1>8. q[(c - n) + 1] = new
    <2>1. (c - n) + 1 \in 1..(Closes(gs) - n) /\ n + ((c - n) + 1) = c + 1
      BY <1>1, <1>4
    <2>2. q[(c - n) + 1] \in J!Records(gs) /\ q[(c - n) + 1].seq = c + 1
      BY <1>3, <2>1
    <2>3. QED
      BY <1>5, <1>6, <2>2
  <1> HIDE DEF new
  <1>9. q = Append(p, new)
    <2>1. Len(q) = Len(p) + 1
      BY <1>2, <1>3, <1>4
    <2>2. /\ Append(p, new) \in Seq(J!Record) /\ Len(Append(p, new)) = Len(p) + 1
          /\ Append(p, new)[Len(p) + 1] = new /\ \A k \in 1..Len(p) : Append(p, new)[k] = p[k]
      <3>1. p \in Seq(J!Record) /\ new \in J!Record
        BY <1>2, <1>6
      <3>2. QED
        BY <3>1, AppendIs
    <2>3. \A k \in 1..Len(q) : q[k] = Append(p, new)[k]
      <3>1. TAKE k \in 1..Len(q)
      <3>2. k \in 1..(c - n) \/ k = (c - n) + 1
        BY <1>2, <1>4, <2>1
      <3>3. QED
        BY <1>2, <1>7, <1>8, <2>2, <3>2
    <2>4. QED
      BY <1>3, <2>1, <2>2, <2>3
  <1>10. n + Len(p) + 1 = c + 1
    BY <1>1, <1>2, <1>4
  <1>11. q = Append(p, [seq |-> n + Len(p) + 1, by |-> w])
    BY <1>9, <1>10 DEF new
  <1>12. QED
    BY <1>11 DEF LogMove, p, q

(* The invariant of the journal, its process and its reader. *)

JournalTyped ==
  /\ ackFile \in Nat /\ latest \in Nat
  /\ broker \in [inv : J!Invocations \cup {0}, tail : Nat, ack : Nat]
  /\ reader \in [inv : J!Invocations \cup {0}, from : Nat, cursor : Nat, got : Seq(J!Record)]
  /\ Chained(journalFiles)

\* The cursor file may be ahead of the process, whose write was refused, never behind it.
Cursors ==
  /\ Opens(journalFiles) <= J!Released /\ J!Released <= ackFile /\ ackFile <= Closes(journalFiles)
  /\ J!Running => Whole(journalFiles) /\ broker.inv = latest /\ broker.tail = Closes(journalFiles)

\* The records after n are of invocation i.
OnlyBy(n, i) == \A r \in J!Records(journalFiles) : r.seq > n => r.by = i
WritersOf(fs, last) == /\ \A r, q \in J!Records(fs) : r.seq <= q.seq => r.by <= q.by
                       /\ \A r \in J!Records(fs) : r.by <= last
Authors == /\ WritersOf(journalFiles, latest)
           /\ J!Running => OnlyBy(broker.ack, latest)

Reading ==
  /\ reader.inv <= latest /\ reader.from <= reader.cursor /\ reader.cursor <= Closes(journalFiles)
  /\ reader.inv # 0 /\ reader.inv = latest => ackFile <= reader.cursor /\ OnlyBy(ackFile, latest)
  /\ J!ReadsEveryRecord

JournalInv == JournalTyped /\ Cursors /\ Authors /\ Reading
JournalStep == LogMove(J!Released, Pending, J!Released', Pending')

\* An empty journal satisfies the invariant and is an empty log.
LEMMA JournalStarts == J!Init => JournalInv /\ J!Released = 0 /\ Pending = <<>>
  <1> SUFFICES ASSUME J!Init PROVE JournalInv /\ J!Released = 0 /\ Pending = <<>>
    OBVIOUS
  <1>1. /\ journalFiles = <<>> /\ ackFile = 0 /\ latest = 0
        /\ broker = [inv |-> 0, tail |-> 0, ack |-> 0]
        /\ reader = [inv |-> 0, from |-> 0, cursor |-> 0, got |-> <<>>]
    BY DEF J!Init, J!Down, J!NoReader
  <1>2. Opens(journalFiles) = 0 /\ Closes(journalFiles) = 0 /\ Len(journalFiles) = 0
    BY <1>1 DEF Opens, Closes
  <1>3. journalFiles \in Seq(J!File)
    BY <1>1
  <1>4. 1..Len(journalFiles) = {} /\ 1..Len(journalFiles) - 1 = {} /\ Opens(journalFiles) + 1..Closes(journalFiles) = {}
    BY <1>2
  <1>5. Chained(journalFiles)
    BY <1>1, <1>3, <1>4 DEF Chained
  <1>6. ~J!Running /\ J!Released = 0
    BY <1>1 DEF J!Running, J!Released
  <1>7. J!Records(journalFiles) = {}
    BY <1>3, <1>4, RecordsAre
  <1>8. JournalTyped
    BY <1>1, <1>5 DEF JournalTyped
  <1>9. Cursors
    BY <1>1, <1>2, <1>6 DEF Cursors
  <1>10. Authors
    BY <1>6, <1>7 DEF Authors, WritersOf
  <1>11. Reading
    BY <1>1, <1>2 DEF Reading, J!ReadsEveryRecord
  <1>12. Pending = <<>>
    <2>1. Len(J!After(journalFiles, 0)) = 0 /\ J!After(journalFiles, 0) \in Seq(J!Record)
      BY <1>2, <1>5, AfterTyped
    <2>2. J!After(journalFiles, 0) = <<>>
      BY <2>1
    <2>3. QED
      BY <2>2, <1>6 DEF Pending
  <1>13. QED
    BY <1>6, <1>8, <1>9, <1>10, <1>11, <1>12 DEF JournalInv

\* Facts of an invariant state that its steps use.
LEMMA JournalFacts ==
  ASSUME JournalInv
  PROVE  /\ Opens(journalFiles) \in Nat /\ Closes(journalFiles) \in Nat /\ J!Released \in Nat
         /\ broker.inv \in Nat /\ broker.tail \in Nat /\ broker.ack \in Nat
         /\ reader.inv \in Nat /\ reader.from \in Nat /\ reader.cursor \in Nat /\ reader.got \in Seq(J!Record)
         /\ \A r \in J!Records(journalFiles) : r \in J!Record /\ r.seq \in Nat /\ r.by \in Nat
         /\ J!Running => broker.inv \in J!Invocations /\ J!Released = broker.ack
         /\ ~J!Running => J!Released = ackFile
  <1>1. J!Invocations \subseteq Nat /\ \A i \in J!Invocations \cup {0} : i \in Nat
    BY PartsAssumption DEF J!Invocations
  <1>2. /\ broker.inv \in Nat /\ broker.tail \in Nat /\ broker.ack \in Nat /\ broker.inv \in J!Invocations \cup {0}
        /\ reader.inv \in Nat /\ reader.from \in Nat /\ reader.cursor \in Nat /\ reader.got \in Seq(J!Record)
    <2>1. broker.inv \in J!Invocations \cup {0} /\ broker.tail \in Nat /\ broker.ack \in Nat
      BY DEF JournalInv, JournalTyped
    <2>2. reader.inv \in J!Invocations \cup {0} /\ reader.from \in Nat /\ reader.cursor \in Nat
      BY DEF JournalInv, JournalTyped
    <2>3. reader.got \in Seq(J!Record)
      BY DEF JournalInv, JournalTyped
    <2>4. broker.inv \in Nat /\ reader.inv \in Nat
      BY <1>1, <2>1, <2>2
    <2>5. QED
      BY <2>1, <2>2, <2>3, <2>4
  <1>3. J!Running => broker.inv \in J!Invocations /\ J!Released = broker.ack
    BY <1>2 DEF J!Running, J!Released
  <1>4. ~J!Running => J!Released = ackFile
    BY DEF J!Released
  <1>5. J!Released \in Nat
    BY <1>2, <1>3, <1>4 DEF JournalInv, JournalTyped
  <1>6. \A r \in J!Records(journalFiles) : r \in J!Record /\ r.seq \in Nat
    BY RecordsAre DEF JournalInv, JournalTyped, Chained
  <1>7. \A r \in J!Records(journalFiles) : r.by \in Nat
    BY <1>1, <1>6 DEF J!Record
  <1>8. QED
    BY <1>2, <1>3, <1>4, <1>5, <1>6, <1>7, Spans DEF JournalInv, JournalTyped

\* Starting up: the files are those found, cleaned, and the new cursor leaves only records
\* of the invocation that starts.
LEMMA BootFacts ==
  ASSUME JournalInv, ~J!Running, NEW i \in J!Invocations, J!Starts(i)
  PROVE  LET fs == J!Cleaned(journalFiles)  n == J!Retired(fs, ackFile, i) IN
         /\ Chained(fs) /\ Whole(fs) /\ Opens(fs) <= ackFile /\ Closes(fs) = Closes(journalFiles)
         /\ J!Records(fs) = J!Records(journalFiles)
         /\ n \in Nat /\ ackFile <= n /\ n <= Closes(fs) /\ J!TailOf(fs, ackFile) = Closes(fs)
         /\ OnlyBy(n, i)
         /\ i \in Nat /\ i # 0 /\ latest' = i /\ latest <= i
         /\ reader.inv = i => n = ackFile /\ reader.inv = latest
  <1> DEFINE fs == J!Cleaned(journalFiles)
             n == J!Retired(fs, ackFile, i)
             rs == J!After(fs, ackFile)
  <1>1. Chained(journalFiles) /\ ackFile \in Nat /\ latest \in Nat
    BY DEF JournalInv, JournalTyped
  <1>2. /\ Chained(fs) /\ Whole(fs) /\ Opens(fs) = Opens(journalFiles) /\ Closes(fs) = Closes(journalFiles)
        /\ J!Records(fs) = J!Records(journalFiles)
    BY <1>1, CleanedKeeps
  <1> HIDE DEF fs
  <1>3. Opens(fs) <= ackFile /\ ackFile <= Closes(fs) /\ Closes(fs) \in Nat
    BY <1>2, JournalFacts DEF JournalInv, Cursors
  <1>4. J!TailOf(fs, ackFile) = Closes(fs)
    BY <1>1, <1>2, <1>3, TailIs
  <1>5. i \in Nat /\ i # 0 /\ latest' = i /\ i \in {latest, latest + 1}
    BY PartsAssumption DEF J!Starts, J!Invocations
  <1>6. /\ \A r \in J!Records(fs) : r.seq \in Nat /\ r.by \in Nat /\ r.by <= i
        /\ \A r, q \in J!Records(fs) : r.seq <= q.seq => r.by <= q.by
    <2>1. \A r \in J!Records(fs) : r.seq \in Nat /\ r.by \in Nat /\ r.by <= latest
      BY <1>2, JournalFacts DEF JournalInv, Authors, WritersOf
    <2>2. \A r, q \in J!Records(fs) : r.seq <= q.seq => r.by <= q.by
      BY <1>2 DEF JournalInv, Authors, WritersOf
    <2>3. QED
      BY <1>1, <1>5, <2>1, <2>2
  <1>7. /\ rs \in Seq(J!Record) /\ Len(rs) = Closes(fs) - ackFile /\ Closes(fs) - ackFile \in Nat
        /\ \A k \in 1..(Closes(fs) - ackFile) : rs[k] \in J!Records(fs) /\ rs[k].seq = ackFile + k
    BY <1>1, <1>2, <1>3, AfterTyped
  <1>8. n = IF rs # <<>> /\ rs[1].by # i THEN Closes(fs) ELSE ackFile
    BY <1>4 DEF J!Retired
  <1> HIDE DEF rs, n
  <1>9. rs = <<>> <=> Closes(fs) = ackFile
    BY <1>1, <1>3, <1>7
  <1>10. \A r \in J!Records(fs) : r.seq <= Closes(fs)
    <2>1. Held(J!Records(fs), Opens(fs), Closes(fs)) /\ Opens(fs) \in Nat
      BY <1>2, ChainHolds, Spans
    <2>2. \A r \in J!Records(fs) : r.seq \in (Opens(fs) + 1)..Closes(fs)
      BY <2>1, <1>3, HeldAt
    <2>3. QED
      BY <2>1, <2>2, <1>3
  <1>11. rs # <<>> => rs[1] \in J!Records(fs) /\ rs[1].seq = ackFile + 1
    <2>1. SUFFICES ASSUME rs # <<>> PROVE rs[1] \in J!Records(fs) /\ rs[1].seq = ackFile + 1
      OBVIOUS
    <2>2. 1 \in 1..(Closes(fs) - ackFile)
      BY <1>7, <1>9, <2>1
    <2>3. QED
      BY <1>7, <2>2
  <1>12. \A r \in J!Records(fs) : r.seq > n => r.by = i
    <2>1. CASE rs # <<>> /\ rs[1].by # i
      BY <1>3, <1>6, <1>8, <1>10, <2>1
    <2>2. CASE rs # <<>> /\ rs[1].by = i
      <3>1. SUFFICES ASSUME NEW r \in J!Records(fs), r.seq > n PROVE r.by = i
        OBVIOUS
      <3>2. n = ackFile /\ r.seq \in Nat /\ rs[1].seq <= r.seq
        BY <1>1, <1>6, <1>8, <1>11, <2>2, <3>1
      <3>3. rs[1].by <= r.by /\ r.by <= i /\ r.by \in Nat
        BY <1>6, <1>11, <2>2, <3>2
      <3>4. QED
        BY <1>5, <2>2, <3>3
    <2>3. CASE rs = <<>>
      <3>1. n = Closes(fs)
        BY <1>8, <1>9, <2>3
      <3>2. QED
        BY <1>3, <1>6, <1>10, <3>1
    <2>4. QED
      BY <2>1, <2>2, <2>3
  <1>13. n \in Nat /\ ackFile <= n /\ n <= Closes(fs)
    BY <1>1, <1>3, <1>8
  <1>14. reader.inv = i => n = ackFile /\ reader.inv = latest
    <2>1. SUFFICES ASSUME reader.inv = i PROVE n = ackFile /\ reader.inv = latest
      OBVIOUS
    <2>2. reader.inv <= latest /\ reader.inv = latest
      BY <1>1, <1>5, <2>1 DEF JournalInv, Reading
    <2>3. OnlyBy(ackFile, latest)
      BY <1>5, <2>1, <2>2 DEF JournalInv, Reading
    <2>4. rs # <<>> => rs[1].by = i
      <3>1. SUFFICES ASSUME rs # <<>> PROVE rs[1].by = i
        OBVIOUS
      <3>2. rs[1] \in J!Records(journalFiles) /\ rs[1].seq > ackFile
        BY <1>1, <1>2, <1>11, <3>1
      <3>3. QED
        BY <2>1, <2>2, <2>3, <3>2 DEF OnlyBy
    <2>5. QED
      BY <1>8, <2>2, <2>4
  <1>15. OnlyBy(n, i)
    BY <1>2, <1>12 DEF OnlyBy
  <1>16. QED
    BY <1>1, <1>2, <1>3, <1>4, <1>5, <1>13, <1>14, <1>15 DEF fs, n

\* A part of the records keeps the order of their writers.
LEMMA FewerWritten ==
  ASSUME NEW fs, NEW gs, J!Records(gs) \subseteq J!Records(fs), NEW l \in Nat, NEW m \in Nat, l <= m, WritersOf(fs, l),
         \A r \in J!Records(fs) : r.by \in Nat
  PROVE  WritersOf(gs, m)
  BY DEF WritersOf

\* A process that starts: the cursor it writes and the files it leaves.
LEMMA JournalBoot == ASSUME JournalInv, NEW i \in J!Invocations, J!Boot(i) PROVE JournalInv' /\ JournalStep
  <1> DEFINE fs == J!Cleaned(journalFiles)
             n == J!Retired(fs, ackFile, i)
  <1>1. /\ ~J!Running /\ J!Starts(i) /\ journalFiles' = J!Retain(fs, n) /\ ackFile' = n /\ reader' = reader
        /\ broker' = [inv |-> i, tail |-> J!TailOf(fs, ackFile), ack |-> n]
    BY DEF J!Boot
  <1>2. /\ Chained(fs) /\ Whole(fs) /\ Opens(fs) <= ackFile /\ Closes(fs) = Closes(journalFiles)
        /\ J!Records(fs) = J!Records(journalFiles)
        /\ n \in Nat /\ ackFile <= n /\ n <= Closes(fs) /\ J!TailOf(fs, ackFile) = Closes(fs)
        /\ OnlyBy(n, i)
        /\ i \in Nat /\ i # 0 /\ latest' = i /\ latest <= i
        /\ reader.inv = i => n = ackFile /\ reader.inv = latest
    BY <1>1, BootFacts
  <1> HIDE DEF fs, n
  <1>3. ackFile \in Nat /\ latest \in Nat /\ Closes(fs) \in Nat /\ Opens(fs) \in Nat
    BY <1>2, Spans DEF JournalInv, JournalTyped
  <1>4. Opens(fs) <= n
    BY <1>2, <1>3
  <1>5. /\ Chained(journalFiles') /\ Whole(journalFiles') /\ Opens(journalFiles') <= n
        /\ Closes(journalFiles') = Closes(fs) /\ J!Records(journalFiles') \subseteq J!Records(journalFiles)
        /\ \A m \in Nat : n <= m => J!After(journalFiles', m) = J!After(fs, m)
    <2>1. J!Retain(fs, n) \in J!RetainCuts(fs, n)
      BY <1>2, RetainIsCut
    <2>2. QED
      BY <1>1, <1>2, <1>4, <2>1, RetainCutKeeps
  <1>6. J!Running' /\ J!Released' = n /\ J!Released = ackFile
    BY <1>1, <1>2, JournalFacts DEF J!Running, J!Released
  <1>7. JournalTyped'
    BY <1>1, <1>2, <1>3, <1>5 DEF JournalInv, JournalTyped
  <1>8. Cursors'
    BY <1>1, <1>2, <1>5, <1>6 DEF Cursors
  <1>9. Authors'
    <2>1. WritersOf(journalFiles', latest')
      BY <1>2, <1>3, <1>5, JournalFacts, FewerWritten DEF JournalInv, Authors
    <2>2. \A r \in J!Records(journalFiles') : r.seq > n => r.by = i
      BY <1>2, <1>5 DEF OnlyBy
    <2>3. QED
      BY <1>1, <1>2, <2>1, <2>2 DEF Authors, OnlyBy
  <1>10. Reading'
    <2>1. reader.inv <= latest /\ reader.from <= reader.cursor /\ reader.cursor <= Closes(journalFiles)
      BY DEF JournalInv, Reading
    <2>2. reader.inv <= i
      BY <1>2, <1>3, <2>1, JournalFacts
    <2>3. reader.inv = i => n <= reader.cursor
      BY <1>2 DEF JournalInv, Reading
    <2>4. \A r \in J!Records(journalFiles') : r.seq > n => r.by = i
      BY <1>2, <1>5 DEF OnlyBy
    <2>5. J!ReadsEveryRecord'
      BY <1>1 DEF JournalInv, Reading, J!ReadsEveryRecord
    <2>6. QED
      BY <1>1, <1>2, <1>5, <2>1, <2>2, <2>3, <2>4, <2>5 DEF Reading, OnlyBy
  <1>11. JournalStep
    <2>1. LogMove(ackFile, J!After(fs, ackFile), n, J!After(fs, n))
      BY <1>2, <1>3, CursorMoves
    <2>2. J!After(fs, ackFile) = J!After(journalFiles, ackFile)
      BY <1>2 DEF J!After
    <2>3. J!After(journalFiles', n) = J!After(fs, n)
      BY <1>2, <1>5
    <2>4. Pending = J!After(journalFiles, ackFile) /\ Pending' = J!After(journalFiles', n)
      BY <1>6 DEF Pending
    <2>5. QED
      BY <1>6, <2>1, <2>2, <2>3, <2>4 DEF JournalStep
  <1>12. QED
    BY <1>7, <1>8, <1>9, <1>10, <1>11 DEF JournalInv

\* A process that dies while it starts, or that is told nothing more: what the next one finds.
LEMMA JournalDies ==
  ASSUME JournalInv, Chained(journalFiles'), Closes(journalFiles') = Closes(journalFiles),
         Opens(journalFiles') <= ackFile', J!Records(journalFiles') \subseteq J!Records(journalFiles),
         J!After(journalFiles', ackFile') = J!After(journalFiles, ackFile'),
         ackFile' \in Nat, J!Released <= ackFile', ackFile' <= Closes(journalFiles),
         latest' \in Nat, latest <= latest',
         reader.inv # 0 /\ reader.inv = latest' => ackFile' <= reader.cursor /\ OnlyBy(ackFile', latest'),
         broker' = J!Down \/ (~J!Running /\ broker' = broker), reader' = reader
  PROVE  JournalInv' /\ JournalStep
  <1>1. ~J!Running' /\ J!Released' = ackFile'
    BY DEF J!Down, J!Running, J!Released
  <1>2. /\ Opens(journalFiles) <= J!Released /\ J!Released <= ackFile /\ J!Released \in Nat /\ ackFile \in Nat
        /\ latest \in Nat /\ reader.inv \in Nat /\ reader.inv <= latest /\ reader.cursor <= Closes(journalFiles)
    BY JournalFacts DEF JournalInv, JournalTyped, Cursors, Reading
  <1>3. JournalTyped'
    BY DEF JournalInv, JournalTyped, J!Down
  <1>4. Cursors'
    BY <1>1, <1>2 DEF Cursors
  <1>5. Authors'
    BY <1>1, <1>2, JournalFacts, FewerWritten DEF JournalInv, Authors
  <1>6. Reading'
    <2>1. reader.inv <= latest'
      BY <1>2
    <2>2. J!ReadsEveryRecord'
      BY DEF JournalInv, Reading, J!ReadsEveryRecord
    <2>3. reader.inv # 0 /\ reader.inv = latest' =>
            \A r \in J!Records(journalFiles') : r.seq > ackFile' => r.by = latest'
      BY DEF OnlyBy
    <2>4. reader.from <= reader.cursor
      BY DEF JournalInv, Reading
    <2>5. QED
      BY <1>2, <2>1, <2>2, <2>3, <2>4 DEF Reading, OnlyBy
  <1>7. JournalStep
    <2>1. Chained(journalFiles)
      BY DEF JournalInv, JournalTyped
    <2>2. LogMove(J!Released, J!After(journalFiles, J!Released), ackFile', J!After(journalFiles, ackFile'))
      BY <1>2, <2>1, CursorMoves
    <2>3. Pending' = J!After(journalFiles', ackFile')
      BY <1>1 DEF Pending
    <2>4. QED
      BY <1>1, <2>2, <2>3 DEF JournalStep, Pending
  <1>8. QED
    BY <1>3, <1>4, <1>5, <1>6, <1>7 DEF JournalInv

\* A death inside a recovery leaves files and a cursor that the next one accepts.
LEMMA JournalBootCut == ASSUME JournalInv, NEW i \in J!Invocations, J!BootCut(i) PROVE JournalInv' /\ JournalStep
  <1> DEFINE fs == J!Cleaned(journalFiles)
             n == J!Retired(fs, ackFile, i)
  <1>1. /\ ~J!Running /\ J!Starts(i) /\ broker' = broker /\ reader' = reader
        /\ \/ journalFiles' \in J!RetainCuts(fs, ackFile) /\ ackFile' = ackFile
           \/ journalFiles' \in J!RetainCuts(J!Retain(fs, ackFile), n) /\ ackFile' = n
    BY DEF J!BootCut
  <1>2. /\ Chained(fs) /\ Whole(fs) /\ Opens(fs) <= ackFile /\ Closes(fs) = Closes(journalFiles)
        /\ J!Records(fs) = J!Records(journalFiles)
        /\ n \in Nat /\ ackFile <= n /\ n <= Closes(fs)
        /\ OnlyBy(n, i)
        /\ i \in Nat /\ i # 0 /\ latest' = i /\ latest <= i
        /\ reader.inv = i => n = ackFile /\ reader.inv = latest
    BY <1>1, BootFacts
  <1> HIDE DEF fs, n
  <1>3. ackFile \in Nat /\ latest \in Nat /\ ackFile <= Closes(fs)
    BY <1>2 DEF JournalInv, JournalTyped, Cursors
  <1>4. \A m \in Nat : J!After(fs, m) = J!After(journalFiles, m)
    BY <1>2 DEF J!After
  <1>9. J!Released <= ackFile'
    BY <1>1, <1>2, <1>3, JournalFacts
  <1>6. CASE journalFiles' \in J!RetainCuts(fs, ackFile) /\ ackFile' = ackFile
    <2>1. /\ Chained(journalFiles') /\ Opens(journalFiles') <= ackFile /\ Closes(journalFiles') = Closes(fs)
          /\ J!Records(journalFiles') \subseteq J!Records(fs)
          /\ J!After(journalFiles', ackFile) = J!After(fs, ackFile)
      BY <1>2, <1>3, <1>6, RetainCutKeeps
    <2>2. reader.inv # 0 /\ reader.inv = latest' => ackFile' <= reader.cursor /\ OnlyBy(ackFile', latest')
      BY <1>2, <1>6 DEF JournalInv, Reading
    <2>3. QED
      BY <1>1, <1>2, <1>3, <1>4, <1>6, <1>9, <2>1, <2>2, JournalDies
  <1>7. CASE journalFiles' \in J!RetainCuts(J!Retain(fs, ackFile), n) /\ ackFile' = n
    <2> DEFINE gs == J!Retain(fs, ackFile)
    <2>1. gs \in J!RetainCuts(fs, ackFile)
      BY <1>2, RetainIsCut
    <2> HIDE DEF gs
    <2>2. /\ Chained(gs) /\ Whole(gs) /\ Opens(gs) <= ackFile /\ Closes(gs) = Closes(fs)
          /\ J!Records(gs) \subseteq J!Records(fs)
          /\ \A m \in Nat : ackFile <= m => J!After(gs, m) = J!After(fs, m)
      BY <1>2, <1>3, <2>1, RetainCutKeeps
    <2>3. Opens(gs) \in Nat /\ Opens(gs) <= n
      BY <1>2, <1>3, <2>2, Spans
    <2>4. /\ Chained(journalFiles') /\ Opens(journalFiles') <= n /\ Closes(journalFiles') = Closes(gs)
          /\ J!Records(journalFiles') \subseteq J!Records(gs)
          /\ J!After(journalFiles', n) = J!After(gs, n)
      BY <1>2, <1>7, <2>2, <2>3, RetainCutKeeps DEF gs
    <2>5. J!After(journalFiles', n) = J!After(journalFiles, n)
      BY <1>2, <1>4, <2>2, <2>4
    <2>6. reader.inv # 0 /\ reader.inv = latest' => ackFile' <= reader.cursor /\ OnlyBy(ackFile', latest')
      BY <1>2, <1>7 DEF JournalInv, Reading
    <2>7. QED
      BY <1>1, <1>2, <1>3, <1>7, <1>9, <2>2, <2>4, <2>5, <2>6, JournalDies
  <1>8. QED
    BY <1>1, <1>6, <1>7

\* What a running process has in its files and in memory.
LEMMA RunningFacts ==
  ASSUME JournalInv, J!Running
  PROVE  /\ Chained(journalFiles) /\ Whole(journalFiles) /\ broker.inv = latest /\ broker.tail = Closes(journalFiles)
         /\ latest \in Nat /\ ackFile \in Nat /\ latest \in J!Invocations /\ latest # 0
         /\ Opens(journalFiles) <= broker.ack /\ broker.ack <= ackFile /\ ackFile <= Closes(journalFiles)
         /\ OnlyBy(broker.ack, latest) /\ OnlyBy(ackFile, latest)
  <1>1. /\ Chained(journalFiles) /\ Whole(journalFiles) /\ broker.inv = latest /\ broker.tail = Closes(journalFiles)
        /\ latest \in Nat /\ ackFile \in Nat /\ latest # 0
    BY DEF JournalInv, JournalTyped, Cursors, J!Running
  <1>2. Opens(journalFiles) <= broker.ack /\ broker.ack <= ackFile /\ ackFile <= Closes(journalFiles)
    BY JournalFacts DEF JournalInv, Cursors
  <1>3. OnlyBy(broker.ack, latest)
    BY DEF JournalInv, Authors
  <1>4. OnlyBy(ackFile, latest)
    <2>1. \A r \in J!Records(journalFiles) : r.seq \in Nat
      BY JournalFacts
    <2>2. broker.ack \in Nat
      BY JournalFacts
    <2>3. \A r \in J!Records(journalFiles) : r.seq > ackFile => r.seq > broker.ack
      BY <1>1, <1>2, <2>1, <2>2
    <2>4. QED
      BY <1>3, <2>3 DEF OnlyBy
  <1>5. latest \in J!Invocations
    BY <1>1, JournalFacts
  <1>6. QED
    BY <1>1, <1>2, <1>3, <1>4, <1>5

\* The process may end between two calls.
LEMMA JournalKill == ASSUME JournalInv, J!Kill PROVE JournalInv' /\ JournalStep
  <1>1. J!Running /\ broker' = J!Down /\ UNCHANGED <<journalFiles, ackFile, latest, reader>>
    BY DEF J!Kill
  <1>2. reader.inv # 0 /\ reader.inv = latest => ackFile <= reader.cursor /\ OnlyBy(ackFile, latest)
    BY DEF JournalInv, Reading
  <1>3. Opens(journalFiles) <= ackFile
    BY <1>1, RunningFacts, JournalFacts
  <1>4. QED
    BY <1>1, <1>2, <1>3, RunningFacts, JournalFacts, JournalDies

\* The last file with the same records, and with one record more.
LEMMA SameLastKeeps ==
  ASSUME NEW ts, Chained(ts), ts # <<>>, NEW f \in J!File, f.start = ts[Len(ts)].start, f.recs = ts[Len(ts)].recs
  PROVE  LET gs == [ts EXCEPT ![Len(ts)] = f] IN
         Chained(gs) /\ Opens(gs) = Opens(ts) /\ Closes(gs) = Closes(ts) /\ J!Records(gs) = J!Records(ts)
  <1> DEFINE gs == [ts EXCEPT ![Len(ts)] = f]
  <1>1. ts \in Seq(J!File) /\ Len(f.recs) \in Nat
    BY FileTyped DEF Chained
  <1>2. 0 \in {0, 1} /\ Len(f.recs) = Len(ts[Len(ts)].recs) + 0 /\ ~(0 = 1)
        /\ \A k \in 1..Len(ts[Len(ts)].recs) : f.recs[k] = ts[Len(ts)].recs[k]
    BY <1>1
  <1>3. /\ Chained(gs) /\ Opens(gs) = Opens(ts) /\ Closes(gs) = Closes(ts) + 0
        /\ \A r : r \in J!Records(gs) <=> r \in J!Records(ts) \/ (0 = 1 /\ r = f.recs[Len(f.recs)])
    BY <1>2, ReplaceKeeps
  <1>4. Closes(ts) + 0 = Closes(ts)
    BY Spans
  <1> HIDE DEF gs
  <1>5. J!Records(gs) = J!Records(ts)
    BY <1>3, <1>2
  <1>6. QED
    BY <1>3, <1>4, <1>5 DEF gs

Longer(ts, f, rec) ==
  /\ f.start = ts[Len(ts)].start /\ Len(f.recs) = Len(ts[Len(ts)].recs) + 1
  /\ f.recs[Len(f.recs)] = rec /\ rec.seq = Closes(ts) + 1
  /\ \A k \in 1..Len(ts[Len(ts)].recs) : f.recs[k] = ts[Len(ts)].recs[k]

\* A record more in the last file lengthens the chain by one number.
LEMMA LongerLastKeeps ==
  ASSUME NEW ts, Chained(ts), ts # <<>>, NEW f \in J!File, NEW rec, Longer(ts, f, rec)
  PROVE  LET gs == [ts EXCEPT ![Len(ts)] = f] IN
         /\ Chained(gs) /\ gs # <<>> /\ Len(gs) = Len(ts) /\ gs[Len(gs)] = f
         /\ \A i \in 1..Len(gs) : i # Len(gs) => gs[i] = ts[i]
         /\ Opens(gs) = Opens(ts) /\ Closes(gs) = Closes(ts) + 1 /\ J!Records(gs) = J!Records(ts) \cup {rec}
  <1> DEFINE gs == [ts EXCEPT ![Len(ts)] = f]
  <1>0. /\ f.start = ts[Len(ts)].start /\ Len(f.recs) = Len(ts[Len(ts)].recs) + 1
        /\ \A k \in 1..Len(ts[Len(ts)].recs) : f.recs[k] = ts[Len(ts)].recs[k]
    BY DEF Longer
  <1>1. 1 \in {0, 1} /\ (1 = 1 => f.recs[Len(f.recs)].seq = Closes(ts) + 1) /\ f.recs[Len(f.recs)] = rec
    BY DEF Longer
  <1>2. /\ Chained(gs) /\ gs # <<>> /\ Len(gs) = Len(ts) /\ gs[Len(gs)] = f
        /\ \A i \in 1..Len(gs) : i # Len(gs) => gs[i] = ts[i]
        /\ Opens(gs) = Opens(ts) /\ Closes(gs) = Closes(ts) + 1
        /\ \A r : r \in J!Records(gs) <=> r \in J!Records(ts) \/ (1 = 1 /\ r = f.recs[Len(f.recs)])
    BY <1>0, <1>1, ReplaceKeeps
  <1> HIDE DEF gs
  <1>3. J!Records(gs) = J!Records(ts) \cup {rec}
    BY <1>1, <1>2
  <1>4. QED
    BY <1>2, <1>3 DEF gs

\* A record is put at the end of the log.
LEMMA JournalAppend == ASSUME JournalInv, J!AppendRecord PROVE JournalInv' /\ JournalStep
  <1> DEFINE fs == journalFiles
             ts == J!Target
             cur == J!Target[Len(J!Target)]
             rec == [seq |-> broker.tail + 1, by |-> broker.inv]
             f == [cur EXCEPT !.recs = Append(@, rec)]
             gs == [ts EXCEPT ![Len(ts)] = f]
  <1>1. /\ J!Running /\ journalFiles' = gs /\ broker' = [broker EXCEPT !.tail = @ + 1]
        /\ UNCHANGED <<ackFile, latest, reader>>
    BY DEF J!AppendRecord, J!Written, J!InTarget, J!Current
  <1>2. /\ Chained(fs) /\ Whole(fs) /\ broker.inv = latest /\ broker.tail = Closes(fs)
        /\ latest \in Nat /\ ackFile \in Nat /\ latest \in J!Invocations
        /\ Opens(fs) <= broker.ack /\ broker.ack <= ackFile /\ ackFile <= Closes(fs)
        /\ OnlyBy(broker.ack, latest) /\ OnlyBy(ackFile, latest)
    BY <1>1, RunningFacts
  <1>3. /\ Opens(fs) \in Nat /\ Closes(fs) \in Nat /\ broker.ack \in Nat
        /\ reader.inv \in Nat /\ reader.cursor \in Nat
        /\ \A r \in J!Records(fs) : r \in J!Record /\ r.seq \in Nat /\ r.by \in Nat
    BY JournalFacts
  <1>4. /\ Chained(ts) /\ ts # <<>> /\ ~cur.cut /\ cur \in J!File
        /\ Opens(ts) = Opens(fs) /\ Closes(ts) = Closes(fs) /\ J!Records(ts) = J!Records(fs)
    BY <1>2, TargetKeeps
  <1>5. rec \in J!Record /\ rec.seq = Closes(fs) + 1 /\ rec.by = latest
    BY <1>2, <1>3 DEF J!Record
  <1> HIDE DEF rec
  <1>6. cur.recs \in Seq(J!Record) /\ Len(cur.recs) \in Nat
    BY <1>4, FileTyped
  <1>7. /\ Append(cur.recs, rec) \in Seq(J!Record) /\ Len(Append(cur.recs, rec)) = Len(cur.recs) + 1
        /\ Append(cur.recs, rec)[Len(cur.recs) + 1] = rec
        /\ \A k \in 1..Len(cur.recs) : Append(cur.recs, rec)[k] = cur.recs[k]
    BY <1>5, <1>6, AppendIs
  <1> HIDE DEF ts, cur
  <1>8. f \in J!File /\ f.start = cur.start /\ f.cut = cur.cut /\ f.recs = Append(cur.recs, rec)
    BY <1>4, <1>7 DEF J!File
  <1> HIDE DEF f
  <1>9. /\ Len(f.recs) = Len(cur.recs) + 1 /\ f.recs[Len(f.recs)] = rec /\ f.recs[Len(f.recs)].seq = Closes(ts) + 1
        /\ \A k \in 1..Len(cur.recs) : f.recs[k] = cur.recs[k]
    BY <1>4, <1>5, <1>7, <1>8
  <1>10. /\ Chained(gs) /\ gs # <<>> /\ Len(gs) = Len(ts) /\ gs[Len(gs)] = f
         /\ \A i \in 1..Len(gs) : i # Len(gs) => gs[i] = ts[i]
         /\ Opens(gs) = Opens(ts) /\ Closes(gs) = Closes(ts) + 1 /\ J!Records(gs) = J!Records(ts) \cup {rec}
    <2>1. cur = ts[Len(ts)]
      BY DEF cur, ts
    <2>2. Longer(ts, f, rec)
      BY <1>4, <1>5, <1>8, <1>9, <2>1 DEF Longer
    <2>3. Chained(ts) /\ ts # <<>> /\ f \in J!File
      BY <1>4, <1>8
    <2>4. QED
      BY <2>2, <2>3, LongerLastKeeps
  <1> HIDE DEF gs
  <1>11. J!Records(gs) = J!Records(fs) \cup {rec} /\ Closes(gs) = Closes(fs) + 1 /\ Opens(gs) = Opens(fs)
    BY <1>4, <1>10
  <1>12. Whole(gs)
    <2>1. Len(gs) \in Nat
      <3>1. gs \in Seq(J!File)
        BY <1>10 DEF Chained
      <3>2. QED
        BY <3>1, ListTyped
    <2>2. SUFFICES ASSUME NEW i \in 1..Len(gs) PROVE gs[i].recs # <<>> /\ ~gs[i].cut
      BY DEF Whole
    <2>3. CASE i = Len(gs)
      <3>1. f.recs # <<>>
        <4>1. Len(f.recs) > 0
          BY <1>6, <1>9
        <4>2. QED
          BY <1>8, <4>1, FileTyped
      <3>2. QED
        BY <1>4, <1>8, <1>10, <2>3, <3>1
    <2>4. CASE i # Len(gs)
      <3>1. i \in 1..Len(gs) - 1
        BY <2>1, <2>4
      <3>2. QED
        BY <1>10, <3>1 DEF Chained
    <2>5. QED
      BY <2>3, <2>4
  <1>13. J!Running' /\ J!Released' = broker.ack /\ J!Released = broker.ack
    BY <1>1, JournalFacts DEF J!Running, J!Released, JournalInv, JournalTyped
  <1>14. JournalTyped'
    BY <1>1, <1>10 DEF JournalInv, JournalTyped
  <1>15. Cursors'
    <2>1. broker'.inv = broker.inv /\ broker'.tail = broker.tail + 1 /\ broker'.ack = broker.ack
      BY <1>1 DEF JournalInv, JournalTyped
    <2>2. ackFile <= Closes(fs) + 1
      BY <1>2, <1>3
    <2>3. QED
      BY <1>1, <1>2, <1>11, <1>12, <1>13, <2>1, <2>2 DEF Cursors
  <1>16. \A r \in J!Records(gs) : r \in J!Records(fs) \/ r = rec
    BY <1>11
  <1>17. \A r \in J!Records(fs) : r.seq <= Closes(fs) /\ r.by <= latest
    <2>1. Held(J!Records(fs), Opens(fs), Closes(fs))
      BY <1>2, ChainHolds
    <2>2. \A r \in J!Records(fs) : r.seq \in (Opens(fs) + 1)..Closes(fs)
      BY <1>3, <2>1, HeldAt
    <2>3. QED
      BY <1>3, <2>2 DEF JournalInv, Authors, WritersOf
  <1>18. Authors'
    <2>1. WritersOf(gs, latest)
      <3>1. \A r \in J!Records(gs) : r.by <= latest
        BY <1>2, <1>5, <1>16, <1>17
      <3>2. SUFFICES ASSUME NEW r \in J!Records(gs), NEW q \in J!Records(gs), r.seq <= q.seq PROVE r.by <= q.by
        BY <3>1 DEF WritersOf
      <3>3. CASE q = rec
        BY <1>5, <3>1, <3>3
      <3>4. CASE q \in J!Records(fs) /\ r = rec
        BY <1>3, <1>5, <1>17, <3>2, <3>4
      <3>5. CASE q \in J!Records(fs) /\ r \in J!Records(fs)
        BY <3>2, <3>5 DEF JournalInv, Authors, WritersOf
      <3>6. QED
        BY <1>16, <3>3, <3>4, <3>5
    <2>2. \A r \in J!Records(gs) : r.seq > broker.ack => r.by = latest
      BY <1>2, <1>5, <1>16 DEF OnlyBy
    <2>3. broker'.ack = broker.ack
      BY <1>1 DEF JournalInv, JournalTyped
    <2>4. QED
      BY <1>1, <2>1, <2>2, <2>3 DEF Authors, OnlyBy
  <1>19. Reading'
    <2>1. \A r \in J!Records(gs) : r.seq > ackFile => r.by = latest
      BY <1>2, <1>5, <1>16 DEF OnlyBy
    <2>2. J!ReadsEveryRecord'
      BY <1>1 DEF JournalInv, Reading, J!ReadsEveryRecord
    <2>3. reader.cursor <= Closes(gs)
      BY <1>3, <1>11 DEF JournalInv, Reading
    <2>4. QED
      BY <1>1, <2>1, <2>2, <2>3 DEF JournalInv, Reading, OnlyBy
  <1>20. JournalStep
    <2>1. broker.ack <= Closes(fs)
      BY <1>2, <1>3
    <2>2. J!Records(gs) = J!Records(fs) \cup {[seq |-> Closes(fs) + 1, by |-> latest]}
      BY <1>2, <1>11 DEF rec
    <2>3. LogMove(broker.ack, J!After(fs, broker.ack), broker.ack, J!After(gs, broker.ack))
      BY <1>2, <1>3, <1>10, <1>11, <2>1, <2>2, RecordMoves
    <2>4. Pending = J!After(fs, broker.ack) /\ Pending' = J!After(gs, broker.ack)
      BY <1>1, <1>13 DEF Pending
    <2>5. QED
      BY <1>13, <2>3, <2>4 DEF JournalStep
  <1>21. QED
    BY <1>14, <1>15, <1>18, <1>19, <1>20 DEF JournalInv

\* A death inside an append leaves a file without a line or a fragment, and no record.
LEMMA JournalAppendCut == ASSUME JournalInv, J!AppendCut PROVE JournalInv' /\ JournalStep
  <1> DEFINE ts == J!Target
             cur == J!Target[Len(J!Target)]
             f == [cur EXCEPT !.cut = TRUE]
             gs == [ts EXCEPT ![Len(ts)] = f]
  <1>1. J!Running /\ journalFiles' \in {ts, gs} /\ broker' = J!Down /\ UNCHANGED <<ackFile, latest, reader>>
    BY DEF J!AppendCut, J!InTarget, J!Current
  <1>2. /\ Chained(ts) /\ ts # <<>> /\ cur \in J!File
        /\ Opens(ts) = Opens(journalFiles) /\ Closes(ts) = Closes(journalFiles)
        /\ J!Records(ts) = J!Records(journalFiles)
    BY <1>1, RunningFacts, TargetKeeps
  <1> HIDE DEF ts, cur
  <1>3. f \in J!File /\ f.start = cur.start /\ f.recs = cur.recs
    BY <1>2 DEF J!File
  <1> HIDE DEF f
  <1>5. Chained(gs) /\ Opens(gs) = Opens(ts) /\ Closes(gs) = Closes(ts) /\ J!Records(gs) = J!Records(ts)
    <2>1. cur = ts[Len(ts)]
      BY DEF cur, ts
    <2>2. f.start = ts[Len(ts)].start /\ f.recs = ts[Len(ts)].recs
      BY <1>3, <2>1
    <2>3. QED
      BY <1>2, <1>3, <2>2, SameLastKeeps
  <1> HIDE DEF gs
  <1>7. /\ Chained(journalFiles') /\ Opens(journalFiles') = Opens(journalFiles)
        /\ Closes(journalFiles') = Closes(journalFiles) /\ J!Records(journalFiles') = J!Records(journalFiles)
    BY <1>1, <1>2, <1>5
  <1>8. J!After(journalFiles', ackFile) = J!After(journalFiles, ackFile)
    BY <1>7 DEF J!After
  <1>9. reader.inv # 0 /\ reader.inv = latest => ackFile <= reader.cursor /\ OnlyBy(ackFile, latest)
    BY DEF JournalInv, Reading
  <1>10. Opens(journalFiles) <= ackFile /\ J!Released <= ackFile
    BY <1>1, RunningFacts, JournalFacts
  <1>11. QED
    BY <1>1, <1>7, <1>8, <1>9, <1>10, RunningFacts, JournalDies

\* A cursor that is acknowledged.
LEMMA AckFacts ==
  ASSUME JournalInv, J!Running, NEW n \in J!Acks
  PROVE  /\ n \in Nat /\ n <= reader.cursor /\ broker.ack <= n /\ n <= Closes(journalFiles) /\ Opens(journalFiles) <= n
         /\ OnlyBy(n, latest)
  <1>1. n \in 1..reader.cursor /\ n > broker.ack /\ n <= broker.tail
    BY DEF J!Acks
  <1>2. n \in Nat /\ n <= reader.cursor /\ broker.ack <= n
    BY <1>1, JournalFacts
  <1>3. n <= Closes(journalFiles) /\ Opens(journalFiles) <= n
    BY <1>1, <1>2, RunningFacts, JournalFacts
  <1>4. OnlyBy(n, latest)
    <2>1. \A r \in J!Records(journalFiles) : r.seq \in Nat
      BY JournalFacts
    <2>2. \A r \in J!Records(journalFiles) : r.seq > n => r.seq > broker.ack
      BY <1>2, <2>1, JournalFacts
    <2>3. QED
      BY <2>2, RunningFacts DEF OnlyBy
  <1>5. QED
    BY <1>2, <1>3, <1>4

\* An acknowledgement releases the records up to its cursor, and only them.
LEMMA JournalAcknowledge == ASSUME JournalInv, J!Acknowledge PROVE JournalInv' /\ JournalStep
  <1>1. J!Running /\ UNCHANGED <<latest, reader>>
    BY DEF J!Acknowledge
  <1>2. PICK n \in J!Acks : /\ ackFile' = n /\ broker' = [broker EXCEPT !.ack = n]
                            /\ journalFiles' = J!Retain(journalFiles, n)
    BY DEF J!Acknowledge
  <1>3. /\ n \in Nat /\ n <= reader.cursor /\ broker.ack <= n /\ n <= Closes(journalFiles) /\ Opens(journalFiles) <= n
        /\ OnlyBy(n, latest)
    BY <1>1, AckFacts
  <1>4. /\ Chained(journalFiles) /\ Whole(journalFiles) /\ broker.inv = latest /\ broker.tail = Closes(journalFiles)
        /\ latest \in Nat /\ Opens(journalFiles) <= broker.ack
    BY <1>1, RunningFacts
  <1>5. /\ Chained(journalFiles') /\ Whole(journalFiles') /\ Opens(journalFiles') <= n
        /\ Closes(journalFiles') = Closes(journalFiles) /\ J!Records(journalFiles') \subseteq J!Records(journalFiles)
        /\ J!After(journalFiles', n) = J!After(journalFiles, n)
    <2>1. J!Retain(journalFiles, n) \in J!RetainCuts(journalFiles, n)
      BY <1>4, RetainIsCut
    <2>2. QED
      BY <1>2, <1>3, <1>4, <2>1, RetainCutKeeps
  <1>6. broker'.inv = broker.inv /\ broker'.tail = broker.tail /\ broker'.ack = n
    BY <1>2 DEF JournalInv, JournalTyped
  <1>7. J!Running' /\ J!Released' = n /\ J!Released = broker.ack
    BY <1>1, <1>6, JournalFacts DEF J!Running, J!Released
  <1>8. JournalTyped'
    BY <1>1, <1>2, <1>3, <1>5 DEF JournalInv, JournalTyped
  <1>9. Cursors'
    BY <1>1, <1>2, <1>3, <1>4, <1>5, <1>6, <1>7 DEF Cursors
  <1>10. \A r \in J!Records(journalFiles') : r.seq > n => r.by = latest
    BY <1>3, <1>5 DEF OnlyBy
  <1>11. Authors'
    <2>1. WritersOf(journalFiles', latest)
      BY <1>4, <1>5, JournalFacts, FewerWritten DEF JournalInv, Authors
    <2>2. QED
      BY <1>1, <1>6, <1>10, <2>1 DEF Authors, OnlyBy
  <1>12. Reading'
    <2>1. J!ReadsEveryRecord'
      BY <1>1 DEF JournalInv, Reading, J!ReadsEveryRecord
    <2>2. reader.inv <= latest /\ reader.from <= reader.cursor /\ reader.cursor <= Closes(journalFiles)
      BY DEF JournalInv, Reading
    <2>3. QED
      BY <1>1, <1>2, <1>3, <1>5, <1>10, <2>1, <2>2 DEF Reading, OnlyBy
  <1>13. JournalStep
    <2>1. LogMove(broker.ack, J!After(journalFiles, broker.ack), n, J!After(journalFiles, n))
      BY <1>3, <1>4, JournalFacts, CursorMoves
    <2>2. Pending = J!After(journalFiles, broker.ack) /\ Pending' = J!After(journalFiles', n)
      BY <1>7 DEF Pending
    <2>3. QED
      BY <1>5, <1>7, <2>1, <2>2 DEF JournalStep
  <1>14. QED
    BY <1>8, <1>9, <1>11, <1>12, <1>13 DEF JournalInv

\* A death inside an acknowledgement leaves the cursor written and old segments behind.
LEMMA JournalAcknowledgeCut == ASSUME JournalInv, J!AcknowledgeCut PROVE JournalInv' /\ JournalStep
  <1>1. J!Running /\ broker' = J!Down /\ UNCHANGED <<latest, reader>>
    BY DEF J!AcknowledgeCut
  <1>2. PICK n \in J!Acks : ackFile' = n /\ journalFiles' \in J!RetainCuts(journalFiles, n)
    BY DEF J!AcknowledgeCut
  <1>3. /\ n \in Nat /\ n <= reader.cursor /\ broker.ack <= n /\ n <= Closes(journalFiles) /\ Opens(journalFiles) <= n
        /\ OnlyBy(n, latest)
    BY <1>1, AckFacts
  <1>4. Chained(journalFiles) /\ Whole(journalFiles) /\ latest \in Nat
    BY <1>1, RunningFacts
  <1>5. /\ Chained(journalFiles') /\ Opens(journalFiles') <= n
        /\ Closes(journalFiles') = Closes(journalFiles) /\ J!Records(journalFiles') \subseteq J!Records(journalFiles)
        /\ J!After(journalFiles', n) = J!After(journalFiles, n)
    BY <1>2, <1>3, <1>4, RetainCutKeeps
  <1>6. J!Released <= n
    BY <1>1, <1>3, JournalFacts
  <1>7. QED
    BY <1>1, <1>2, <1>3, <1>4, <1>5, <1>6, JournalDies

\* A step that leaves the files and the process alone.
LEMMA JournalRests ==
  ASSUME JournalInv, UNCHANGED <<journalFiles, latest, broker>>, ackFile' \in Nat, J!Released <= ackFile',
         ackFile' <= Closes(journalFiles), ~J!Running => ackFile' = ackFile,
         reader' \in [inv : J!Invocations \cup {0}, from : Nat, cursor : Nat, got : Seq(J!Record)],
         Reading'
  PROVE  JournalInv' /\ JournalStep
  <1>1. (J!Running' <=> J!Running) /\ J!Released' = J!Released
    BY DEF J!Running, J!Released
  <1>2. JournalTyped'
    BY DEF JournalInv, JournalTyped
  <1>3. Cursors'
    BY <1>1 DEF JournalInv, Cursors
  <1>4. Authors'
    BY <1>1 DEF JournalInv, Authors, OnlyBy
  <1>5. Pending' = Pending
    BY <1>1 DEF Pending
  <1>6. QED
    BY <1>1, <1>2, <1>3, <1>4, <1>5 DEF JournalInv, JournalStep, LogMove

\* A cursor that was written and refused is behind the reader and the tail.
LEMMA JournalAcknowledgeFails == ASSUME JournalInv, J!AcknowledgeFails PROVE JournalInv' /\ JournalStep
  <1>1. J!Running /\ UNCHANGED <<journalFiles, latest, broker, reader>>
    BY DEF J!AcknowledgeFails
  <1>2. PICK n \in J!Acks : ackFile' = n
    BY DEF J!AcknowledgeFails
  <1>3. /\ n \in Nat /\ n <= reader.cursor /\ broker.ack <= n /\ n <= Closes(journalFiles)
        /\ OnlyBy(n, latest) /\ J!Released = broker.ack
    BY <1>1, AckFacts, JournalFacts
  <1>4. Reading'
    BY <1>1, <1>2, <1>3 DEF JournalInv, Reading, OnlyBy, J!ReadsEveryRecord
  <1>5. reader' \in [inv : J!Invocations \cup {0}, from : Nat, cursor : Nat, got : Seq(J!Record)]
    BY <1>1 DEF JournalInv, JournalTyped
  <1>6. QED
    BY <1>1, <1>2, <1>3, <1>4, <1>5, JournalRests

\* An attempt starts to read at the tail its prompt was answered with.
LEMMA JournalPrompted == ASSUME JournalInv, J!Prompted PROVE JournalInv' /\ JournalStep
  <1>1. /\ J!Running /\ UNCHANGED <<journalFiles, ackFile, latest, broker>>
        /\ reader' = [inv |-> broker.inv, from |-> broker.tail, cursor |-> broker.tail, got |-> <<>>]
    BY DEF J!Prompted
  <1>2. /\ broker.inv = latest /\ broker.tail = Closes(journalFiles) /\ broker.tail \in Nat /\ latest \in Nat
        /\ latest \in J!Invocations /\ ackFile \in Nat /\ ackFile <= Closes(journalFiles) /\ OnlyBy(ackFile, latest)
        /\ broker.ack <= ackFile /\ J!Released = broker.ack
    BY <1>1, RunningFacts, JournalFacts
  <1>3. /\ reader'.inv = latest /\ reader'.from = broker.tail /\ reader'.cursor = broker.tail /\ reader'.got = <<>>
        /\ <<>> \in Seq(J!Record) /\ Len(<<>>) = 0 /\ DOMAIN <<>> = {} /\ broker.tail - broker.tail = 0
    BY <1>1, <1>2
  <1>4. J!ReadsEveryRecord'
    BY <1>3 DEF J!ReadsEveryRecord
  <1>5. Reading'
    BY <1>1, <1>2, <1>3, <1>4 DEF Reading, OnlyBy
  <1>6. reader' \in [inv : J!Invocations \cup {0}, from : Nat, cursor : Nat, got : Seq(J!Record)]
    BY <1>1, <1>2, <1>3
  <1>7. QED
    BY <1>1, <1>2, <1>5, <1>6, JournalRests

\* The first p records of a sequence.
LEMMA FirstOf ==
  ASSUME NEW S, NEW q \in Seq(S), NEW p \in Nat, p <= Len(q)
  PROVE  /\ SubSeq(q, 1, p) \in Seq(S) /\ Len(SubSeq(q, 1, p)) = p
         /\ \A k \in 1..p : SubSeq(q, 1, p)[k] = q[k]
  <1>1. Len(q) \in Nat
    OBVIOUS
  <1>2. \A k \in 1..p : k \in 1..Len(q) /\ q[k] \in S
    BY <1>1
  <1>3. SubSeq(q, 1, p) \in Seq(S) /\ Len(SubSeq(q, 1, p)) = p
    BY <1>1
  <1>4. \A k \in 1..p : SubSeq(q, 1, p)[k] = q[1 + k - 1] /\ 1 + k - 1 = k
    BY <1>1
  <1>5. QED
    BY <1>3, <1>4

\* Two sequences, one after the other.
LEMMA JoinedIs ==
  ASSUME NEW S, NEW p \in Seq(S), NEW q \in Seq(S)
  PROVE  /\ p \o q \in Seq(S) /\ Len(p) \in Nat /\ Len(q) \in Nat /\ Len(p \o q) = Len(p) + Len(q)
         /\ DOMAIN p = 1..Len(p) /\ DOMAIN (p \o q) = 1..(Len(p) + Len(q))
         /\ \A k \in 1..Len(p) : (p \o q)[k] = p[k]
         /\ \A k \in Len(p) + 1 .. Len(p) + Len(q) : (p \o q)[k] = q[k - Len(p)] /\ k - Len(p) \in 1..Len(q)
  OBVIOUS

\* Of two cursors the later one.
LEMMA LaterOfTwo ==
  ASSUME NEW hi \in Nat, NEW lo \in Nat, lo <= hi, NEW S, S = {hi, lo}
  PROVE  Max(S) = hi
  <1>1. hi \in S /\ \A y \in S : hi >= y
    OBVIOUS
  <1>2. \A x \in S : x >= hi => x = hi
    OBVIOUS
  <1>3. Max(S) = CHOOSE x \in S : \A y \in S : x >= y
    BY DEF Max
  <1>4. Max(S) \in S /\ Max(S) >= hi
    BY <1>1, <1>3
  <1>5. QED
    BY <1>2, <1>4

\* A page continues the projection: its records follow the cursor and are of the invocation.
LEMMA JournalReads == ASSUME JournalInv, J!Reads PROVE JournalInv' /\ JournalStep
  <1> DEFINE rest == J!After(journalFiles, reader.cursor)
             p == IF Len(rest) < PageRecords THEN Len(rest) ELSE PageRecords
             page == SubSeq(rest, 1, p)
             got == reader.got
             cursor == reader.cursor
  <1>1. J!Running /\ reader.inv = broker.inv /\ UNCHANGED <<journalFiles, ackFile, latest, broker>>
    BY DEF J!Reads, J!Mine
  <1>2. /\ broker.inv = latest /\ latest \in J!Invocations /\ latest # 0 /\ latest \in Nat /\ ackFile \in Nat
        /\ broker.ack \in Nat /\ cursor \in Nat /\ reader.from \in Nat /\ got \in Seq(J!Record)
        /\ Opens(journalFiles) <= broker.ack /\ broker.ack <= ackFile /\ ackFile <= Closes(journalFiles)
        /\ Chained(journalFiles) /\ Opens(journalFiles) \in Nat /\ Closes(journalFiles) \in Nat
        /\ J!Released = broker.ack
    BY <1>1, RunningFacts, JournalFacts
  <1>3. /\ ackFile <= cursor /\ OnlyBy(ackFile, latest) /\ cursor <= Closes(journalFiles) /\ reader.from <= cursor
        /\ J!ReadsEveryRecord
    BY <1>1, <1>2 DEF JournalInv, Reading
  <1>4. /\ broker.ack <= cursor /\ Opens(journalFiles) <= cursor
    BY <1>2, <1>3
  <1>5. J!Max({reader.cursor, broker.ack}) = cursor
    <2>1. reader.cursor \in Nat /\ broker.ack \in Nat /\ broker.ack <= reader.cursor
      BY <1>2, <1>4
    <2> DEFINE S == {reader.cursor, broker.ack}
    <2>2. S = {reader.cursor, broker.ack}
      OBVIOUS
    <2> HIDE DEF S
    <2>3. Max(S) = reader.cursor
      BY <2>1, <2>2, LaterOfTwo
    <2>4. J!Max(S) = Max(S)
      BY DEF J!Max, Max
    <2>5. QED
      BY <2>3, <2>4 DEF S
  <1>6. rest # <<>> /\ reader' = [reader EXCEPT !.got = got \o page, !.cursor = page[Len(page)].seq]
    BY <1>5 DEF J!Reads, J!Unread, J!NextCursor
  <1>7. /\ rest \in Seq(J!Record) /\ Len(rest) = Closes(journalFiles) - cursor /\ Closes(journalFiles) - cursor \in Nat
        /\ \A k \in 1..(Closes(journalFiles) - cursor) : rest[k] \in J!Records(journalFiles) /\ rest[k].seq = cursor + k
    BY <1>2, <1>3, <1>4, AfterTyped
  <1> HIDE DEF rest
  <1>8. Len(rest) > 0
    BY <1>6, <1>7
  <1>9. p \in Nat /\ p >= 1 /\ p <= Len(rest)
    BY <1>7, <1>8, PartsAssumption
  <1> HIDE DEF p
  <1>10. /\ page \in Seq(J!Record) /\ Len(page) = p /\ \A k \in 1..p : page[k] = rest[k]
    BY <1>7, <1>9, FirstOf
  <1> HIDE DEF page, got, cursor
  <1>11. \A k \in 1..p : page[k] = [seq |-> cursor + k, by |-> latest]
    <2>1. TAKE k \in 1..p
    <2>2. k \in 1..(Closes(journalFiles) - cursor) /\ cursor + k > ackFile
      BY <1>2, <1>3, <1>7, <1>9
    <2>3. rest[k] \in J!Records(journalFiles) /\ rest[k].seq = cursor + k
      BY <1>7, <2>2
    <2>4. rest[k] \in J!Record /\ rest[k].by = latest
      BY <1>3, <2>2, <2>3, JournalFacts DEF OnlyBy
    <2>5. QED
      BY <1>10, <2>3, <2>4 DEF J!Record
  <1>12. page[Len(page)].seq = cursor + p
    BY <1>9, <1>10, <1>11
  <1>13. /\ reader'.inv = reader.inv /\ reader'.from = reader.from /\ reader'.cursor = cursor + p
         /\ reader'.got = got \o page
         /\ reader' = [inv |-> reader.inv, from |-> reader.from, cursor |-> cursor + p, got |-> got \o page]
    BY <1>6, <1>12 DEF JournalInv, JournalTyped
  <1>14. /\ got \o page \in Seq(J!Record) /\ Len(got) \in Nat /\ Len(got \o page) = Len(got) + p
         /\ DOMAIN got = 1..Len(got) /\ DOMAIN (got \o page) = 1..(Len(got) + p)
         /\ \A k \in 1..Len(got) : (got \o page)[k] = got[k]
         /\ \A k \in Len(got) + 1 .. Len(got) + p : (got \o page)[k] = page[k - Len(got)] /\ k - Len(got) \in 1..p
    <2>1. got \in Seq(J!Record) /\ page \in Seq(J!Record) /\ Len(page) = p
      BY <1>2, <1>10 DEF got
    <2>2. /\ got \o page \in Seq(J!Record) /\ Len(got) \in Nat /\ Len(got \o page) = Len(got) + Len(page)
          /\ DOMAIN got = 1..Len(got) /\ DOMAIN (got \o page) = 1..(Len(got) + Len(page))
          /\ \A k \in 1..Len(got) : (got \o page)[k] = got[k]
          /\ \A k \in Len(got) + 1 .. Len(got) + Len(page) :
                (got \o page)[k] = page[k - Len(got)] /\ k - Len(got) \in 1..Len(page)
      BY <2>1, JoinedIs
    <2>3. QED
      BY <2>1, <2>2
  <1>15. Len(got) = cursor - reader.from /\ \A k \in 1..Len(got) : got[k] = [seq |-> reader.from + k, by |-> latest]
    <2>1. /\ Len(reader.got) = reader.cursor - reader.from
          /\ \A i \in DOMAIN reader.got : reader.got[i] = [seq |-> reader.from + i, by |-> reader.inv]
      BY <1>3 DEF J!ReadsEveryRecord
    <2>2. DOMAIN reader.got = 1..Len(got) /\ reader.inv = latest
      BY <1>1, <1>2, <1>14 DEF got
    <2>3. Len(got) = cursor - reader.from
      BY <2>1 DEF got, cursor
    <2>4. \A k \in 1..Len(got) : got[k] = [seq |-> reader.from + k, by |-> latest]
      BY <2>1, <2>2 DEF got
    <2>5. QED
      BY <2>3, <2>4
  <1>16. J!ReadsEveryRecord'
    <2>1. Len(got \o page) = (cursor + p) - reader.from
      BY <1>2, <1>9, <1>14, <1>15 DEF cursor
    <2>2. \A k \in 1..(Len(got) + p) : (got \o page)[k] = [seq |-> reader.from + k, by |-> latest]
      <3>1. TAKE k \in 1..(Len(got) + p)
      <3>2. CASE k \in 1..Len(got)
        BY <1>14, <1>15, <3>2
      <3>3. CASE k \in Len(got) + 1 .. Len(got) + p
        <4>1. Len(got) = cursor - reader.from /\ Len(got) \in Nat /\ cursor \in Nat /\ reader.from \in Nat /\ k \in Int
          BY <1>2, <1>14, <1>15, <1>9 DEF cursor
        <4>2. cursor + (k - Len(got)) = reader.from + k
          BY <4>1
        <4>3. (got \o page)[k] = page[k - Len(got)] /\ k - Len(got) \in 1..p
          BY <1>14, <3>3
        <4>4. page[k - Len(got)] = [seq |-> cursor + (k - Len(got)), by |-> latest]
          BY <1>11, <4>3
        <4>5. QED
          BY <4>2, <4>3, <4>4
      <3>4. QED
        BY <1>9, <1>14, <3>2, <3>3
    <2>3. QED
      BY <1>1, <1>2, <1>13, <1>14, <2>1, <2>2 DEF J!ReadsEveryRecord
  <1>17. Reading'
    <2>1. cursor + p \in Nat /\ cursor <= cursor + p /\ cursor + p <= Closes(journalFiles)
      BY <1>2, <1>7, <1>9 DEF cursor
    <2>2. reader.from <= cursor + p /\ ackFile <= cursor + p
      BY <1>2, <1>3, <2>1 DEF cursor
    <2>3. QED
      BY <1>1, <1>2, <1>3, <1>13, <1>16, <2>1, <2>2 DEF Reading, OnlyBy
  <1>18. reader' \in [inv : J!Invocations \cup {0}, from : Nat, cursor : Nat, got : Seq(J!Record)]
    <2>1. cursor + p \in Nat /\ reader.inv \in J!Invocations
      BY <1>1, <1>2, <1>9 DEF cursor
    <2>2. QED
      BY <1>2, <1>13, <1>14, <2>1
  <1>19. QED
    BY <1>1, <1>2, <1>17, <1>18, JournalRests

\* Every step of the journal, a death inside a call included, keeps the invariant and is a
\* step of the log.
LEMMA JournalStays == ASSUME JournalInv, [J!Next]_journal PROVE JournalInv' /\ JournalStep
  <1>1. ASSUME NEW i \in J!Invocations, J!Boot(i) \/ J!BootCut(i) PROVE JournalInv' /\ JournalStep
    BY <1>1, JournalBoot, JournalBootCut
  <1>2. CASE J!Kill \/ J!AppendRecord \/ J!AppendCut
    BY <1>2, JournalKill, JournalAppend, JournalAppendCut
  <1>3. CASE J!Acknowledge \/ J!AcknowledgeCut \/ J!AcknowledgeFails
    BY <1>3, JournalAcknowledge, JournalAcknowledgeCut, JournalAcknowledgeFails
  <1>4. CASE J!Prompted \/ J!Reads
    BY <1>4, JournalPrompted, JournalReads
  <1>5. CASE UNCHANGED journal
    <2>1. UNCHANGED <<journalFiles, ackFile, latest, broker, reader>>
      BY <1>5 DEF journal
    <2>2. ackFile' \in Nat /\ J!Released <= ackFile' /\ ackFile' <= Closes(journalFiles)
      BY <2>1 DEF JournalInv, JournalTyped, Cursors
    <2>3. reader' \in [inv : J!Invocations \cup {0}, from : Nat, cursor : Nat, got : Seq(J!Record)]
      BY <2>1 DEF JournalInv, JournalTyped
    <2>4. Reading'
      BY <2>1 DEF JournalInv, Reading, OnlyBy, J!ReadsEveryRecord
    <2>5. QED
      BY <2>1, <2>2, <2>3, <2>4, JournalRests
  <1>6. QED
    BY <1>1, <1>2, <1>3, <1>4, <1>5 DEF J!Next

\* What the invariant says of a recovery, of the cursors and of the projection.
LEMMA JournalSound == JournalInv => JournalSurvives
  <1> SUFFICES ASSUME JournalInv PROVE JournalSurvives
    OBVIOUS
  <1>1. J!AlwaysRecovers
    <2> DEFINE gs == J!Cleaned(journalFiles)
    <2>1. Chained(journalFiles) /\ ackFile \in Nat /\ Opens(journalFiles) <= ackFile
      <3>1. Opens(journalFiles) \in Nat /\ J!Released \in Nat
        BY JournalFacts
      <3>2. QED
        BY <3>1 DEF JournalInv, JournalTyped, Cursors
    <2>2. Chained(gs) /\ Whole(gs) /\ Opens(gs) = Opens(journalFiles)
      BY <2>1, CleanedKeeps
    <2> HIDE DEF gs
    <2>3. J!Accepted(gs, ackFile)
      BY <2>1, <2>2, ChainAccepted
    <2>4. QED
      BY <2>3 DEF J!AlwaysRecovers, gs
  <1>2. J!CursorsStayValid
    <2>1. ASSUME J!Running PROVE reader.cursor <= broker.tail /\ (J!Mine => broker.ack <= reader.cursor)
      <3>1. /\ broker.inv = latest /\ broker.tail = Closes(journalFiles) /\ latest # 0
            /\ broker.ack <= ackFile /\ ackFile \in Nat /\ broker.ack \in Nat /\ reader.cursor \in Nat
        BY <2>1, RunningFacts, JournalFacts
      <3>2. reader.cursor <= broker.tail
        BY <3>1 DEF JournalInv, Reading
      <3>3. J!Mine => ackFile <= reader.cursor
        BY <3>1 DEF J!Mine, JournalInv, Reading
      <3>4. QED
        BY <3>1, <3>2, <3>3
    <2>2. QED
      BY <2>1 DEF J!CursorsStayValid
  <1>3. J!ReadsEveryRecord
    BY DEF JournalInv, Reading
  <1>4. QED
    BY <1>1, <1>2, <1>3 DEF JournalSurvives

\* For every size of a segment and of a page, and any number of records, invocations, deaths,
\* refused writes and repeated cursors: the daemon that starts next accepts the files, an
\* attempt's cursor stays within what the broker serves, and what it projected is every record
\* after its first cursor, once and in order (piJournal.ts, broker.ts).
THEOREM Journal == BoxSpec => []JournalSurvives
  <1>1. BoxInit => JournalInv
    BY JournalStarts DEF BoxInit
  <1>2. ASSUME JournalInv, [BoxNext]_box_vars PROVE JournalInv'
    <2>1. [J!Next]_journal
      BY <1>2 DEF BoxNext, box_vars
    <2>2. QED
      BY <1>2, <2>1, JournalStays
  <1>3. QED
    BY <1>1, <1>2, JournalSound, PTL DEF BoxSpec

\* A move of the log is one of its two actions, or none.
LEMMA LogMaps == JournalStep => [J!Log!Next]_<<J!Released, Pending>>
  <1> SUFFICES ASSUME JournalStep PROVE [J!Log!Next]_<<J!Released, Pending>>
    OBVIOUS
  <1>1. CASE J!Released' = J!Released /\ Pending' = Pending
    BY <1>1
  <1>2. ASSUME NEW k \in 1..Len(Pending), J!Released' = J!Released + k, Pending' = SubSeq(Pending, k + 1, Len(Pending))
        PROVE  J!Log!Next
    BY <1>2 DEF J!Log!Next, J!Log!Release, Pending
  <1>3. ASSUME NEW w \in J!Invocations, J!Released' = J!Released,
               Pending' = Append(Pending, [seq |-> J!Released + Len(Pending) + 1, by |-> w])
        PROVE  J!Log!Next
    BY <1>3 DEF J!Log!Next, J!Log!Put, Pending
  <1>4. QED
    BY <1>1, <1>2, <1>3 DEF JournalStep, LogMove

\* The segment files, the cursor file and the process that dies at any point of its work on
\* them implement the durable log: no record is lost, doubled or renumbered, and only an
\* acknowledgement releases one.
THEOREM JournalIsDurableLog == BoxSpec => ImplementsDurableLog
  <1>1. BoxInit => JournalInv /\ J!Log!Init
    BY JournalStarts DEF BoxInit, J!Log!Init, Pending
  <1>2. ASSUME JournalInv, [BoxNext]_box_vars PROVE JournalInv' /\ [J!Log!Next]_<<J!Released, Pending>>
    <2>1. [J!Next]_journal
      BY <1>2 DEF BoxNext, box_vars
    <2>2. QED
      BY <1>2, <2>1, JournalStays, LogMaps
  <1>3. J!Log!Init /\ [][J!Log!Next]_<<J!Released, Pending>> => ImplementsDurableLog
    BY DEF ImplementsDurableLog, J!ImplementsDurableLog, J!Log!Spec, Pending
  <1>4. QED
    BY <1>1, <1>2, <1>3, PTL DEF BoxSpec
=============================================================================
