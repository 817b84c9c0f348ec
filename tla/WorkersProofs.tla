--------------------------- MODULE WorkersProofs ---------------------------
(***************************************************************************)
(* Proofs about what background processes claim, for every set of workers, *)
(* installations, gateways and members and every bound: the image registry *)
(* (types, one DELETE for a Box, the pointer that outlives it), routines,  *)
(* notifications and access tokens.                                        *)
(*                                                                         *)
(* The proof about images has three layers: what a move of a worker does   *)
(* to its state (ToPlace ...), what every step of a worker keeps to        *)
(* (StepShape, one lemma per action), and that such a step preserves the   *)
(* invariant.                                                              *)
(***************************************************************************)
EXTENDS MCWorkers, TLAPS, FiniteSetTheorems

\* The kinds of values of the row, of a worker and of a Box.
Rows == [status : {"requested", "building", "ready", "failed"}, epoch : Nat, cycle : 1..MaxCycles,
         attempts : 0..MaxAttempts, leased : BOOLEAN, due : BOOLEAN, box : 0..MaxBoxes,
         intent : BOOLEAN, op : BOOLEAN]
Places == {"idle", "reconcile", "delete", "operation", "poll", "clear", "bake",
           "create", "mark", "work", "ready", "failed"}
Standings == [at : Places, epoch : Nat, box : 0..MaxBoxes, intent : BOOLEAN, op : BOOLEAN,
              then : {"none", "bake", "ready", "failed"}]
BoxStates == {"none", "alive", "deleting", "gone"}
\* The places of a removal.
Removing == {"reconcile", "delete", "operation", "poll", "clear"}

\* A worker that is on a build.
Works(e) == builder[e].at # "idle"

\* A worker that removes a Box has one, and knows where it goes on afterwards;
\* a worker that created a Box holds it.
BoxInHand ==
  \A e \in Builders :
    /\ builder[e].at \in Removing => builder[e].box \in Boxes /\ builder[e].then # "none"
    /\ builder[e].at \in {"mark", "work"} => builder[e].box \in Boxes

\* Claims carry growing epochs: no two live workers have the same one, and the
\* worker with the row's epoch works on a row that is building.
EpochsFence ==
  /\ \A e \in Builders : Works(e) =>
       builder[e].epoch <= row.epoch /\ (builder[e].epoch = row.epoch => row.status = "building")
  /\ \A e, f \in Builders :
       Works(e) /\ Works(f) /\ builder[e].epoch = builder[f].epoch => e = f

\* Of a Box that was never created nobody knows and nothing was sent.
UncreatedUnknown ==
  \A b \in Boxes : boxes[b] = "none" =>
    deletes[b] = 0 /\ row.box # b /\ \A e \in Builders : Works(e) => builder[e].box # b

\* A Box whose creation was just answered is known to its worker alone.
CreatedIsOwn ==
  \A e \in Builders : builder[e].at = "mark" =>
    /\ deletes[builder[e].box] = 0 /\ row.box # builder[e].box
    /\ \A f \in Builders \ {e} : Works(f) => builder[f].box # builder[e].box

\* Whoever is about to send a DELETE is the only one, and the row says it may have been sent.
OneSender ==
  \A e \in Builders : builder[e].at = "delete" =>
    /\ deletes[builder[e].box] = 0
    /\ row.box = builder[e].box => row.intent
    /\ \A f \in Builders \ {e} : builder[f].at = "delete" => builder[f].box # builder[e].box

\* While the row has no intent to delete its Box, no DELETE of it was sent.
UnsentWithoutIntent == \A b \in Boxes : row.box = b /\ ~row.intent => deletes[b] = 0

\* What the worker in charge knows of the pointer is what the row says: before it decides
\* about a removal, and before it creates a Box or reports one.
KnowsPointer ==
  \A e \in Builders : Works(e) /\ Fenced(e) =>
    /\ builder[e].at \in {"work", "reconcile"} =>
         row.box = builder[e].box /\ (row.intent => builder[e].intent)
    /\ builder[e].at \in {"bake", "create", "mark", "ready"} => row.box = 0

\* A pointer is cleared for a Box that is gone.
ClearedIsGone == \A e \in Builders : builder[e].at = "clear" => boxes[builder[e].box] = "gone"

\* The inductive invariant: the workers and their epochs, then the Boxes and their DELETEs.
WorkersInv == TypeOK /\ BoxInHand /\ EpochsFence
RegistryInv ==
  /\ WorkersInv
  /\ deletes \in [Boxes -> Nat] /\ DeleteSentOnce
  /\ UncreatedUnknown /\ CreatedIsOwn /\ OneSender /\ UnsentWithoutIntent
  /\ KnowsPointer /\ ClearedIsGone
-----------------------------------------------------------------------------
(* What a move does to its worker, and a write to the row. *)

\* TypeOK with names for the values of the row, the workers and the Boxes.
LEMMA Typed ==
  TypeOK <=> /\ row \in Rows
             /\ boxes \in [Boxes -> BoxStates]
             /\ snapshot \in BOOLEAN
             /\ builder \in [Builders -> Standings]
             /\ mishaps \in 0..MaxMishaps
  BY DEF TypeOK, Standings, Places, Rows, BoxStates

\* A move of one worker keeps the workers of their kind and the others where they are.
LEMMA GoesTo ==
  ASSUME TypeOK, NEW e \in Builders, NEW x \in Standings, Goes(e, x)
  PROVE  /\ builder' \in [Builders -> Standings]
         /\ builder'[e] = x
         /\ \A f \in Builders \ {e} : builder'[f] = builder[f]
  BY Typed DEF Goes

\* Going to another place changes nothing else of the worker.
LEMMA ToPlace ==
  ASSUME TypeOK, NEW e \in Builders, NEW a \in Places, To(e, a)
  PROVE  /\ builder' \in [Builders -> Standings]
         /\ \A f \in Builders \ {e} : builder'[f] = builder[f]
         /\ builder'[e].at = a /\ builder'[e].epoch = builder[e].epoch /\ builder'[e].box = builder[e].box
         /\ builder'[e].intent = builder[e].intent /\ builder'[e].op = builder[e].op
         /\ builder'[e].then = builder[e].then
  <1>1. builder[e] \in Standings
    BY Typed
  <1> DEFINE x == [builder[e] EXCEPT !.at = a]
  <1>2. /\ x \in Standings /\ x.at = a /\ x.epoch = builder[e].epoch /\ x.box = builder[e].box
        /\ x.intent = builder[e].intent /\ x.op = builder[e].op /\ x.then = builder[e].then
    BY <1>1 DEF Standings
  <1>3. Goes(e, x)
    BY DEF To
  <1>4. QED
    BY <1>2, <1>3, GoesTo

\* The finally block of a bake: the worker removes its Box and remembers the outcome.
LEMMA ToFinally ==
  ASSUME TypeOK, NEW e \in Builders, NEW t \in {"ready", "failed"}, Finally(e, t)
  PROVE  /\ builder' \in [Builders -> Standings]
         /\ \A f \in Builders \ {e} : builder'[f] = builder[f]
         /\ builder'[e].at = "reconcile" /\ builder'[e].epoch = builder[e].epoch
         /\ builder'[e].box = builder[e].box /\ builder'[e].intent = builder[e].intent
         /\ builder'[e].op = builder[e].op /\ builder'[e].then = t
  <1>1. builder[e] \in Standings
    BY Typed
  <1> DEFINE x == [builder[e] EXCEPT !.at = "reconcile", !.then = t]
  <1>2. /\ x \in Standings /\ x.at = "reconcile" /\ x.epoch = builder[e].epoch /\ x.box = builder[e].box
        /\ x.intent = builder[e].intent /\ x.op = builder[e].op /\ x.then = t
    BY <1>1 DEF Standings, Places
  <1>3. Goes(e, x)
    BY DEF Finally
  <1>4. QED
    BY <1>2, <1>3, GoesTo

\* After a creation the worker holds the new Box, of which it knows nothing yet.
LEMMA ToMark ==
  ASSUME TypeOK, NEW e \in Builders, NEW b \in Boxes,
         Goes(e, [builder[e] EXCEPT !.at = "mark", !.box = b, !.intent = FALSE, !.op = FALSE])
  PROVE  /\ builder' \in [Builders -> Standings]
         /\ \A f \in Builders \ {e} : builder'[f] = builder[f]
         /\ builder'[e].at = "mark" /\ builder'[e].epoch = builder[e].epoch
         /\ builder'[e].box = b /\ ~builder'[e].intent /\ ~builder'[e].op
  <1>1. builder[e] \in Standings
    BY Typed
  <1> DEFINE x == [builder[e] EXCEPT !.at = "mark", !.box = b, !.intent = FALSE, !.op = FALSE]
  <1>2. b \in 0..MaxBoxes
    BY RegistryAssumption DEF Boxes
  <1>3. x \in Standings /\ x.at = "mark" /\ x.epoch = builder[e].epoch /\ x.box = b /\ ~x.intent /\ ~x.op
    BY <1>1, <1>2 DEF Standings, Places
  <1>4. QED
    BY <1>3, GoesTo

\* A worker that is done, or stops, is idle.
LEMMA ToIdle ==
  ASSUME TypeOK, NEW e \in Builders, Goes(e, Idle)
  PROVE  /\ builder' \in [Builders -> Standings]
         /\ \A f \in Builders \ {e} : builder'[f] = builder[f]
         /\ builder'[e].at = "idle"
  <1>1. Idle \in Standings /\ Idle.at = "idle"
    BY RegistryAssumption DEF Standings, Places, Idle
  <1>2. QED
    BY <1>1, GoesTo

\* Dropping the pointer drops what is known of its Box, and nothing else.
LEMMA NoBoxRow ==
  ASSUME NEW r \in Rows
  PROVE  /\ NoBox(r) \in Rows /\ NoBox(r).box = 0 /\ NoBox(r).intent = FALSE
         /\ NoBox(r).epoch = r.epoch /\ NoBox(r).status = r.status
  <1>1. NoBox(r) \in Rows
    <2>1. 0 \in 0..MaxBoxes
      BY RegistryAssumption
    <2>2. QED
      BY <2>1 DEF NoBox, Rows
  <1>2. NoBox(r).box = 0 /\ NoBox(r).epoch = r.epoch /\ NoBox(r).status = r.status
    BY DEF NoBox, Rows
  <1>3. NoBox(r).intent = FALSE
    BY DEF NoBox, Rows
  <1>4. QED
    BY <1>1, <1>2, <1>3

\* Setting the pointer leaves the rest of the row.
LEMMA MarkedRow ==
  ASSUME NEW r \in Rows, NEW b \in Boxes
  PROVE  LET s == [r EXCEPT !.box = b]
         IN  s \in Rows /\ s.box = b /\ s.intent = r.intent /\ s.epoch = r.epoch /\ s.status = r.status
  BY RegistryAssumption DEF Rows, Boxes

\* Recording a finished image keeps the pointer and the epoch.
LEMMA ReadyRow ==
  ASSUME NEW r \in Rows
  PROVE  LET s == [r EXCEPT !.status = "ready", !.leased = FALSE]
         IN  s \in Rows /\ s.box = r.box /\ s.epoch = r.epoch
  BY DEF Rows

\* Recording a failure keeps the pointer, what is known of its Box, and the epoch.
LEMMA FailedRow ==
  ASSUME NEW r \in Rows, NEW st \in {"failed", "requested"}
  PROVE  LET s == [r EXCEPT !.status = st, !.due = FALSE, !.leased = FALSE]
         IN  s \in Rows /\ s.box = r.box /\ s.intent = r.intent /\ s.epoch = r.epoch
  BY DEF Rows

\* Recording the intent or the operation of a DELETE leaves the rest of the row.
LEMMA IntentRow ==
  ASSUME NEW r \in Rows
  PROVE  /\ LET s == [r EXCEPT !.intent = TRUE]
            IN  s \in Rows /\ s.box = r.box /\ s.intent = TRUE /\ s.epoch = r.epoch /\ s.status = r.status
         /\ LET s == [r EXCEPT !.op = TRUE]
            IN  s \in Rows /\ s.box = r.box /\ s.intent = r.intent /\ s.epoch = r.epoch /\ s.status = r.status
  BY DEF Rows
-----------------------------------------------------------------------------
(* What every step of a worker keeps to, a claim and a creation apart. *)

\* One worker moves, keeps its epoch and holds a Box wherever it needs one.
OneMoves(e) ==
  /\ builder' \in [Builders -> Standings]
  /\ \A f \in Builders \ {e} : builder'[f] = builder[f]
  /\ Works(e)
  /\ Works(e)' => builder'[e].epoch = builder[e].epoch
  /\ builder'[e].at \in Removing => builder'[e].box \in Boxes /\ builder'[e].then # "none"
  /\ builder'[e].at \in {"mark", "work"} => builder'[e].box \in Boxes

\* The row is written under the fence, and its pointer changes at three places only.
RowWritten(e) ==
  /\ row' \in Rows /\ row'.epoch = row.epoch
  /\ row' # row => Fenced(e)
  /\ Works(e)' => row'.status = row.status
  /\ row.box # 0 /\ row'.box = row.box /\ row.intent => row'.intent
  /\ row'.box # row.box => \/ builder[e].at = "clear" /\ row.box = builder[e].box /\ row'.box = 0
                           \/ builder[e].at = "mark" /\ row'.box = builder[e].box
                           \/ builder[e].at = "ready" /\ row'.box = 0

\* A created Box never becomes one that was not, and one that is gone stays gone.
ProviderMoves ==
  /\ boxes' \in [Boxes -> BoxStates] /\ snapshot' \in BOOLEAN /\ mishaps' \in 0..MaxMishaps
  /\ \A b \in Boxes : /\ boxes'[b] = "none" => boxes[b] = "none"
                      /\ boxes[b] = "gone" => boxes'[b] = "gone"

\* What is true of the row when the worker enters a place.
Enters(e) ==
  /\ Works(e)' => builder'[e].box = builder[e].box /\ builder'[e].intent = builder[e].intent
  /\ builder'[e].at # "mark"
  /\ builder'[e].at = "clear" => Gone(builder[e].box) /\ boxes' = boxes
  /\ builder'[e].at = "delete" =>
       /\ builder[e].at = "reconcile" /\ Fenced(e) /\ row.box = builder[e].box
       /\ ~builder[e].intent /\ row'.box = row.box /\ row'.intent
  /\ builder'[e].at \in {"work", "reconcile"} =>
       \/ ~Fenced(e)
       \/ builder[e].at = "work" /\ row' = row
       \/ row'.box = builder[e].box /\ ~row'.intent
  /\ builder'[e].at \in {"bake", "create", "ready"} =>
       \/ ~Fenced(e)
       \/ builder[e].at = "bake" /\ row' = row
       \/ row'.box = 0

\* A DELETE is counted only where it is sent.
Sends(e) == \/ deletes' = deletes
            \/ /\ builder[e].at = "delete" /\ builder'[e].at # "delete"
               /\ deletes' = [deletes EXCEPT ![builder[e].box] = @ + 1]

StepShape(e) == OneMoves(e) /\ RowWritten(e) /\ ProviderMoves /\ Enters(e) /\ Sends(e)

\* The decision about a Box found: it is only read, or its DELETE is declared first.
LEMMA ReconcileShape ==
  ASSUME RegistryInv, NEW e \in Builders, Reconcile(e)
  PROVE  StepShape(e)
  <1> USE DEF RegistryInv, WorkersInv
  <1>1. \/ \E a \in {"poll", "failed"} : To(e, a) /\ row' = row
        \/ To(e, "clear") /\ row' = row /\ Gone(builder[e].box)
        \/ /\ To(e, "delete") /\ row' = [row EXCEPT !.intent = TRUE]
           /\ Fenced(e) /\ row.box = builder[e].box /\ ~builder[e].intent
    BY DEF Reconcile, MayHaveSent, Fails
  <1>2. row \in Rows /\ (builder[e].at \in Removing \cup {"mark", "work"} => builder[e].box \in Boxes)
    BY Typed DEF BoxInHand
  <1>3. OneMoves(e)
    BY <1>1, ToPlace DEF Reconcile, OneMoves, Works, BoxInHand, Removing, Places
  <1>4. RowWritten(e)
    <2>1. row' = row \/ (Fenced(e) /\ row' = [row EXCEPT !.intent = TRUE])
      BY <1>1
    <2>2. QED
      BY <2>1, <1>2, IntentRow DEF RowWritten
  <1>5. ProviderMoves
    <2>1. UNCHANGED <<boxes, snapshot, mishaps>>
      BY Zenon DEF Reconcile, provider
    <2>2. boxes \in [Boxes -> BoxStates] /\ snapshot \in BOOLEAN /\ mishaps \in 0..MaxMishaps
      BY Typed
    <2>3. QED
      BY <2>1, <2>2 DEF ProviderMoves
  <1>6. Enters(e)
    <2>1. row' = row \/ (row' = [row EXCEPT !.intent = TRUE] /\ row'.box = row.box /\ row'.intent = TRUE)
      <3>1. row' = row \/ row' = [row EXCEPT !.intent = TRUE]
        BY <1>1, Zenon
      <3>2. row \in Rows
        BY <1>2, Zenon
      <3>3. QED
        BY <3>1, <3>2 DEF Rows
    <2>2. CASE \E a \in {"poll", "failed"} : To(e, a) /\ row' = row
      BY <2>2, ToPlace DEF Enters, Works, Places
    <2>3. CASE To(e, "clear") /\ row' = row /\ Gone(builder[e].box)
      BY <2>3, ToPlace DEF Reconcile, Enters, Works, Places, provider
    <2>4. CASE /\ To(e, "delete") /\ row' = [row EXCEPT !.intent = TRUE]
               /\ Fenced(e) /\ row.box = builder[e].box /\ ~builder[e].intent
      BY <2>1, <2>4, <1>2, IntentRow, ToPlace DEF Reconcile, Enters, Works, Places
    <2>5. QED
      BY <1>1, <2>2, <2>3, <2>4
  <1>7. Sends(e)
    BY <1>1, ToPlace DEF Reconcile, Sends, provider, Places
  <1>8. QED
    BY <1>3, <1>4, <1>5, <1>6, <1>7 DEF StepShape

\* A DELETE is the only step that counts one, and is left by whoever sends it.
LEMMA DeleteShape ==
  ASSUME RegistryInv, NEW e \in Builders, Delete(e)
  PROVE  StepShape(e)
  <1> USE DEF RegistryInv, WorkersInv
  <1>1. /\ row' = row
        /\ \/ \E a \in {"operation", "failed"} : To(e, a)
           \/ To(e, "clear") /\ Gone(builder[e].box) /\ boxes' = boxes
    BY DEF Delete, Fails
  <1>2. row \in Rows /\ (builder[e].at \in Removing \cup {"mark", "work"} => builder[e].box \in Boxes)
    BY Typed DEF BoxInHand
  <1>3. OneMoves(e)
    BY <1>1, ToPlace DEF Delete, OneMoves, Works, BoxInHand, Removing, Places
  <1>4. RowWritten(e)
    BY <1>1, <1>2 DEF Delete, RowWritten, Works, Removing, Places
  <1>5. ProviderMoves
    BY <1>2, Typed DEF Delete, ProviderMoves, provider, BoxStates, Gone, Removing
  <1>6. Enters(e)
    BY <1>1, <1>2, ToPlace DEF Delete, Enters, Works, Removing, Places, provider
  <1>7. Sends(e)
    BY <1>1, ToPlace DEF Delete, Sends, provider, Places
  <1>8. QED
    BY <1>3, <1>4, <1>5, <1>6, <1>7 DEF StepShape

\* The operation of a DELETE is recorded under the fence.
LEMMA MarkOperationShape ==
  ASSUME RegistryInv, NEW e \in Builders, MarkOperation(e)
  PROVE  StepShape(e)
  <1> USE DEF RegistryInv, WorkersInv
  <1>1. \/ To(e, "poll") /\ Fenced(e) /\ row' = [row EXCEPT !.op = TRUE]
        \/ To(e, "failed") /\ row' = row
    BY DEF MarkOperation, Fails
  <1>2. row \in Rows /\ (builder[e].at \in Removing \cup {"mark", "work"} => builder[e].box \in Boxes)
    BY Typed DEF BoxInHand
  <1>3. OneMoves(e)
    BY <1>1, ToPlace DEF MarkOperation, OneMoves, Works, BoxInHand, Removing, Places
  <1>4. RowWritten(e)
    BY <1>1, <1>2, IntentRow DEF MarkOperation, RowWritten, Works, Removing, Places
  <1>5. ProviderMoves
    BY Typed, RegistryAssumption DEF MarkOperation, ProviderMoves, provider, BoxStates
  <1>6. Enters(e)
    BY <1>1, <1>2, ToPlace, IntentRow DEF MarkOperation, Enters, Works, Removing, Places, provider
  <1>7. Sends(e)
    BY <1>1, ToPlace DEF MarkOperation, Sends, provider, Places
  <1>8. QED
    BY <1>3, <1>4, <1>5, <1>6, <1>7 DEF StepShape

\* Polling ends with the Box gone or with a failure.
LEMMA PollShape ==
  ASSUME RegistryInv, NEW e \in Builders, Poll(e)
  PROVE  StepShape(e)
  <1> USE DEF RegistryInv, WorkersInv
  <1>1. /\ row' = row
        /\ (To(e, "clear") /\ Gone(builder[e].box)) \/ To(e, "failed")
    BY DEF Poll, Fails, Deleted
  <1>2. row \in Rows /\ (builder[e].at \in Removing \cup {"mark", "work"} => builder[e].box \in Boxes)
    BY Typed DEF BoxInHand
  <1>3. OneMoves(e)
    BY <1>1, ToPlace DEF Poll, OneMoves, Works, BoxInHand, Removing, Places
  <1>4. RowWritten(e)
    BY <1>1, <1>2 DEF Poll, RowWritten, Works, Removing, Places
  <1>5. ProviderMoves
    BY Typed, RegistryAssumption DEF Poll, ProviderMoves, provider, BoxStates
  <1>6. Enters(e)
    BY <1>1, <1>2, ToPlace DEF Poll, Enters, Works, Removing, Places, provider
  <1>7. Sends(e)
    BY <1>1, ToPlace DEF Poll, Sends, provider, Places
  <1>8. QED
    BY <1>3, <1>4, <1>5, <1>6, <1>7 DEF StepShape

\* The pointer is dropped under the fence, by the worker whose Box it names.
LEMMA ClearShape ==
  ASSUME RegistryInv, NEW e \in Builders, Clear(e)
  PROVE  StepShape(e)
  <1> USE DEF RegistryInv, WorkersInv
  <1>1. \/ /\ row' = NoBox(row) /\ Fenced(e) /\ row.box = builder[e].box
           /\ \E a \in {"bake", "ready", "failed"} : To(e, a)
        \/ To(e, "failed") /\ row' = row
    BY Typed DEF Clear, Fails, BoxInHand, Removing, Standings
  <1>2. row \in Rows /\ (builder[e].at \in Removing \cup {"mark", "work"} => builder[e].box \in Boxes)
    BY Typed DEF BoxInHand
  <1>3. OneMoves(e)
    BY <1>1, ToPlace DEF Clear, OneMoves, Works, BoxInHand, Removing, Places
  <1>4. RowWritten(e)
    <2>1. row' = row \/ (Fenced(e) /\ row.box = builder[e].box /\ row' = NoBox(row))
      BY <1>1
    <2>2. builder[e].box # 0
      BY <1>2 DEF Clear, Removing, Boxes
    <2>3. CASE row' = row
      BY <2>3, <1>2 DEF RowWritten
    <2>4. CASE Fenced(e) /\ row.box = builder[e].box /\ row' = NoBox(row)
      <3>1. row' \in Rows /\ row'.box = 0 /\ row'.epoch = row.epoch /\ row'.status = row.status
        BY <2>4, <1>2, NoBoxRow
      <3>2. QED
        BY <2>2, <2>4, <3>1 DEF RowWritten, Clear
    <2>5. QED
      BY <2>1, <2>3, <2>4
  <1>5. ProviderMoves
    BY Typed, RegistryAssumption DEF Clear, ProviderMoves, provider, BoxStates
  <1>6. Enters(e)
    BY <1>1, <1>2, ToPlace, NoBoxRow DEF Clear, Enters, Works, Removing, Places, provider
  <1>7. Sends(e)
    BY <1>1, ToPlace DEF Clear, Sends, provider, Places
  <1>8. QED
    BY <1>3, <1>4, <1>5, <1>6, <1>7 DEF StepShape

\* A bake starts without touching the row.
LEMMA BakeShape ==
  ASSUME RegistryInv, NEW e \in Builders, Bake(e)
  PROVE  StepShape(e)
  <1> USE DEF RegistryInv, WorkersInv
  <1>1. row' = row /\ \E a \in {"ready", "create"} : To(e, a)
    BY DEF Bake
  <1>2. row \in Rows /\ (builder[e].at \in Removing \cup {"mark", "work"} => builder[e].box \in Boxes)
    BY Typed DEF BoxInHand
  <1>3. OneMoves(e)
    BY <1>1, ToPlace DEF Bake, OneMoves, Works, BoxInHand, Removing, Places
  <1>4. RowWritten(e)
    BY <1>1, <1>2 DEF Bake, RowWritten, Works, Removing, Places
  <1>5. ProviderMoves
    BY Typed, RegistryAssumption DEF Bake, ProviderMoves, provider, BoxStates
  <1>6. Enters(e)
    BY <1>1, <1>2, ToPlace DEF Bake, Enters, Works, Removing, Places, provider
  <1>7. Sends(e)
    BY <1>1, ToPlace DEF Bake, Sends, provider, Places
  <1>8. QED
    BY <1>3, <1>4, <1>5, <1>6, <1>7 DEF StepShape

\* The pointer of a new Box is set under the fence; without it the worker removes the Box as unfenced.
LEMMA MarkBoxShape ==
  ASSUME RegistryInv, NEW e \in Builders, MarkBox(e)
  PROVE  StepShape(e)
  <1> USE DEF RegistryInv, WorkersInv
  <1>1. \/ To(e, "work") /\ Fenced(e) /\ row' = [NoBox(row) EXCEPT !.box = builder[e].box]
        \/ Finally(e, "failed") /\ ~Fenced(e) /\ row' = row
    BY DEF MarkBox
  <1>2. row \in Rows /\ (builder[e].at \in Removing \cup {"mark", "work"} => builder[e].box \in Boxes)
    BY Typed DEF BoxInHand
  <1>3. OneMoves(e)
    BY <1>1, ToPlace, ToFinally DEF MarkBox, OneMoves, Works, BoxInHand, Removing, Places
  <1>4. RowWritten(e)
    <2> DEFINE r == [NoBox(row) EXCEPT !.box = builder[e].box]
    <2>1. row' = row \/ (Fenced(e) /\ row' = r)
      BY <1>1
    <2>2. r \in Rows /\ r.box = builder[e].box /\ r.epoch = row.epoch /\ r.status = row.status
      <3>1. NoBox(row) \in Rows /\ NoBox(row).epoch = row.epoch /\ NoBox(row).status = row.status
        BY <1>2, NoBoxRow
      <3>2. builder[e].box \in Boxes
        BY <1>2 DEF MarkBox
      <3>3. QED
        BY <3>1, <3>2, MarkedRow
    <2>3. row'.box = row.box => row' = row
      BY <2>1, <2>2 DEF CreatedIsOwn, MarkBox
    <2> HIDE DEF r
    <2>4. CASE row' = row
      BY <2>4, <1>2 DEF RowWritten
    <2>5. CASE Fenced(e) /\ row' = r
      BY <2>2, <2>3, <2>5 DEF RowWritten, MarkBox
    <2>6. QED
      BY <2>1, <2>4, <2>5
  <1>5. ProviderMoves
    BY Typed, RegistryAssumption DEF MarkBox, ProviderMoves, provider, BoxStates
  <1>6. Enters(e)
    <2>1. CASE To(e, "work") /\ Fenced(e) /\ row' = [NoBox(row) EXCEPT !.box = builder[e].box]
      <3>1. NoBox(row) \in Rows /\ NoBox(row).intent = FALSE
        BY <1>2, NoBoxRow
      <3>2. row'.box = builder[e].box /\ row'.intent = FALSE
        BY <2>1, <1>2, <3>1, MarkedRow DEF MarkBox
      <3>3. QED
        BY <2>1, <3>2, ToPlace DEF MarkBox, Enters, Works, Places
    <2>2. CASE Finally(e, "failed") /\ ~Fenced(e) /\ row' = row
      BY <2>2, ToFinally DEF MarkBox, Enters, Works
    <2>3. QED
      BY <1>1, <2>1, <2>2
  <1>7. Sends(e)
    BY <1>1, ToPlace, ToFinally DEF MarkBox, Sends, provider, Places
  <1>8. QED
    BY <1>3, <1>4, <1>5, <1>6, <1>7 DEF StepShape

\* The work in the Box does not touch the row.
LEMMA WorkShape ==
  ASSUME RegistryInv, NEW e \in Builders, Work(e)
  PROVE  StepShape(e)
  <1> USE DEF RegistryInv, WorkersInv
  <1>1. row' = row /\ \E t \in {"ready", "failed"} : Finally(e, t)
    BY DEF Work, Baked
  <1>2. row \in Rows /\ (builder[e].at \in Removing \cup {"mark", "work"} => builder[e].box \in Boxes)
    BY Typed DEF BoxInHand
  <1>3. OneMoves(e)
    BY <1>1, ToFinally DEF Work, OneMoves, Works, BoxInHand, Removing, Places
  <1>4. RowWritten(e)
    BY <1>1, <1>2 DEF Work, RowWritten, Works, Removing, Places
  <1>5. ProviderMoves
    BY Typed, RegistryAssumption DEF Work, ProviderMoves, provider, BoxStates
  <1>6. Enters(e)
    BY <1>1, <1>2, ToFinally DEF Work, Enters, Works, Removing, Places, provider
  <1>7. Sends(e)
    BY <1>1, ToFinally DEF Work, Sends, provider, Places
  <1>8. QED
    BY <1>3, <1>4, <1>5, <1>6, <1>7 DEF StepShape

\* A finished image is recorded under the fence, and its worker is done.
LEMMA RecordReadyShape ==
  ASSUME RegistryInv, NEW e \in Builders, RecordReady(e)
  PROVE  StepShape(e)
  <1> USE DEF RegistryInv, WorkersInv
  <1>1. /\ Goes(e, Idle)
        /\ \/ row' = row
           \/ Fenced(e) /\ row' = [NoBox(row) EXCEPT !.status = "ready", !.leased = FALSE]
    BY DEF RecordReady
  <1>2. row \in Rows /\ (builder[e].at \in Removing \cup {"mark", "work"} => builder[e].box \in Boxes)
    BY Typed DEF BoxInHand
  <1>3. OneMoves(e)
    BY <1>1, ToIdle DEF RecordReady, OneMoves, Works, BoxInHand, Removing, Places
  <1>4. RowWritten(e)
    <2> DEFINE r == [NoBox(row) EXCEPT !.status = "ready", !.leased = FALSE]
    <2>1. row' = row \/ (Fenced(e) /\ row' = r)
      BY <1>1
    <2>2. r \in Rows /\ r.box = 0 /\ r.epoch = row.epoch
      BY <1>2, NoBoxRow, ReadyRow
    <2>3. ~Works(e)'
      BY <1>1, ToIdle DEF Works
    <2> HIDE DEF r
    <2>4. QED
      BY <2>1, <2>2, <2>3, <1>2 DEF RowWritten, RecordReady
  <1>5. ProviderMoves
    BY Typed, RegistryAssumption DEF RecordReady, ProviderMoves, provider, BoxStates
  <1>6. Enters(e)
    BY <1>1, <1>2, ToIdle, NoBoxRow, ReadyRow DEF RecordReady, Enters, Works, Removing, Places, provider
  <1>7. Sends(e)
    BY <1>1, ToIdle DEF RecordReady, Sends, provider, Places
  <1>8. QED
    BY <1>3, <1>4, <1>5, <1>6, <1>7 DEF StepShape

\* A failure is recorded under the fence, and its worker is done.
LEMMA RecordFailureShape ==
  ASSUME RegistryInv, NEW e \in Builders, RecordFailure(e)
  PROVE  StepShape(e)
  <1> USE DEF RegistryInv, WorkersInv
  <1>1. /\ Goes(e, Idle)
        /\ \/ row' = row
           \/ /\ Fenced(e)
              /\ \E s \in {"failed", "requested"} :
                   row' = [row EXCEPT !.status = s, !.due = FALSE, !.leased = FALSE]
    BY DEF RecordFailure
  <1>2. row \in Rows /\ (builder[e].at \in Removing \cup {"mark", "work"} => builder[e].box \in Boxes)
    BY Typed DEF BoxInHand
  <1>3. OneMoves(e)
    BY <1>1, ToIdle DEF RecordFailure, OneMoves, Works, BoxInHand, Removing, Places
  <1>4. RowWritten(e)
    <2>1. ~Works(e)'
      BY <1>1, ToIdle DEF Works
    <2>2. CASE row' = row
      BY <2>2, <1>2 DEF RowWritten
    <2>3. CASE /\ Fenced(e)
               /\ \E s \in {"failed", "requested"} :
                    row' = [row EXCEPT !.status = s, !.due = FALSE, !.leased = FALSE]
      <3>1. row' \in Rows /\ row'.box = row.box /\ row'.intent = row.intent /\ row'.epoch = row.epoch
        <4>1. PICK s \in {"failed", "requested"} :
                row' = [row EXCEPT !.status = s, !.due = FALSE, !.leased = FALSE]
          BY <2>3
        <4>2. QED
          BY <4>1, <1>2, FailedRow
      <3>2. QED
        BY <2>1, <2>3, <3>1 DEF RowWritten
    <2>4. QED
      BY <1>1, <2>2, <2>3
  <1>5. ProviderMoves
    BY Typed, RegistryAssumption DEF RecordFailure, ProviderMoves, provider, BoxStates
  <1>6. Enters(e)
    BY <1>1, <1>2, ToIdle, FailedRow DEF RecordFailure, Enters, Works, Removing, Places, provider
  <1>7. Sends(e)
    BY <1>1, ToIdle DEF RecordFailure, Sends, provider, Places
  <1>8. QED
    BY <1>3, <1>4, <1>5, <1>6, <1>7 DEF StepShape

\* A crash leaves the row and the provider as they are.
LEMMA CrashShape ==
  ASSUME RegistryInv, NEW e \in Builders, Crash(e)
  PROVE  StepShape(e)
  <1> USE DEF RegistryInv, WorkersInv
  <1>1. Goes(e, Idle) /\ row' = row
    BY DEF Crash
  <1>2. row \in Rows /\ (builder[e].at \in Removing \cup {"mark", "work"} => builder[e].box \in Boxes)
    BY Typed DEF BoxInHand
  <1>3. OneMoves(e)
    BY <1>1, ToIdle DEF Crash, OneMoves, Works, BoxInHand, Removing, Places
  <1>4. RowWritten(e)
    BY <1>1, <1>2 DEF Crash, RowWritten, Works, Removing, Places
  <1>5. ProviderMoves
    BY Typed, RegistryAssumption DEF Crash, ProviderMoves, provider, BoxStates
  <1>6. Enters(e)
    BY <1>1, <1>2, ToIdle DEF Crash, Enters, Works, Removing, Places, provider
  <1>7. Sends(e)
    BY <1>1, ToIdle DEF Crash, Sends, provider, Places
  <1>8. QED
    BY <1>3, <1>4, <1>5, <1>6, <1>7 DEF StepShape
-----------------------------------------------------------------------------
(* Such a step preserves the invariant. *)

\* Workers, their epochs and the Boxes they hold survive a step of the shape.
LEMMA ShapeKeepsWorkers ==
  ASSUME RegistryInv, NEW e \in Builders, StepShape(e)
  PROVE  WorkersInv'
  <1> USE DEF RegistryInv, WorkersInv, StepShape
  <1>1. TypeOK'
    BY DEF OneMoves, RowWritten, ProviderMoves, TypeOK, Rows, Standings, Places, BoxStates
  <1>2. BoxInHand'
    BY DEF OneMoves, BoxInHand
  <1>3. EpochsFence'
    BY DEF OneMoves, RowWritten, EpochsFence, Fenced, Works
  <1>4. QED
    BY <1>1, <1>2, <1>3

\* The writes of a worker are fenced: to every other worker in charge the row is the same.
LEMMA OthersUndisturbed ==
  ASSUME RegistryInv, NEW e \in Builders, StepShape(e),
         NEW f \in Builders \ {e}, Works(f), Fenced(f)'
  PROVE  row' = row /\ Fenced(f)
  BY DEF RegistryInv, WorkersInv, StepShape, OneMoves, RowWritten, EpochsFence, Fenced, Works

\* A step of the shape preserves the whole invariant.
LEMMA ShapeKeepsRegistry ==
  ASSUME RegistryInv, NEW e \in Builders, StepShape(e)
  PROVE  RegistryInv'
  <1> USE DEF RegistryInv, WorkersInv, StepShape
  <1>1. builder[e] \in Standings /\ (builder[e].at = "delete" => builder[e].box \in Boxes)
    BY Typed DEF BoxInHand, Removing
  <1>2. deletes' \in [Boxes -> Nat]
    BY <1>1 DEF Sends
  <1>3. \A b \in Boxes : deletes'[b] = deletes[b] \/ (builder[e].at = "delete" /\ builder'[e].at # "delete" /\ b = builder[e].box /\ deletes'[b] = 1)
    BY <1>1 DEF Sends, OneSender
  <1>4. DeleteSentOnce'
    BY <1>3 DEF DeleteSentOnce
  <1>5. UncreatedUnknown'
    BY <1>1, <1>3 DEF UncreatedUnknown, OneMoves, RowWritten, ProviderMoves, Enters, Works, Boxes
  <1>6. CreatedIsOwn'
    BY <1>1, <1>3, RegistryAssumption DEF CreatedIsOwn, BoxInHand, OneMoves, RowWritten, Enters, Works, Boxes
  <1>7. OneSender'
    <2> SUFFICES ASSUME NEW g \in Builders, builder'[g].at = "delete"
                 PROVE  /\ deletes'[builder'[g].box] = 0
                        /\ row'.box = builder'[g].box => row'.intent
                        /\ \A f \in Builders \ {g} : builder'[f].at = "delete" => builder'[f].box # builder'[g].box
      BY DEF OneSender
    <2>1. CASE g = e
      BY <2>1, <1>1, <1>3 DEF OneSender, UnsentWithoutIntent, KnowsPointer, BoxInHand, Removing, OneMoves, RowWritten, Enters, Works
    <2>2. CASE g # e
      BY <2>2, <1>1, <1>3 DEF OneSender, UnsentWithoutIntent, KnowsPointer, CreatedIsOwn, BoxInHand, Removing, OneMoves, RowWritten, Enters, Works, Boxes
    <2>3. QED
      BY <2>1, <2>2
  <1>8. UnsentWithoutIntent'
    BY <1>1, <1>3 DEF UnsentWithoutIntent, OneSender, CreatedIsOwn, RowWritten, Enters, Works, Boxes
  <1>9. KnowsPointer'
    <2> SUFFICES ASSUME NEW g \in Builders, Works(g)', Fenced(g)'
                 PROVE  /\ builder'[g].at \in {"work", "reconcile"} =>
                             row'.box = builder'[g].box /\ (row'.intent => builder'[g].intent)
                        /\ builder'[g].at \in {"bake", "create", "mark", "ready"} => row'.box = 0
      BY DEF KnowsPointer
    <2>1. CASE g = e
      BY <2>1 DEF KnowsPointer, OneMoves, RowWritten, Enters, Works, Fenced
    <2>2. CASE g # e
      BY <2>2, OthersUndisturbed DEF KnowsPointer, OneMoves, Works
    <2>3. QED
      BY <2>1, <2>2
  <1>10. ClearedIsGone'
    BY DEF ClearedIsGone, BoxInHand, Removing, UncreatedUnknown, OneMoves, ProviderMoves, Enters, Works, Gone
  <1>11. QED
    BY <1>2, <1>4, <1>5, <1>6, <1>7, <1>8, <1>9, <1>10, ShapeKeepsWorkers
-----------------------------------------------------------------------------
(* The steps that are not of this shape: a claim, a creation, and time. *)

\* A claim takes a new epoch, which shuts every other worker out, and learns what the row says.
LEMMA ClaimKeepsRegistry ==
  ASSUME RegistryInv, NEW e \in Builders, Claim(e)
  PROVE  RegistryInv'
  <1> USE DEF RegistryInv, WorkersInv
  <1> DEFINE x == [at |-> First(Task), epoch |-> row.epoch + 1, box |-> row.box,
                   intent |-> row.intent, op |-> row.op, then |-> Task]
  <1>1. row \in Rows /\ (row.box # 0 => row.box \in Boxes) /\ builder[e].at = "idle"
    <2>1. row \in Rows
      BY Typed
    <2>2. QED
      BY <2>1, RegistryAssumption DEF Rows, Boxes, Claim
  <1>2. Attempted \in 0..MaxAttempts
    BY <1>1, RegistryAssumption DEF Rows, Attempted, RecoveryOnly, Claim, Abandoned
  <1>3. /\ Task \in {"bake", "failed"} /\ First(Task) \in {"reconcile", "bake", "failed"}
        /\ First(Task) = "reconcile" => row.box \in Boxes
        /\ First(Task) = "bake" => row.box = 0
    BY <1>1 DEF Task, First
  <1>4. x \in Standings
    BY <1>1, <1>3 DEF Rows, Standings, Places
  <1>5. /\ builder' \in [Builders -> Standings]
        /\ \A f \in Builders \ {e} : builder'[f] = builder[f]
        /\ builder'[e].at = First(Task) /\ builder'[e].epoch = row.epoch + 1 /\ builder'[e].box = row.box
        /\ builder'[e].intent = row.intent /\ builder'[e].then = Task
    <2>1. Goes(e, x)
      BY DEF Claim
    <2>2. QED
      BY <1>4, <2>1, GoesTo
  <1>6. /\ row' \in Rows /\ row'.epoch = row.epoch + 1 /\ row'.status = "building"
        /\ row'.box = row.box /\ row'.intent = row.intent
    <2>1. row' = [row EXCEPT !.status = "building", !.epoch = row.epoch + 1, !.leased = TRUE, !.attempts = Attempted]
      BY DEF Claim
    <2>2. row'.epoch = row.epoch + 1 /\ row'.status = "building" /\ row'.box = row.box /\ row'.intent = row.intent
      BY <1>1, <2>1 DEF Rows
    <2>3. row' \in Rows
      <3>1. \A m \in 0..MaxAttempts, n \in Nat :
              [row EXCEPT !.status = "building", !.epoch = n, !.leased = TRUE, !.attempts = m] \in Rows
        BY <1>1 DEF Rows
      <3>2. row.epoch + 1 \in Nat
        BY <1>1 DEF Rows
      <3>3. QED
        BY <1>2, <2>1, <3>1, <3>2
    <2>4. QED
      BY <2>2, <2>3
  <1>7. boxes' = boxes /\ deletes' = deletes /\ snapshot' = snapshot /\ mishaps' = mishaps
    BY DEF Claim, provider
  <1> HIDE DEF x
  <1>8. \A f \in Builders : builder[f] \in Standings /\ builder'[f] \in Standings
    BY <1>5, Typed
  <1>9. TypeOK'
    BY <1>5, <1>6, <1>7 DEF TypeOK, Rows, Standings, Places
  <1>10. BoxInHand'
    BY <1>3, <1>5 DEF BoxInHand, Removing
  <1>11. EpochsFence'
    <2>1. \A f \in Builders : builder[f].epoch \in Nat /\ row.epoch \in Nat
      BY <1>1, <1>8 DEF Standings, Rows
    <2>2. QED
      BY <2>1, <1>5, <1>6 DEF EpochsFence, Works
  <1>12. \A f \in Builders \ {e} : Works(f) => ~Fenced(f)'
    <2>1. \A f \in Builders : builder[f].epoch \in Nat /\ row.epoch \in Nat
      BY <1>1, <1>8 DEF Standings, Rows
    <2>2. QED
      BY <2>1, <1>5, <1>6 DEF EpochsFence, Works, Fenced
  <1>13. deletes' \in [Boxes -> Nat] /\ DeleteSentOnce'
    BY <1>7 DEF DeleteSentOnce
  <1>14. UncreatedUnknown' /\ CreatedIsOwn'
    BY <1>3, <1>5, <1>6, <1>7 DEF UncreatedUnknown, CreatedIsOwn, Works
  <1>15. OneSender' /\ UnsentWithoutIntent'
    BY <1>3, <1>5, <1>6, <1>7 DEF OneSender, UnsentWithoutIntent
  <1>16. KnowsPointer'
    BY <1>3, <1>5, <1>6, <1>12 DEF KnowsPointer, Works
  <1>17. ClearedIsGone'
    BY <1>3, <1>5, <1>7 DEF ClearedIsGone
  <1>18. QED
    BY <1>9, <1>10, <1>11, <1>13, <1>14, <1>15, <1>16, <1>17

\* A created Box is one nobody knows, so nothing can have been sent for it.
LEMMA CreateKeepsRegistry ==
  ASSUME RegistryInv, NEW e \in Builders, Create(e)
  PROVE  RegistryInv'
  <1> USE DEF RegistryInv, WorkersInv
  <1>1. /\ row' = row /\ deletes' = deletes /\ snapshot' = snapshot /\ mishaps' = mishaps
        /\ builder[e].at = "create" /\ boxes' \in [Boxes -> BoxStates]
        /\ \A b \in Boxes : (boxes'[b] = "none" => boxes[b] = "none") /\ (boxes[b] = "gone" => boxes'[b] = "gone")
    BY Typed DEF Create, BoxStates
  <1>2. \/ To(e, "failed")
        \/ \E b \in Boxes :
             /\ boxes[b] = "none" /\ boxes'[b] # "none"
             /\ Goes(e, [builder[e] EXCEPT !.at = "mark", !.box = b, !.intent = FALSE, !.op = FALSE])
    BY Typed DEF Create, Fails
  <1>3. CASE To(e, "failed")
    <2>1. /\ builder' \in [Builders -> Standings]
          /\ \A f \in Builders \ {e} : builder'[f] = builder[f]
          /\ builder'[e].at = "failed" /\ builder'[e].epoch = builder[e].epoch /\ builder'[e].box = builder[e].box
      BY <1>3, ToPlace DEF Places
    <2>2. TypeOK'
      BY <1>1, <2>1 DEF TypeOK, Standings, Places, BoxStates
    <2>6. BoxInHand' /\ EpochsFence'
      BY <1>1, <2>1 DEF BoxInHand, Removing, EpochsFence, Works
    <2>3. DeleteSentOnce' /\ UncreatedUnknown' /\ CreatedIsOwn' /\ OneSender' /\ UnsentWithoutIntent'
      BY <1>1, <2>1 DEF DeleteSentOnce, UncreatedUnknown, CreatedIsOwn, OneSender, UnsentWithoutIntent, Works
    <2>4. KnowsPointer' /\ ClearedIsGone'
      BY <1>1, <2>1 DEF KnowsPointer, ClearedIsGone, BoxInHand, Removing, Works, Fenced
    <2>5. QED
      BY <1>1, <2>2, <2>3, <2>4, <2>6
  <1>4. CASE \E b \in Boxes :
               /\ boxes[b] = "none" /\ boxes'[b] # "none"
               /\ Goes(e, [builder[e] EXCEPT !.at = "mark", !.box = b, !.intent = FALSE, !.op = FALSE])
    <2>1. PICK b \in Boxes :
               /\ boxes[b] = "none" /\ boxes'[b] # "none"
               /\ Goes(e, [builder[e] EXCEPT !.at = "mark", !.box = b, !.intent = FALSE, !.op = FALSE])
      BY <1>4
    <2>2. /\ builder' \in [Builders -> Standings]
          /\ \A f \in Builders \ {e} : builder'[f] = builder[f]
          /\ builder'[e].at = "mark" /\ builder'[e].epoch = builder[e].epoch /\ builder'[e].box = b
      BY <2>1, ToMark
    <2>3. TypeOK' /\ BoxInHand' /\ EpochsFence'
      <3>1. TypeOK'
        BY <1>1, <2>2 DEF TypeOK, Standings, Places, BoxStates
      <3>2. BoxInHand' /\ EpochsFence'
        BY <1>1, <2>2 DEF BoxInHand, Removing, EpochsFence, Works
      <3>3. QED
        BY <3>1, <3>2
    <2>4. deletes[b] = 0 /\ row.box # b /\ \A f \in Builders : Works(f) => builder[f].box # b
      BY <2>1 DEF UncreatedUnknown
    <2>5. DeleteSentOnce' /\ UncreatedUnknown' /\ OneSender' /\ UnsentWithoutIntent'
      BY <1>1, <2>1, <2>2 DEF DeleteSentOnce, UncreatedUnknown, OneSender, UnsentWithoutIntent, Works
    <2>6. CreatedIsOwn'
      BY <1>1, <2>2, <2>4 DEF CreatedIsOwn, Works
    <2>7. KnowsPointer' /\ ClearedIsGone'
      BY <1>1, <2>2 DEF KnowsPointer, ClearedIsGone, BoxInHand, Removing, Works, Fenced
    <2>8. QED
      BY <1>1, <2>3, <2>5, <2>6, <2>7
  <1>5. QED
    BY <1>2, <1>3, <1>4

\* Cooldowns, backoffs and expired leases leave the Boxes and the pointer alone.
LEMMA TimeKeepsRegistry ==
  ASSUME RegistryInv, Rearm \/ BackoffEnds \/ LeaseExpires
  PROVE  RegistryInv'
  <1> USE DEF RegistryInv, WorkersInv
  <1>1. row \in Rows
    BY Typed
  <1>2. /\ row' \in Rows /\ row'.epoch = row.epoch /\ row'.box = row.box /\ row'.intent = row.intent
        /\ row'.status = row.status \/ row.status = "failed"
    <2>1. CASE Rearm
      <3>1. row.cycle + 1 \in 1..MaxCycles /\ 0 \in 0..MaxAttempts
        BY <1>1, <2>1, RegistryAssumption DEF Rearm, Rows
      <3>2. row' = [row EXCEPT !.status = "requested", !.attempts = 0, !.due = TRUE, !.cycle = row.cycle + 1]
        BY <2>1 DEF Rearm
      <3>3. row' \in Rows
        BY <1>1, <3>1, <3>2 DEF Rows
      <3>4. row'.epoch = row.epoch /\ row'.box = row.box /\ row'.intent = row.intent /\ row.status = "failed"
        BY <1>1, <2>1, <3>2 DEF Rearm, Rows
      <3>5. QED
        BY <3>3, <3>4
    <2>2. CASE BackoffEnds
      BY <1>1, <2>2 DEF BackoffEnds, Rows
    <2>3. CASE LeaseExpires
      BY <1>1, <2>3 DEF LeaseExpires, Rows
    <2>4. QED
      BY <2>1, <2>2, <2>3
  <1>3. boxes' = boxes /\ deletes' = deletes /\ snapshot' = snapshot /\ builder' = builder /\ mishaps' \in 0..MaxMishaps
    BY Typed, RegistryAssumption DEF Rearm, BackoffEnds, LeaseExpires, provider
  <1>4. TypeOK'
    BY <1>2, <1>3 DEF TypeOK, Rows
  <1>5. BoxInHand' /\ EpochsFence'
    BY <1>2, <1>3 DEF BoxInHand, EpochsFence, Works
  <1>6. \A e \in Builders : Works(e) /\ Fenced(e)' => Fenced(e)
    BY <1>2, <1>3 DEF EpochsFence, Works, Fenced
  <1>7. KnowsPointer'
    BY <1>2, <1>3, <1>6 DEF KnowsPointer, Works
  <1>8. DeleteSentOnce' /\ UncreatedUnknown' /\ CreatedIsOwn' /\ OneSender' /\ UnsentWithoutIntent' /\ ClearedIsGone'
    BY <1>2, <1>3 DEF DeleteSentOnce, UncreatedUnknown, CreatedIsOwn, OneSender, UnsentWithoutIntent, ClearedIsGone, Works
  <1>9. QED
    BY <1>3, <1>4, <1>5, <1>7, <1>8

\* A Box may end at any step.
LEMMA BoxEndsKeepsRegistry ==
  ASSUME RegistryInv, BoxEnds
  PROVE  RegistryInv'
  <1> USE DEF RegistryInv, WorkersInv
  <1>1. /\ row' = row /\ deletes' = deletes /\ snapshot' = snapshot /\ builder' = builder /\ mishaps' = mishaps
        /\ boxes' \in [Boxes -> BoxStates]
        /\ \A b \in Boxes : (boxes'[b] = "none" => boxes[b] = "none") /\ (boxes[b] = "gone" => boxes'[b] = "gone")
    BY Typed DEF BoxEnds, BoxStates
  <1>2. TypeOK' /\ BoxInHand' /\ EpochsFence'
    BY <1>1 DEF TypeOK, BoxStates, BoxInHand, EpochsFence, Works
  <1>3. DeleteSentOnce' /\ UncreatedUnknown' /\ CreatedIsOwn' /\ OneSender' /\ UnsentWithoutIntent'
    BY <1>1 DEF DeleteSentOnce, UncreatedUnknown, CreatedIsOwn, OneSender, UnsentWithoutIntent, Works
  <1>4. KnowsPointer' /\ ClearedIsGone'
    BY <1>1 DEF KnowsPointer, ClearedIsGone, BoxInHand, Removing, Works, Fenced
  <1>5. QED
    BY <1>1, <1>2, <1>3, <1>4
-----------------------------------------------------------------------------
(* The invariant, and what follows from it. *)

\* What Next does: a worker's step of the common shape, or one of the others.
LEMMA NextCases ==
  ASSUME RegistryInv, Next
  PROVE  \/ \E e \in Builders : StepShape(e) \/ Claim(e) \/ Create(e)
         \/ Rearm \/ BackoffEnds \/ LeaseExpires \/ BoxEnds
  BY ReconcileShape, DeleteShape, MarkOperationShape, PollShape, ClearShape, BakeShape,
     MarkBoxShape, WorkShape, RecordReadyShape, RecordFailureShape, CrashShape DEF Next, Builds

\* The invariant holds at the start.
LEMMA InitRegistry == Init => RegistryInv
  <1> SUFFICES ASSUME Init PROVE RegistryInv
    OBVIOUS
  <1>1. TypeOK
    <2>1. 0 \in 0..MaxBoxes /\ 0 \in 0..MaxAttempts /\ 0 \in 0..MaxMishaps /\ 1 \in 1..MaxCycles
      BY RegistryAssumption
    <2>2. row \in Rows
      BY <2>1 DEF Init, Rows
    <2>3. Idle \in Standings
      BY <2>1 DEF Idle, Standings, Places
    <2>4. builder \in [Builders -> Standings] /\ boxes \in [Boxes -> BoxStates] /\ snapshot \in BOOLEAN
      BY <2>3 DEF Init, BoxStates
    <2>5. mishaps \in 0..MaxMishaps
      BY <2>1 DEF Init
    <2>6. QED
      BY <2>2, <2>4, <2>5 DEF TypeOK, Rows, Standings, Places, BoxStates
  <1>2. \A e \in Builders : builder[e].at = "idle"
    BY DEF Init, Idle
  <1>3. BoxInHand /\ EpochsFence /\ CreatedIsOwn /\ OneSender /\ KnowsPointer /\ ClearedIsGone
    BY <1>2 DEF BoxInHand, Removing, EpochsFence, CreatedIsOwn, OneSender, KnowsPointer, ClearedIsGone, Works
  <1>4. deletes \in [Boxes -> Nat] /\ DeleteSentOnce /\ UncreatedUnknown /\ UnsentWithoutIntent
    BY <1>2 DEF Init, DeleteSentOnce, UncreatedUnknown, UnsentWithoutIntent, Works, Boxes
  <1>5. QED
    BY <1>1, <1>3, <1>4 DEF RegistryInv, WorkersInv

\* Every step preserves the invariant.
LEMMA NextRegistry == RegistryInv /\ [Next]_vars => RegistryInv'
  <1> SUFFICES ASSUME RegistryInv, [Next]_vars PROVE RegistryInv'
    OBVIOUS
  <1>1. CASE Next
    BY <1>1, NextCases, ShapeKeepsRegistry, ClaimKeepsRegistry, CreateKeepsRegistry,
       TimeKeepsRegistry, BoxEndsKeepsRegistry
  <1>2. CASE UNCHANGED vars
    BY <1>2 DEF vars, RegistryInv, WorkersInv, TypeOK, BoxInHand, EpochsFence, DeleteSentOnce, UncreatedUnknown,
                CreatedIsOwn, OneSender, UnsentWithoutIntent, KnowsPointer, ClearedIsGone, Works, Fenced
  <1>3. QED
    BY <1>1, <1>2

\* The invariant of the image row, its workers and their Boxes: registry rows, fences and
\* the knowledge of each worker agree, whichever worker dies and whichever lease runs out.
THEOREM RegistryHolds == Spec => []RegistryInv
  <1>1. Init => RegistryInv
    BY InitRegistry
  <1>2. RegistryInv /\ [Next]_vars => RegistryInv'
    BY NextRegistry
  <1>3. QED
    BY <1>1, <1>2, PTL DEF Spec

\* imageBuildWorker and companionRuntimeBaker keep rows and workers of their kinds, and a
\* cycle never counts more attempts than it has.
THEOREM RegistryTyped == Spec => []TypeOK
  <1>1. RegistryInv => TypeOK
    BY DEF RegistryInv, WorkersInv
  <1>2. QED
    BY <1>1, RegistryHolds, PTL

\* deleteCompanionRuntimeBakerBox: an irreversible DELETE of a Box is sent once, through
\* crashes, lost answers, expired leases and takeovers.
THEOREM DeletesOnce == Spec => []DeleteSentOnce
  <1>1. RegistryInv => DeleteSentOnce
    BY DEF RegistryInv
  <1>2. QED
    BY <1>1, RegistryHolds, PTL

\* The row lets go of the pointer to a baker Box only when the provider has that Box no
\* more: no claim, failure, crash or takeover forgets a Box that still runs.
THEOREM PointerIsKept == Spec => PointerOutlivesBox
  <1> DEFINE Keeps == \A b \in Boxes : row.box = b /\ row'.box # b => Gone(b)
  <1>1. RegistryInv /\ [Next]_vars => [Keeps]_vars
    <2> SUFFICES ASSUME RegistryInv, Next, NEW b \in Boxes, row.box = b, row'.box # b
                 PROVE  Gone(b)
      OBVIOUS
    <2>1. \/ \E e \in Builders : StepShape(e) \/ Claim(e) \/ Create(e)
          \/ Rearm \/ BackoffEnds \/ LeaseExpires \/ BoxEnds
      BY NextCases
    <2>2. row \in Rows /\ b # 0
      BY Typed DEF RegistryInv, WorkersInv, Boxes
    <2>3. ASSUME NEW e \in Builders, StepShape(e) PROVE Gone(b)
      <3>1. Works(e) /\ Fenced(e)
        BY <2>3 DEF StepShape, OneMoves, RowWritten
      <3>2. builder[e].at = "clear" /\ row.box = builder[e].box
        BY <2>2, <2>3, <3>1 DEF StepShape, RowWritten, RegistryInv, KnowsPointer
      <3>3. QED
        BY <3>2 DEF RegistryInv, ClearedIsGone, Gone
    <2>4. ~(\E e \in Builders : Claim(e) \/ Create(e)) /\ ~(Rearm \/ BackoffEnds \/ LeaseExpires \/ BoxEnds)
      BY <2>2 DEF Claim, Create, Rearm, BackoffEnds, LeaseExpires, BoxEnds, Rows
    <2>5. QED
      BY <2>1, <2>3, <2>4
  <1>2. QED
    BY <1>1, RegistryHolds, PTL DEF Spec, PointerOutlivesBox
-----------------------------------------------------------------------------
(* Routines.                                                                 *)

Routines == [live : BOOLEAN, enabled : BOOLEAN, gen : Nat, schedule : Schedules \union {"none"},
             by : Schedules \union {"none"}, n : Nat, due : BOOLEAN, late : BOOLEAN, failures : Nat,
             claimed_by : Builders \union {"none"}, leased : BOOLEAN]
Runs == [n : Nat, gen : Nat, status : {"queued", "active", "succeeded", "failed", "interrupted", "cancelled"},
         stray : BOOLEAN]
FireClaims == [at : {"idle", "fire", "fail"}, by : Schedules \union {"none"}, n : Nat]
Drafts == [open : BOOLEAN, enabled : BOOLEAN, schedule : Schedules \union {"none"}]
RoutineTyped ==
  /\ routine \in Routines /\ turns \subseteq Runs
  /\ worker \in [Builders -> FireClaims] /\ draft \in Drafts

RoutineInv == RoutineTyped /\ R!OnlyRetriesOutliveRoutine
-----------------------------------------------------------------------------
(* Notifications.                                                            *)

Devices == [user : Users \union {"none"}, token : Nat, on : BOOLEAN]
Deliveries == [inst : Installations, key : Nat, rcpt : Users, allowed : BOOLEAN, old : BOOLEAN, due : BOOLEAN,
               claim : Nat, live : BOOLEAN]
Jobs == [worker : Senders, inst : Installations, key : Nat, rcpt : Users, claim : Nat, token : Nat,
         at : {"queued", "locking", "sending"}, lock : Nat]
OutboxTyped ==
  /\ device \in [Installations -> Devices] /\ phone \in [Installations -> Nat \union {-1}] /\ tokens \in Nat /\ events \in Nat
  /\ delivery \subseteq Deliveries /\ IsFiniteSet(delivery) /\ jobs \subseteq Jobs /\ IsFiniteSet(jobs)

\* No phone has the token, and none will; nor is it registered to anybody.
Dead(t) == /\ t <= tokens
           /\ \A i \in Installations : phone[i] # t /\ device[i].token # t

\* A token is that of one phone and is registered once.  An installation whose row has
\* another token than its phone was given a new one, and nobody has the old one, or is
\* gone from its phone.
TokensAreOwn ==
  /\ \A i \in Installations : phone[i] <= tokens /\ device[i].token <= tokens
  /\ \A i \in Installations : phone[i] = 0 => device[i].token = 0
  /\ \A i \in Installations : device[i].token = 0 => device[i].user = "none" /\ ~device[i].on
  /\ \A i, k \in Installations : phone[i] > 0 /\ phone[i] = phone[k] => i = k
  /\ \A i, k \in Installations : device[i].token > 0 /\ device[i].token = device[k].token => i = k
  /\ \A i \in Installations : phone[i] > 0 /\ phone[i] # device[i].token /\ device[i].token > 0 =>
       \A k \in Installations : phone[k] # device[i].token

\* A delivery is for the member its installation is registered to; all that is queued and
\* all that was claimed of an event is for the same member.
RecipientsAgree ==
  /\ \A d \in delivery : device[d.inst].user = d.rcpt /\ d.key <= events
  /\ \A j \in jobs : j.key <= events
  /\ \A d, e \in delivery : d.key = e.key => d.rcpt = e.rcpt
  /\ \A d \in delivery, j \in jobs : d.key = j.key => d.rcpt = j.rcpt

\* The token a job was given is that of the row as long as its delivery is queued, or
\* nobody has it any more; and so for the token it locks.
JobsKnowTokens ==
  /\ \A j \in jobs : j.token > 0
  /\ \A j \in jobs, d \in delivery : d.inst = j.inst /\ d.key = j.key => j.token = device[j.inst].token \/ Dead(j.token)
  /\ \A j \in jobs : j.at # "queued" => j.token = j.lock \/ Dead(j.token)

\* While a notification is sent its installation is its recipient's or nobody's, and no
\* other installation has the token.
SendsToItsOwn ==
  \A j \in jobs : j.at = "sending" =>
    /\ device[j.inst].user \in {j.rcpt, "none"}
    /\ \A i \in Installations : device[i].token = j.token => i = j.inst

OutboxInv == OutboxTyped /\ TokensAreOwn /\ RecipientsAgree /\ JobsKnowTokens /\ SendsToItsOwn
-----------------------------------------------------------------------------
(* Access tokens.                                                            *)

Accounts == [live : BOOLEAN, gmail : BOOLEAN, version : Nat \ {0}, n : Nat, refresh : Nat, usable : BOOLEAN]
Grants == [rotates : BOOLEAN, refresh : Nat, issued : Nat, ended : {"no", "reuse", "user"}]
Issues == [at : {"free", "called", "observed", "refresh", "refreshed", "answered", "failed"},
           box : Gateways \union {"none"}, force : BOOLEAN, seen : Nat, version : Nat, n : Nat, refresh : Nat]
Asked == [at : {"idle", "ask", "wait", "sent"}, force : BOOLEAN, first : Nat, n : Nat, call : Calls \union {"none"}]
TokensTyped ==
  /\ account \in Accounts /\ grant \in Grants /\ call \in [Calls -> Issues] /\ pending \in [Gateways -> Calls \union {"none"}]
  /\ request \in [Gateways -> [Requests -> Asked]] /\ orphaned \in BOOLEAN
  /\ cache \in [Gateways -> {"none", "fresh", "stale"}]

\* One transaction at a time has the row, and the row is as it read it.
RowIsHeld ==
  /\ \A c, d \in Calls : T!InRow(c) /\ T!InRow(d) => c = d
  /\ \A c \in Calls : T!InRow(c) => call[c].version = account.version
  /\ \A c \in Calls : call[c].at = "refresh" => call[c].refresh = account.refresh
  /\ \A c \in Calls : call[c].at = "refreshed" =>
       call[c].refresh = grant.refresh /\ account.n < call[c].n /\ call[c].n <= grant.issued

\* The refresh token is the provider's, in the row or in the transaction that is about
\* to write it, unless one was lost.
RefreshIsKept ==
  /\ ~orphaned /\ (\A c \in Calls : call[c].at # "refreshed") => account.refresh = grant.refresh
  /\ T!GrantOutlivesRefreshes

\* Tokens grow with the version of the row, and nobody has a newer one than the row.
TokensGrow ==
  /\ account.n <= grant.issued
  /\ \A c \in Calls : call[c].at = "answered" => call[c].n <= account.n
  /\ \A b \in Gateways, r \in Requests : request[b][r].first <= account.n

\* The call a gateway waits for, if it is forced, was made after every token the gateway
\* was refused: when the row has moved past what the call observed, and when the call is
\* answered, its token is newer.
ForcedIsNewer ==
  \A b \in Gateways, c \in Calls, r \in Requests : pending[b] = c /\ call[c].force =>
    /\ call[c].at = "observed" /\ call[c].seen > 0 =>
         /\ call[c].seen <= account.version
         /\ call[c].seen < account.version => request[b][r].first < account.n
    /\ call[c].at = "answered" => request[b][r].first < call[c].n

TokenInv == TokensTyped /\ RowIsHeld /\ RefreshIsKept /\ TokensGrow /\ ForcedIsNewer /\ T!RetryUsesNewerToken

-----------------------------------------------------------------------------
(* Routines.                                                                 *)

LEMMA RoutineStarts == R!Init /\ MaxFailures \in Nat => RoutineInv
  BY DEF R!Init, R!New, R!NoClaim, R!NoDraft, FireClaims, Drafts, RoutineInv, RoutineTyped, Routines, R!OnlyRetriesOutliveRoutine, R!IsCurrent, R!HasInstant

\* A run gets a status that is not "queued".
LEMMA MovedRun ==
  ASSUME RoutineTyped, NEW ts \in SUBSET Runs, NEW t \in Runs,
         NEW status \in {"active", "succeeded", "failed", "interrupted", "cancelled"}
  PROVE  /\ R!With(ts, t, status) \subseteq Runs
         /\ \A u \in R!With(ts, t, status) : u.status = "queued" => u \in ts
  <1>1. [t EXCEPT !.status = status] \in Runs /\ [t EXCEPT !.status = status].status = status
    BY DEF Runs
  <1>2. QED
    BY <1>1 DEF R!With

\* The triggers leave no queued run of the routine's generation, and so none but strays.
LEMMA NoneIsQueued ==
  ASSUME RoutineInv
  PROVE  R!Cancelled \subseteq Runs /\ \A t \in R!Cancelled : t.status = "queued" => t.stray
  <1>1. \A t \in Runs : [t EXCEPT !.status = "cancelled"] \in Runs /\ [t EXCEPT !.status = "cancelled"].status = "cancelled"
    BY DEF Runs
  <1> SUFFICES ASSUME NEW u \in R!Cancelled PROVE u \in Runs /\ (u.status = "queued" => u.stray)
    OBVIOUS
  <1>2. PICK t \in turns : u = IF t.status = "queued" /\ t.gen = routine.gen THEN [t EXCEPT !.status = "cancelled"] ELSE t
    BY Zenon DEF R!Cancelled
  <1>3. t \in Runs /\ (t.status = "queued" => t.gen = routine.gen \/ t.stray)
    BY DEF RoutineInv, RoutineTyped, R!OnlyRetriesOutliveRoutine, R!IsCurrent, R!HasInstant
  <1>4. QED
    BY <1>1, <1>2, <1>3

\* A step that moves one run and leaves the routine live, enabled and of its generation.
LEMMA RunKeeps ==
  ASSUME RoutineInv, NEW t \in turns, NEW status \in {"active", "succeeded", "failed", "interrupted", "cancelled"},
         turns' = R!With(turns, t, status), routine' \in Routines, UNCHANGED <<worker, draft>>,
         routine'.live = routine.live, routine'.enabled = routine.enabled, routine'.gen = routine.gen
  PROVE  RoutineInv'
  BY MovedRun DEF RoutineInv, RoutineTyped, R!OnlyRetriesOutliveRoutine, R!IsCurrent, R!HasInstant

LEMMA TurnsKeep ==
  ASSUME RoutineInv, PartsAssumption, NEW t \in turns,
         R!Starts(t) \/ R!Expires(t) \/ R!Succeeds(t) \/ R!RunFails(t) \/ R!RunStops(t) \/ R!Retry(t)
  PROVE  RoutineInv'
  <1>1. routine \in Routines
    BY DEF RoutineInv, RoutineTyped
  <1>2. /\ [routine EXCEPT !.failures = 0] \in Routines /\ [routine EXCEPT !.failures = @ + 1] \in Routines
        /\ [[routine EXCEPT !.failures = @ + 1] EXCEPT !.enabled = FALSE, !.due = FALSE, !.late = FALSE] \in Routines
    <2>1. [routine EXCEPT !.failures = 0] \in Routines /\ [routine EXCEPT !.failures = @ + 1] \in Routines
      BY <1>1 DEF Routines
    <2>2. \A r \in Routines : [r EXCEPT !.enabled = FALSE, !.due = FALSE, !.late = FALSE] \in Routines
      BY DEF Routines
    <2>3. QED
      BY <2>1, <2>2
  <1>3. CASE R!Starts(t) \/ R!Expires(t) \/ R!RunStops(t)
    <2>1. PICK status \in {"active", "interrupted", "cancelled"} : turns' = R!With(turns, t, status)
      BY <1>3 DEF R!Starts, R!Expires, R!RunStops, R!Becomes
    <2>2. UNCHANGED <<routine, worker, draft>>
      BY <1>3 DEF R!Starts, R!Expires, R!RunStops
    <2>3. QED
      BY <1>1, <2>1, <2>2, RunKeeps
  <1>4. CASE R!Succeeds(t)
    <2>1. turns' = R!With(turns, t, "succeeded") /\ UNCHANGED <<worker, draft>>
          /\ routine' \in {routine, [routine EXCEPT !.failures = 0]}
      BY <1>4 DEF R!Succeeds, R!Becomes
    <2>2. routine' \in Routines /\ routine'.live = routine.live /\ routine'.enabled = routine.enabled /\ routine'.gen = routine.gen
      BY <1>1, <1>2, <2>1 DEF Routines
    <2>3. QED
      BY <2>1, <2>2, RunKeeps
  <1>5. CASE R!RunFails(t)
    <2>1. UNCHANGED <<worker, draft>>
      BY <1>5 DEF R!RunFails
    <2>2. CASE turns' = R!With(turns, t, "failed") /\ routine' \in {routine, [routine EXCEPT !.failures = @ + 1]}
      <3>1. routine' \in Routines /\ routine'.live = routine.live /\ routine'.enabled = routine.enabled /\ routine'.gen = routine.gen
        BY <1>1, <1>2, <2>2 DEF Routines
      <3>2. QED
        BY <2>1, <2>2, <3>1, RunKeeps
    <2>3. CASE /\ turns' = R!With(R!Cancelled, t, "failed")
               /\ routine' = [[routine EXCEPT !.failures = @ + 1] EXCEPT !.enabled = FALSE, !.due = FALSE, !.late = FALSE]
      <3>1. t \in Runs /\ R!Cancelled \in SUBSET Runs /\ \A u \in R!Cancelled : u.status = "queued" => u.stray
        BY NoneIsQueued DEF RoutineInv, RoutineTyped
      <3>2. turns' \subseteq Runs /\ \A u \in turns' : u.status = "queued" => u.stray
        BY <2>3, <3>1, MovedRun DEF RoutineInv
      <3>3. QED
        BY <1>2, <2>1, <2>3, <3>2 DEF RoutineInv, RoutineTyped, R!OnlyRetriesOutliveRoutine, R!IsCurrent, R!HasInstant
    <2>4. QED
      BY <1>5, <2>2, <2>3 DEF R!RunFails, R!Becomes
  <1>6. CASE R!Retry(t)
    <2> DEFINE u == [t EXCEPT !.status = "queued", !.stray = ~R!IsCurrent(t)]
    <2>1. turns' = (turns \ {t}) \union {u} /\ UNCHANGED <<routine, worker, draft>>
      BY <1>6 DEF R!Retry
    <2>2. u \in Runs /\ (R!IsCurrent(u) \/ u.stray)
      BY DEF RoutineInv, RoutineTyped, Runs, R!IsCurrent
    <2> HIDE DEF u
    <2>3. QED
      BY <2>1, <2>2 DEF RoutineInv, RoutineTyped, R!OnlyRetriesOutliveRoutine, R!IsCurrent, R!HasInstant
  <1>7. QED
    BY <1>3, <1>4, <1>5, <1>6

\* What the operators on the row leave of it.
LEMMA RowsTyped ==
  ASSUME NEW r \in Routines
  PROVE  /\ R!Unclaimed(r) \in Routines
         /\ R!Unclaimed(r).live = r.live /\ R!Unclaimed(r).enabled = r.enabled /\ R!Unclaimed(r).gen = r.gen
  BY DEF Routines, R!Unclaimed

LEMMA MovedTyped ==
  ASSUME NEW r \in Routines, NEW by \in Schedules \union {"none"}, NEW n \in Nat
  PROVE  /\ R!At(r, by, n) \in Routines
         /\ R!At(r, by, n).live = r.live /\ R!At(r, by, n).enabled = r.enabled /\ R!At(r, by, n).gen = r.gen
  BY DEF Routines, R!At

\* A routine that stays as it was for its runs, or loses all that are queued.
LEMMA RowKeeps ==
  ASSUME RoutineInv, routine' \in Routines, UNCHANGED turns,
         worker' \in [Builders -> FireClaims],
         draft' \in Drafts,
         routine'.live = routine.live, routine'.enabled = routine.enabled \/ routine'.enabled, routine'.gen = routine.gen
  PROVE  RoutineInv'
  BY DEF RoutineInv, RoutineTyped, R!OnlyRetriesOutliveRoutine, R!IsCurrent, R!HasInstant, Routines

LEMMA DisableKeeps ==
  ASSUME RoutineInv, routine' \in Routines, turns' = R!Cancelled,
         worker' \in [Builders -> FireClaims],
         draft' \in Drafts
  PROVE  RoutineInv'
  BY NoneIsQueued DEF RoutineInv, RoutineTyped, R!OnlyRetriesOutliveRoutine, R!IsCurrent, R!HasInstant

LEMMA DisablesTyped ==
  ASSUME NEW r \in Routines, R!Disables(r)
  PROVE  routine' \in Routines /\ turns' = R!Cancelled
  BY DEF R!Disables, Routines

LEMMA ClockKeeps ==
  ASSUME RoutineInv, R!ComesDue \/ R!GrowsLate \/ R!LeaseExpires
  PROVE  RoutineInv'
  <1>1. routine \in Routines
    BY DEF RoutineInv, RoutineTyped
  <1>2. UNCHANGED <<worker, turns, draft>>
    BY DEF R!ComesDue, R!GrowsLate, R!LeaseExpires
  <1>3. routine' \in {[routine EXCEPT !.due = TRUE], [routine EXCEPT !.late = TRUE], [routine EXCEPT !.leased = FALSE]}
    BY DEF R!ComesDue, R!GrowsLate, R!LeaseExpires
  <1>4. routine' \in Routines /\ routine'.live = routine.live /\ routine'.enabled = routine.enabled /\ routine'.gen = routine.gen
    BY <1>1, <1>3 DEF Routines
  <1>5. QED
    BY <1>2, <1>4, RowKeeps DEF RoutineInv, RoutineTyped

LEMMA WorkerTyped ==
  ASSUME RoutineTyped, NEW w \in Builders
  PROVE  /\ worker[w] \in FireClaims
         /\ [worker EXCEPT ![w] = R!NoClaim] \in [Builders -> FireClaims]
         /\ [worker EXCEPT ![w].at = "fail"] \in [Builders -> FireClaims]
         /\ [worker EXCEPT ![w] = [at |-> "fire", by |-> routine.by, n |-> routine.n]] \in [Builders -> FireClaims]
  <1>1. R!NoClaim \in FireClaims
    BY DEF R!NoClaim, FireClaims
  <1>2. [at |-> "fire", by |-> routine.by, n |-> routine.n] \in FireClaims
    BY DEF RoutineTyped, Routines, FireClaims
  <1>3. worker[w] \in FireClaims
    BY DEF RoutineTyped
  <1>4. [worker[w] EXCEPT !.at = "fail"] \in FireClaims
    BY <1>3 DEF FireClaims
  <1>5. QED
    BY <1>1, <1>2, <1>3, <1>4 DEF RoutineTyped

LEMMA MovesTyped ==
  ASSUME RoutineTyped, NEW w \in Builders, R!Done(w) \/ R!ToFail(w)
  PROVE  worker' \in [Builders -> FireClaims]
  <1>1. /\ [worker EXCEPT ![w] = R!NoClaim] \in [Builders -> FireClaims]
        /\ [worker EXCEPT ![w].at = "fail"] \in [Builders -> FireClaims]
    BY WorkerTyped
  <1>2. QED
    BY <1>1 DEF R!Done, R!ToFail

LEMMA ClaimKeeps ==
  ASSUME RoutineInv, NEW w \in Builders, R!Claim(w)
  PROVE  RoutineInv'
  <1>1. routine \in Routines
    BY DEF RoutineInv, RoutineTyped
  <1>2. /\ UNCHANGED <<turns, draft>> /\ routine' = [routine EXCEPT !.claimed_by = w, !.leased = TRUE]
        /\ worker' = [worker EXCEPT ![w] = [at |-> "fire", by |-> routine.by, n |-> routine.n]]
    BY DEF R!Claim
  <1>3. routine' \in Routines /\ routine'.live = routine.live /\ routine'.enabled = routine.enabled /\ routine'.gen = routine.gen
    BY <1>1, <1>2 DEF Routines
  <1>4. QED
    BY <1>2, <1>3, RowKeeps, WorkerTyped DEF RoutineInv, RoutineTyped

LEMMA FireKeeps ==
  ASSUME RoutineInv, NEW w \in Builders, R!Fire(w)
  PROVE  RoutineInv'
  <1>1. routine \in Routines /\ turns \subseteq Runs /\ worker[w] \in FireClaims
    BY WorkerTyped DEF RoutineInv, RoutineTyped
  <1>2. UNCHANGED draft /\ draft' \in Drafts
    BY DEF R!Fire, RoutineInv, RoutineTyped
  <1>3. worker' \in [Builders -> FireClaims]
    <2>1. R!Done(w) \/ R!ToFail(w)
      BY Zenon DEF R!Fire
    <2>2. RoutineTyped
      BY DEF RoutineInv
    <2>3. QED
      BY <2>1, <2>2, MovesTyped
  <1>4. CASE UNCHANGED <<routine, turns>>
    BY <1>1, <1>2, <1>3, <1>4, RowKeeps
  <1>5. CASE /\ R!Fence(w) /\ routine' = R!Unclaimed(R!Moved(routine, w))
             /\ turns' = IF routine.late \/ R!InFlight # {} THEN turns ELSE R!Enqueued(w)
    <2>1. worker[w].by \in Schedules \union {"none"} /\ worker[w].n + 1 \in Nat
      BY <1>1 DEF FireClaims
    <2>2. R!Moved(routine, w) \in Routines /\ R!Moved(routine, w).live = routine.live
          /\ R!Moved(routine, w).enabled = routine.enabled /\ R!Moved(routine, w).gen = routine.gen
      BY <1>1, <2>1, MovedTyped DEF R!Moved
    <2>3. routine' \in Routines /\ routine'.live = routine.live /\ routine'.enabled = routine.enabled /\ routine'.gen = routine.gen
      BY <1>5, <2>2, RowsTyped
    <2>4. \A t \in turns' : t \in turns \/ t = [n |-> worker[w].n, gen |-> routine.gen, status |-> "queued", stray |-> FALSE]
      BY <1>5 DEF R!Enqueued
    <2>5. [n |-> worker[w].n, gen |-> routine.gen, status |-> "queued", stray |-> FALSE] \in Runs
      BY <1>1 DEF Runs, Routines, FireClaims
    <2>6. R!HasInstant
      BY <1>5 DEF R!Fence
    <2>7. R!HasInstant' /\ \A t \in turns' : t.status = "queued" => t.gen = routine'.gen \/ t.stray
      BY <2>3, <2>4, <2>6 DEF RoutineInv, R!OnlyRetriesOutliveRoutine, R!IsCurrent, R!HasInstant
    <2>8. turns' \subseteq Runs
      BY <1>1, <2>4, <2>5
    <2>9. QED
      BY <1>2, <1>3, <2>3, <2>7, <2>8 DEF RoutineInv, RoutineTyped, R!OnlyRetriesOutliveRoutine, R!IsCurrent
  <1>6. QED
    BY <1>4, <1>5 DEF R!Fire

LEMMA FailKeeps ==
  ASSUME RoutineInv, NEW w \in Builders, R!Fail(w) \/ R!Crash(w)
  PROVE  RoutineInv'
  <1>1. routine \in Routines /\ worker[w] \in FireClaims
    BY WorkerTyped DEF RoutineInv, RoutineTyped
  <1>2. UNCHANGED draft /\ draft' \in Drafts
    BY DEF R!Fail, R!Crash, RoutineInv, RoutineTyped
  <1>3. worker' \in [Builders -> FireClaims]
    <2>1. R!Done(w) /\ RoutineTyped
      BY DEF R!Fail, R!Crash, RoutineInv
    <2>2. QED
      BY <2>1, MovesTyped
  <1> DEFINE r == R!Unclaimed([routine EXCEPT !.failures = @ + 1])
  <1>4. r \in Routines /\ r.live = routine.live /\ r.enabled = routine.enabled /\ r.gen = routine.gen
    <2>1. LET f == [routine EXCEPT !.failures = @ + 1]
          IN f \in Routines /\ f.live = routine.live /\ f.enabled = routine.enabled /\ f.gen = routine.gen
      BY <1>1 DEF Routines
    <2>2. QED
      BY <2>1, RowsTyped
  <1>5. UNCHANGED <<routine, turns>> \/ R!Disables(r) \/ (routine' = R!Moved(r, w) /\ UNCHANGED turns)
    BY DEF R!Fail, R!Crash
  <1> HIDE DEF r
  <1>6. CASE UNCHANGED <<routine, turns>>
    BY <1>1, <1>2, <1>3, <1>6, RowKeeps
  <1>7. CASE R!Disables(r)
    BY <1>2, <1>3, <1>4, <1>7, DisablesTyped, DisableKeeps
  <1>8. CASE routine' = R!Moved(r, w) /\ UNCHANGED turns
    <2>1. worker[w].by \in Schedules \union {"none"} /\ worker[w].n + 1 \in Nat
      BY <1>1 DEF FireClaims
    <2>2. routine' \in Routines /\ routine'.live = routine.live /\ routine'.enabled = routine.enabled /\ routine'.gen = routine.gen
      BY <1>4, <1>8, <2>1, MovedTyped DEF R!Moved
    <2>3. QED
      BY <1>2, <1>3, <1>8, <2>2, RowKeeps
  <1>9. QED
    BY <1>5, <1>6, <1>7, <1>8

\* A definition written again is enabled.
LEMMA RewrittenTyped ==
  ASSUME RoutineInv, NEW s \in Schedules \union {"none"}
  PROVE  /\ R!Rewritten(s) \in Routines
         /\ R!Rewritten(s).live = routine.live /\ R!Rewritten(s).enabled /\ R!Rewritten(s).gen = routine.gen
  <1>1. routine \in Routines /\ R!Again(s) \in Nat
    BY DEF RoutineInv, RoutineTyped, Routines, R!Again
  <1>2. R!At(routine, s, R!Again(s)) \in Routines /\ R!At(routine, s, R!Again(s)).live = routine.live
        /\ R!At(routine, s, R!Again(s)).gen = routine.gen
    BY <1>1, MovedTyped
  <1>3. \A a \in Routines : LET b == [a EXCEPT !.enabled = TRUE, !.schedule = s, !.failures = 0]
                            IN b \in Routines /\ b.live = a.live /\ b.enabled = TRUE /\ b.gen = a.gen
    BY DEF Routines
  <1>4. QED
    BY <1>2, <1>3 DEF R!Rewritten

LEMMA MemberKeeps ==
  ASSUME RoutineInv, R!OpenUpdate \/ R!Update \/ R!Delete
  PROVE  RoutineInv'
  <1>1. routine \in Routines /\ draft \in Drafts
    BY DEF RoutineInv, RoutineTyped
  <1>2. worker' = worker /\ worker' \in [Builders -> FireClaims]
    BY DEF R!OpenUpdate, R!Update, R!Delete, RoutineInv, RoutineTyped
  <1>3. draft' \in Drafts
    <2>1. R!OpenUpdate => draft' = [open |-> TRUE, enabled |-> routine.enabled, schedule |-> routine.schedule]
      BY DEF R!OpenUpdate
    <2>2. R!Update => draft' = R!NoDraft
      BY DEF R!Update
    <2>3. R!Delete => draft' = draft
      BY DEF R!Delete
    <2>4. R!NoDraft \in Drafts
      BY DEF R!NoDraft, Drafts
    <2>5. [open |-> TRUE, enabled |-> routine.enabled, schedule |-> routine.schedule] \in Drafts
      BY <1>1 DEF Routines, Drafts
    <2>6. QED
      BY <1>1, <2>1, <2>2, <2>3, <2>4, <2>5
  <1>4. CASE UNCHANGED <<routine, turns>>
    BY <1>1, <1>2, <1>3, <1>4, RowKeeps
  <1>5. CASE \E s \in {draft.schedule} \union Schedules : routine' = R!Rewritten(s) /\ UNCHANGED turns
    <2>1. PICK s \in Schedules \union {"none"} : routine' = R!Rewritten(s) /\ UNCHANGED turns
      BY <1>1, <1>5 DEF Drafts
    <2>2. QED
      BY <1>2, <1>3, <2>1, RewrittenTyped, RowKeeps
  <1>6. CASE \E s \in {draft.schedule} \union Schedules : R!Disables(R!Unclaimed([routine EXCEPT !.schedule = s, !.failures = 0]))
    <2>1. PICK s \in Schedules \union {"none"} : R!Disables(R!Unclaimed([routine EXCEPT !.schedule = s, !.failures = 0]))
      BY <1>1, <1>6 DEF Drafts
    <2>2. [routine EXCEPT !.schedule = s, !.failures = 0] \in Routines
      BY <1>1 DEF Routines
    <2>3. QED
      BY <1>2, <1>3, <2>1, <2>2, RowsTyped, DisablesTyped, DisableKeeps
  <1>7. CASE R!Delete
    <2>1. turns' = R!Cancelled /\ routine' = [R!Unclaimed(routine) EXCEPT !.live = FALSE, !.due = FALSE, !.late = FALSE]
      BY <1>7 DEF R!Delete
    <2>2. R!Unclaimed(routine) \in Routines
      BY <1>1, RowsTyped
    <2>3. routine' \in Routines
      BY <2>1, <2>2 DEF Routines
    <2>4. QED
      BY <1>2, <1>3, <2>1, <2>3, DisableKeeps
  <1>8. CASE R!Update
    BY <1>4, <1>5, <1>6, <1>8 DEF R!Update
  <1>9. CASE R!OpenUpdate
    BY <1>4, <1>9 DEF R!OpenUpdate
  <1>10. QED
    BY <1>7, <1>8, <1>9

LEMMA DefinitionKeeps ==
  ASSUME RoutineInv, NEW s \in Schedules, R!Approve(s) \/ R!Create(s)
  PROVE  RoutineInv'
  <1>1. routine \in Routines
    BY DEF RoutineInv, RoutineTyped
  <1>2. UNCHANGED <<worker, turns, draft>>
    BY DEF R!Approve, R!Create
  <1>3. CASE R!Approve(s)
    <2>1. routine' = R!Unclaimed(R!Rewritten(s))
      BY <1>3 DEF R!Approve
    <2>2. routine' \in Routines /\ routine'.live = routine.live /\ routine'.enabled /\ routine'.gen = routine.gen
      BY <2>1, RewrittenTyped, RowsTyped
    <2>3. QED
      BY <1>2, <2>2, RowKeeps DEF RoutineInv, RoutineTyped
  <1>4. CASE R!Create(s)
    <2>1. ~routine.live /\ routine' = R!New(s, routine.n + 1, routine.gen + 1)
      BY <1>4 DEF R!Create
    <2>2. routine' \in Routines
      BY <1>1, <2>1 DEF R!New, Routines
    <2>3. \A t \in turns : t.status = "queued" => t.stray
      BY <2>1 DEF RoutineInv, R!OnlyRetriesOutliveRoutine, R!IsCurrent, R!HasInstant
    <2>4. QED
      BY <1>2, <2>2, <2>3 DEF RoutineInv, RoutineTyped, R!OnlyRetriesOutliveRoutine, R!IsCurrent, R!HasInstant
  <1>5. QED
    BY <1>3, <1>4

LEMMA RoutineInductive == RoutineInv /\ PartsAssumption /\ [WorkersNext]_worker_vars => RoutineInv'
  <1> SUFFICES ASSUME RoutineInv, PartsAssumption, [WorkersNext]_worker_vars PROVE RoutineInv'
    OBVIOUS
  <1>1. CASE R!Next
    BY <1>1, TurnsKeep, ClaimKeeps, FireKeeps, FailKeeps, ClockKeeps, MemberKeeps, DefinitionKeeps DEF R!Next, R!Works
  <1>2. CASE UNCHANGED routines
    BY <1>2 DEF routines, RoutineInv, RoutineTyped, R!OnlyRetriesOutliveRoutine, R!IsCurrent, R!HasInstant
  <1>3. QED
    BY <1>1, <1>2 DEF WorkersNext, worker_vars

\* A routine that is deleted, disabled by its member or by its failures keeps no queued run
\* (companion_cancel_queued_routine_turns), not even one that was retried before: only a Retry
\* of an interrupted run afterwards (companion_api_retry_operation_handoff) queues one again.
THEOREM RetriesAloneOutliveRoutine == WorkersSpec => []OnlyRetriesOutliveRoutine
  <1>1. WorkersInit => RoutineInv
    BY RoutineStarts, PartsAssumption DEF WorkersInit
  <1>2. RoutineInv /\ [WorkersNext]_worker_vars => RoutineInv'
    BY RoutineInductive, PartsAssumption
  <1>3. RoutineInv => OnlyRetriesOutliveRoutine
    BY DEF RoutineInv, OnlyRetriesOutliveRoutine
  <1>4. QED
    BY <1>1, <1>2, <1>3, PTL DEF WorkersSpec

-----------------------------------------------------------------------------
(* Notifications.                                                            *)

LEMMA OutboxStarts == N!Init => OutboxInv
  <1> SUFFICES ASSUME N!Init PROVE OutboxInv
    OBVIOUS
  <1>1. N!NoDevice \in Devices /\ N!NoDevice.token = 0 /\ N!NoDevice.user = "none" /\ ~N!NoDevice.on
    BY DEF N!NoDevice, Devices
  <1>2. delivery = {} /\ jobs = {} /\ IsFiniteSet({})
    BY FS_EmptySet DEF N!Init
  <1>3. OutboxTyped
    BY <1>1, <1>2 DEF N!Init, OutboxTyped
  <1>4. TokensAreOwn
    BY <1>1 DEF N!Init, TokensAreOwn
  <1>5. QED
    BY <1>2, <1>3, <1>4 DEF OutboxInv, RecipientsAgree, JobsKnowTokens, SendsToItsOwn

LEMMA ClaimsOfFinite ==
  ASSUME NEW S, IsFiniteSet(S)
  PROVE  IsFiniteSet({s.claim : s \in S}) /\ Cardinality({s.claim : s \in S}) <= Cardinality(S)
  <1> DEFINE Claims == {s.claim : s \in S}
             f == [s \in S |-> s.claim]
  <1>1. f \in Surjection(S, Claims)
    BY DEF Surjection
  <1> HIDE DEF f
  <1>2. QED
    BY <1>1, FS_Surjection

\* There is a claim that nobody has: fewer are taken than the numbers it is chosen from.
LEMMA FreshIsNew ==
  ASSUME IsFiniteSet(jobs), IsFiniteSet(delivery)
  PROVE  /\ N!Fresh \in Nat
         /\ \A j \in jobs : j.claim # N!Fresh
         /\ \A d \in delivery : d.claim # N!Fresh
  <1> DEFINE S == {j.claim : j \in jobs}
             Claims == {d.claim : d \in delivery}
             m == Cardinality(jobs)
             n == Cardinality(delivery)
  <1>1. IsFiniteSet(S) /\ IsFiniteSet(Claims) /\ Cardinality(S) <= m /\ Cardinality(Claims) <= n
    BY ClaimsOfFinite
  <1>2. m \in Nat /\ n \in Nat
    BY FS_CardinalityType
  <1>3. \E c \in 1..(m + n + 1) : c \notin S \union Claims
    <2> HIDE DEF S, Claims, m, n
    <2>1. SUFFICES ASSUME 1..(m + n + 1) \subseteq S \union Claims PROVE FALSE
      OBVIOUS
    <2>2. Cardinality(S) \in Nat /\ Cardinality(Claims) \in Nat /\ IsFiniteSet(S \cap Claims)
      BY <1>1, FS_CardinalityType, FS_Subset
    <2>3. Cardinality(S \cap Claims) \in Nat
      BY <2>2, FS_CardinalityType
    <2>4. IsFiniteSet(S \union Claims) /\ Cardinality(S \union Claims) = Cardinality(S) + Cardinality(Claims) - Cardinality(S \cap Claims)
      BY <1>1, FS_Union
    <2>5. Cardinality(1..(m + n + 1)) = m + n + 1
      <3>1. 1 \in Int /\ m + n + 1 \in Int /\ ~(1 > m + n + 1)
        BY <1>2
      <3>2. Cardinality(1..(m + n + 1)) = (m + n + 1) - 1 + 1
        BY <3>1, FS_Interval
      <3>3. QED
        BY <1>2, <3>2
    <2>6. Cardinality(1..(m + n + 1)) <= Cardinality(S \union Claims)
      BY <2>1, <2>4, FS_Subset
    <2>7. QED
      BY <1>1, <1>2, <2>2, <2>3, <2>4, <2>5, <2>6
  <1>4. \E c \in 1..(m + n + 1) : (\A j \in jobs : j.claim # c) /\ (\A d \in delivery : d.claim # c)
    BY <1>3
  <1>5. N!Cardinality(jobs) = m /\ N!Cardinality(delivery) = n
    BY DEF N!Cardinality, Cardinality
  <1>6. N!Fresh \in 1..(m + n + 1) /\ (\A j \in jobs : j.claim # N!Fresh) /\ (\A d \in delivery : d.claim # N!Fresh)
    BY <1>4, <1>5 DEF N!Fresh
  <1>7. QED
    BY <1>2, <1>6

\* Steps of the queue: rows are dropped or changed, or filed for a new event of u.
LEMMA QueueKeeps ==
  ASSUME OutboxInv, OutboxTyped', UNCHANGED <<phone, tokens>>, events' >= events, NEW u,
         \A i \in Installations : /\ device'[i].user = device[i].user /\ device'[i].token = device[i].token
                                  /\ device'[i].on => device[i].on,
         \A d \in delivery' : \/ \E e \in delivery : d.inst = e.inst /\ d.key = e.key /\ d.rcpt = e.rcpt
                              \/ d.key = events' /\ events' > events /\ d.rcpt = u /\ device[d.inst].user = u,
         jobs' \subseteq jobs
  PROVE  OutboxInv'
  <1> USE DEF OutboxInv
  <1>1. TokensAreOwn'
    BY DEF TokensAreOwn
  <1>2. RecipientsAgree'
    BY DEF RecipientsAgree, OutboxTyped, Deliveries, Jobs
  <1>3. \A t : Dead(t)' <=> Dead(t)
    BY DEF Dead
  <1>4. JobsKnowTokens'
    <2>1. \A j \in jobs' : j \in jobs
      OBVIOUS
    <2>2. \A j \in jobs, d \in delivery' : d.key = j.key =>
             \E e \in delivery : d.inst = e.inst /\ d.key = e.key
      BY DEF RecipientsAgree, OutboxTyped, Deliveries, Jobs
    <2>3. ASSUME NEW j \in jobs', NEW d \in delivery', d.inst = j.inst, d.key = j.key
          PROVE  j.token = device'[j.inst].token \/ Dead(j.token)'
      <3>1. j.token = device[j.inst].token \/ Dead(j.token)
        BY <2>1, <2>2, <2>3 DEF JobsKnowTokens
      <3>2. j.inst \in Installations
        BY <2>1 DEF OutboxTyped, Jobs
      <3>3. QED
        BY <1>3, <3>1, <3>2
    <2>4. QED
      BY <1>3, <2>1, <2>3 DEF JobsKnowTokens
  <1>5. SendsToItsOwn'
    BY DEF SendsToItsOwn, OutboxTyped, Jobs
  <1>6. QED
    BY <1>1, <1>2, <1>4, <1>5

\* Installations are forgotten, and their deliveries with them.
LEMMA ForgetKeeps ==
  ASSUME OutboxInv, OutboxTyped', UNCHANGED <<jobs, phone, tokens, events>>,
         \A i \in Installations : device'[i] \in {device[i], N!NoDevice},
         delivery' \subseteq delivery, \A d \in delivery' : device'[d.inst] = device[d.inst]
  PROVE  OutboxInv'
  <1> USE DEF OutboxInv
  <1>1. N!NoDevice.token = 0 /\ N!NoDevice.user = "none" /\ ~N!NoDevice.on
    BY DEF N!NoDevice
  <1>2. TokensAreOwn'
    BY <1>1 DEF TokensAreOwn, OutboxTyped
  <1>3. RecipientsAgree'
    BY DEF RecipientsAgree
  <1>4. \A t \in Nat \ {0} : Dead(t) => Dead(t)'
    BY <1>1 DEF Dead
  <1>5. \A j \in jobs : j.token \in Nat \ {0} /\ j.inst \in Installations
    BY DEF JobsKnowTokens, OutboxTyped, Jobs
  <1>6. JobsKnowTokens'
    BY <1>4, <1>5 DEF JobsKnowTokens
  <1>7. SendsToItsOwn'
    BY <1>1, <1>5 DEF SendsToItsOwn
  <1>8. QED
    BY <1>2, <1>3, <1>6, <1>7

LEMMA DevicesTyped ==
  ASSUME OutboxTyped
  PROVE  /\ N!NoDevice \in Devices
         /\ \A i \in Installations : device[i] \in Devices
         /\ \A i \in Installations, u \in Users : phone[i] > 0 => [user |-> u, token |-> phone[i], on |-> TRUE] \in Devices
  BY DEF OutboxTyped, Devices, N!NoDevice

LEMMA UnregisterKeeps ==
  ASSUME OutboxInv, NEW i \in Installations, N!Unregister(i)
  PROVE  OutboxInv'
  <1>1. device' = [device EXCEPT ![i] = N!NoDevice] /\ delivery' = {d \in delivery : d.inst # i}
        /\ UNCHANGED <<jobs, phone, tokens, events>>
    BY DEF N!Unregister
  <1>2. \A k \in Installations : device'[k] = IF k = i THEN N!NoDevice ELSE device[k]
    BY <1>1 DEF OutboxInv, OutboxTyped
  <1>3. device' \in [Installations -> Devices]
    BY <1>1, DevicesTyped DEF OutboxInv, OutboxTyped
  <1>4. delivery' \subseteq delivery /\ IsFiniteSet(delivery')
    BY <1>1, FS_Subset DEF OutboxInv, OutboxTyped
  <1>5. OutboxTyped'
    BY <1>1, <1>3, <1>4 DEF OutboxInv, OutboxTyped
  <1>6. \A d \in delivery' : d.inst \in Installations /\ d.inst # i
    BY <1>1 DEF OutboxInv, OutboxTyped, Deliveries
  <1>7. QED
    BY <1>1, <1>2, <1>4, <1>5, <1>6, ForgetKeeps

LEMMA MembershipKeeps ==
  ASSUME OutboxInv, NEW u \in Users, N!MembershipEnds(u)
  PROVE  OutboxInv'
  <1>1. device' = [i \in Installations |-> IF device[i].user = u THEN N!NoDevice ELSE device[i]]
        /\ delivery' = {d \in delivery : d.rcpt # u} /\ UNCHANGED <<jobs, phone, tokens, events>>
    BY DEF N!MembershipEnds
  <1>2. \A k \in Installations : device'[k] = IF device[k].user = u THEN N!NoDevice ELSE device[k]
    BY <1>1
  <1>3. device' \in [Installations -> Devices]
    BY <1>1, DevicesTyped DEF OutboxInv
  <1>4. delivery' \subseteq delivery /\ IsFiniteSet(delivery')
    BY <1>1, FS_Subset DEF OutboxInv, OutboxTyped
  <1>5. OutboxTyped'
    BY <1>1, <1>3, <1>4 DEF OutboxInv, OutboxTyped
  <1>6. \A d \in delivery' : d.inst \in Installations /\ device[d.inst].user # u
    BY <1>1 DEF OutboxInv, OutboxTyped, Deliveries, RecipientsAgree
  <1>7. QED
    BY <1>1, <1>2, <1>4, <1>5, <1>6, ForgetKeeps

LEMMA RegisterKeeps ==
  ASSUME OutboxInv, NEW i \in Installations, NEW u \in Users, N!Register(i, u)
  PROVE  OutboxInv'
  <1> USE DEF OutboxInv
  <1> DEFINE t == phone[i]
             taken == {k \in Installations \ {i} : device[k].token = t}
  <1>1. /\ t > 0 /\ ~N!Locked(i, t) /\ UNCHANGED <<jobs, phone, tokens, events>>
        /\ \A k \in taken : ~N!Locked(k, device[k].token)
        /\ delivery' = {d \in delivery : d.inst \notin taken /\ (d.inst # i \/ device[i].user = u)}
    BY DEF N!Register, N!Affected
  <1>2. device' = [k \in Installations |-> IF k = i THEN [user |-> u, token |-> t, on |-> TRUE]
                                           ELSE IF k \in taken THEN N!NoDevice ELSE device[k]]
    BY DEF N!Register
  <1>3. /\ device'[i].user = u /\ device'[i].token = t
        /\ \A k \in Installations \ {i} : device[k].token = t => device'[k] = N!NoDevice
        /\ \A k \in Installations \ {i} : device[k].token # t => device'[k] = device[k]
    BY <1>2
  <1>4. N!NoDevice.token = 0 /\ N!NoDevice.user = "none" /\ ~N!NoDevice.on
    BY DEF N!NoDevice
  <1>5. t \in Nat \ {0}
    BY <1>1 DEF OutboxTyped
  <1>6. OutboxTyped'
    <2>1. device' \in [Installations -> Devices]
      BY <1>1, <1>2, DevicesTyped
    <2>2. delivery' \subseteq delivery /\ IsFiniteSet(delivery')
      BY <1>1, FS_Subset DEF OutboxTyped
    <2>3. QED
      BY <1>1, <2>1, <2>2 DEF OutboxTyped
  <1>7. TokensAreOwn'
    BY <1>1, <1>3, <1>4, <1>5 DEF TokensAreOwn, OutboxTyped
  <1>8. RecipientsAgree'
    BY <1>1, <1>3 DEF RecipientsAgree, OutboxTyped, Deliveries
  <1>9. \A s \in Nat \ {0} : Dead(s) => Dead(s)'
    BY <1>1, <1>3, <1>4 DEF Dead
  <1>10. \A j \in jobs : j.token \in Nat \ {0} /\ j.inst \in Installations
    BY DEF JobsKnowTokens, OutboxTyped, Jobs
  <1>11. JobsKnowTokens'
    <2>1. ASSUME NEW j \in jobs, NEW d \in delivery', d.inst = j.inst, d.key = j.key
          PROVE  j.token = device'[j.inst].token \/ Dead(j.token)'
      <3>1. d \in delivery /\ j.inst \notin taken
        BY <1>1, <2>1
      <3>2. CASE Dead(j.token)
        BY <1>9, <1>10, <3>2
      <3>3. CASE j.token = device[j.inst].token /\ j.inst # i
        BY <1>3, <1>10, <3>1, <3>3
      <3>4. CASE j.token = device[j.inst].token /\ j.inst = i /\ j.token # t
        <4>1. \A k \in Installations : phone[k] # j.token
          BY <1>1, <1>5, <1>10, <3>4 DEF TokensAreOwn
        <4>2. \A k \in Installations \ {i} : device[k].token # j.token
          BY <1>10, <3>4 DEF TokensAreOwn
        <4>3. j.token <= tokens
          BY <1>10, <3>4 DEF TokensAreOwn
        <4>4. QED
          BY <1>1, <1>3, <1>4, <1>10, <3>4, <4>1, <4>2, <4>3 DEF Dead
      <3>5. CASE j.inst = i /\ j.token = t
        BY <1>3, <3>5
      <3>6. QED
        BY <2>1, <3>1, <3>2, <3>3, <3>4, <3>5 DEF JobsKnowTokens
    <2>2. QED
      BY <1>1, <1>9, <1>10, <2>1 DEF JobsKnowTokens
  <1>12. SendsToItsOwn'
    <2>1. SUFFICES ASSUME NEW j \in jobs, j.at = "sending"
                   PROVE  /\ device'[j.inst].user \in {j.rcpt, "none"}
                          /\ \A k \in Installations : device'[k].token = j.token => k = j.inst
      BY <1>1 DEF SendsToItsOwn
    <2>2. j.inst # i /\ j.lock # t /\ j.inst \notin taken
      BY <1>1, <2>1 DEF N!Locked
    <2>3. device'[j.inst] = device[j.inst]
      BY <1>3, <1>10, <2>2
    <2>4. j.token # t
      BY <2>1, <2>2 DEF JobsKnowTokens, Dead
    <2>5. QED
      BY <1>3, <1>4, <1>10, <2>1, <2>3, <2>4 DEF SendsToItsOwn
  <1>13. QED
    BY <1>6, <1>7, <1>8, <1>11, <1>12

LEMMA PhonesKeep ==
  ASSUME OutboxInv, NEW i \in Installations, NEW k \in Installations, N!NewToken(i) \/ N!Reinstalls(i, k)
  PROVE  OutboxInv'
  <1> USE DEF OutboxInv
  <1>1. UNCHANGED <<device, delivery, jobs, events>>
    BY DEF N!NewToken, N!Reinstalls
  <1>2. \/ /\ phone[i] # -1 /\ tokens' = tokens + 1
           /\ \A n \in Installations : phone'[n] = IF n = i THEN tokens + 1 ELSE phone[n]
        \/ /\ phone[i] > 0 /\ phone[k] = 0 /\ tokens' = tokens
           /\ \A n \in Installations : phone'[n] = IF n = k THEN phone[i] ELSE IF n = i THEN -1 ELSE phone[n]
    BY DEF N!NewToken, N!Reinstalls, OutboxTyped
  <1>3. OutboxTyped'
    <2>1. phone' \in [Installations -> Nat \union {-1}] /\ tokens' \in Nat
      BY DEF N!NewToken, N!Reinstalls, OutboxTyped
    <2>2. QED
      BY <1>1, <2>1 DEF OutboxTyped
  <1>4. TokensAreOwn'
    <2>1. \A n \in Installations : device[n].token \in Nat /\ phone[n] \in Nat \union {-1}
      BY DEF OutboxTyped, Devices
    <2>2. tokens \in Nat
      BY DEF OutboxTyped
    <2>3. CASE tokens' = tokens + 1
      BY <1>1, <1>2, <2>1, <2>2, <2>3 DEF TokensAreOwn
    <2>4. CASE tokens' = tokens
      BY <1>1, <1>2, <2>1, <2>2, <2>4 DEF TokensAreOwn
    <2>5. QED
      BY <1>2, <2>3, <2>4
  <1>5. \A t \in Nat \ {0} : Dead(t) => Dead(t)'
    BY <1>1, <1>2 DEF Dead, OutboxTyped
  <1>6. \A j \in jobs : j.token \in Nat \ {0}
    BY DEF JobsKnowTokens, OutboxTyped, Jobs
  <1>7. RecipientsAgree' /\ SendsToItsOwn'
    BY <1>1 DEF RecipientsAgree, SendsToItsOwn
  <1>8. JobsKnowTokens'
    BY <1>1, <1>5, <1>6 DEF JobsKnowTokens
  <1>9. QED
    BY <1>3, <1>4, <1>7, <1>8

\* d is a row of the installation, event and member of e.
SameRow(d, e) == d \in Deliveries /\ d.inst = e.inst /\ d.key = e.key /\ d.rcpt = e.rcpt

LEMMA DeniedRow == \A d \in Deliveries : SameRow([d EXCEPT !.allowed = FALSE], d)
  BY DEF Deliveries, SameRow
LEMMA OldRow == \A d \in Deliveries : SameRow([d EXCEPT !.old = TRUE], d)
  BY DEF Deliveries, SameRow
LEMMA DueRow == \A d \in Deliveries : SameRow([d EXCEPT !.due = TRUE], d)
  BY DEF Deliveries, SameRow
LEMMA LostRow == \A d \in Deliveries : SameRow([d EXCEPT !.live = FALSE], d)
  BY DEF Deliveries, SameRow
LEMMA ClaimedRow == \A d \in Deliveries, n \in Nat : SameRow([d EXCEPT !.claim = n, !.live = TRUE], d)
  BY DEF Deliveries, SameRow
LEMMA DeferredRow == \A d \in Deliveries : SameRow([d EXCEPT !.due = FALSE, !.claim = 0, !.live = FALSE], d)
  BY DEF Deliveries, SameRow

\* Deliveries are replaced one by one, by rows of the same installation, event and member.
Rewrites(S, Old) ==
  /\ S \subseteq Deliveries /\ IsFiniteSet(S)
  /\ \A d \in S : \E e \in Old : d.inst = e.inst /\ d.key = e.key /\ d.rcpt = e.rcpt

LEMMA RewriteKeeps ==
  ASSUME OutboxInv, UNCHANGED <<phone, tokens, events>>, jobs' \subseteq jobs, Rewrites(delivery', delivery),
         device' \in [Installations -> Devices],
         \A i \in Installations : /\ device'[i].user = device[i].user /\ device'[i].token = device[i].token
                                  /\ device'[i].on => device[i].on
  PROVE  OutboxInv'
  <1>1. jobs' \subseteq Jobs /\ IsFiniteSet(jobs')
    BY FS_Subset DEF OutboxInv, OutboxTyped
  <1>2. OutboxTyped'
    BY <1>1 DEF OutboxInv, OutboxTyped, Rewrites
  <1>3. events' >= events
    BY DEF OutboxInv, OutboxTyped
  <1>4. QED
    BY <1>2, <1>3, QueueKeeps DEF Rewrites

\* Fewer rows are such a replacement, and so is a change of some of them.
LEMMA FewerRewrite ==
  ASSUME OutboxTyped, NEW S \in SUBSET delivery
  PROVE  Rewrites(S, delivery)
  BY FS_Subset DEF OutboxTyped, Rewrites

LEMMA ChangedRewrite ==
  ASSUME OutboxTyped, NEW Rewritten, NEW f, f = [d \in delivery |-> f[d]],
         \A d \in delivery : SameRow(f[d], d),
         \A r \in Rewritten : \E d \in delivery : r = f[d]
  PROVE  Rewrites(Rewritten, delivery)
  <1> DEFINE U == {f[d] : d \in delivery}
  <1>1. f \in Surjection(delivery, U)
    BY DEF Surjection
  <1>2. IsFiniteSet(U) /\ Rewritten \subseteq U
    BY <1>1, FS_Surjection DEF OutboxTyped
  <1>3. IsFiniteSet(Rewritten)
    BY <1>2, FS_Subset
  <1>4. QED
    BY <1>3 DEF Rewrites, SameRow

LEMMA NotifyKeeps ==
  ASSUME OutboxInv, PartsAssumption, NEW u \in Users, N!Notify(u)
  PROVE  OutboxInv'
  <1> DEFINE At(i) == [inst |-> i, key |-> events + 1, rcpt |-> u, allowed |-> TRUE, old |-> FALSE,
                       due |-> TRUE, claim |-> 0, live |-> FALSE]
             told == {k \in Installations : device[k].user = u /\ device[k].on}
             f == [i \in told |-> At(i)]
  <1>1. /\ UNCHANGED <<device, jobs, phone, tokens>> /\ events' = events + 1
        /\ delivery' = delivery \union {At(i) : i \in told}
    BY DEF N!Notify
  <1>2. events \in Nat
    BY DEF OutboxInv, OutboxTyped
  <1>3. \A i \in told : At(i) \in Deliveries /\ At(i).inst = i /\ At(i).key = events + 1 /\ At(i).rcpt = u
    BY <1>2 DEF Deliveries
  <1> HIDE DEF At
  <1>4. IsFiniteSet(told)
    BY FS_Subset DEF PartsAssumption
  <1>5. f \in Surjection(told, {At(i) : i \in told})
    BY DEF Surjection
  <1>6. IsFiniteSet({At(i) : i \in told})
    BY <1>4, <1>5, FS_Surjection
  <1>7. IsFiniteSet(delivery')
    BY <1>1, <1>6, FS_Union DEF OutboxInv, OutboxTyped
  <1>8. OutboxTyped'
    BY <1>1, <1>2, <1>3, <1>7 DEF OutboxInv, OutboxTyped
  <1>9. \A d \in delivery' : \/ \E e \in delivery : d.inst = e.inst /\ d.key = e.key /\ d.rcpt = e.rcpt
                             \/ d.key = events' /\ events' > events /\ d.rcpt = u /\ device[d.inst].user = u
    BY <1>1, <1>2, <1>3
  <1>10. QED
    BY <1>1, <1>2, <1>8, <1>9, QueueKeeps DEF OutboxInv

LEMMA RowsKeep ==
  ASSUME OutboxInv, NEW u \in Users, N!Mute(u) \/ N!AccessEnds(u)
  PROVE  OutboxInv'
  <1> USE DEF OutboxInv
  <1>1. UNCHANGED <<device, jobs, phone, tokens, events>>
    BY DEF N!Mute, N!AccessEnds
  <1>2. Rewrites(delivery', delivery)
    <2>1. CASE N!Mute(u)
      BY <2>1, FewerRewrite DEF N!Mute
    <2>2. CASE N!AccessEnds(u)
      <3> DEFINE f == [d \in delivery |-> IF d.rcpt = u THEN [d EXCEPT !.allowed = FALSE] ELSE d]
      <3>1. \A r \in delivery' : \E d \in delivery : r = f[d]
        BY <2>2 DEF N!AccessEnds
      <3>2. \A d \in delivery : SameRow(f[d], d)
        BY DeniedRow DEF OutboxTyped, SameRow
      <3>3. f = [d \in delivery |-> f[d]]
        OBVIOUS
      <3> HIDE DEF f
      <3>4. QED
        BY <3>1, <3>2, <3>3, ChangedRewrite
    <2>3. QED
      BY <2>1, <2>2
  <1>3. QED
    BY <1>1, <1>2, RewriteKeeps DEF OutboxTyped

LEMMA PassesKeeps ==
  ASSUME OutboxInv, NEW d \in delivery, N!Passes(d)
  PROVE  OutboxInv'
  <1> USE DEF OutboxInv
  <1>1. UNCHANGED <<device, jobs, phone, tokens, events>>
    BY DEF N!Passes
  <1>2. PICK e \in {[d EXCEPT !.old = TRUE], [d EXCEPT !.due = TRUE], [d EXCEPT !.live = FALSE]} :
          delivery' = (delivery \ {d}) \union {e}
    BY DEF N!Passes, N!Becomes
  <1>3. SameRow(e, d)
    BY <1>2, OldRow, DueRow, LostRow DEF OutboxTyped
  <1>4. Rewrites(delivery', delivery)
    <2> DEFINE f == [c \in delivery |-> IF c = d THEN e ELSE c]
    <2>1. \A r \in delivery' : \E c \in delivery : r = f[c]
      BY <1>2
    <2>2. \A c \in delivery : SameRow(f[c], c)
      BY <1>3 DEF OutboxTyped, SameRow
    <2>3. f = [c \in delivery |-> f[c]]
      OBVIOUS
    <2> HIDE DEF f
    <2>4. QED
      BY <2>1, <2>2, <2>3, ChangedRewrite
  <1>5. QED
    BY <1>1, <1>4, RewriteKeeps DEF OutboxTyped

LEMMA JobEndsKeeps ==
  ASSUME OutboxInv, NEW j \in jobs, N!Complete(j) \/ N!Defer(j) \/ N!Invalidate(j) \/ N!Fails(j)
  PROVE  OutboxInv'
  <1> USE DEF OutboxInv
  <1>1. UNCHANGED <<phone, tokens, events>> /\ jobs' \subseteq jobs
    BY DEF N!Complete, N!Defer, N!Invalidate, N!Fails, N!Settles, N!Ends
  <1>2. Rewrites(delivery', delivery)
    <2>1. CASE N!Defer(j)
      <3> DEFINE f == [d \in delivery |-> IF d \in N!Held(j) THEN [d EXCEPT !.due = FALSE, !.claim = 0, !.live = FALSE] ELSE d]
      <3>1. N!Held(j) \subseteq delivery
        BY DEF N!Held, N!Mine
      <3>2. \A r \in delivery' : \E d \in delivery : r = f[d]
        BY <2>1, <3>1 DEF N!Defer
      <3>3. \A d \in delivery : SameRow(f[d], d)
        BY DeferredRow DEF OutboxTyped, SameRow
      <3>4. f = [d \in delivery |-> f[d]]
        OBVIOUS
      <3> HIDE DEF f
      <3>5. QED
        BY <3>2, <3>3, <3>4, ChangedRewrite
    <2>2. CASE N!Complete(j) \/ N!Invalidate(j) \/ N!Fails(j)
      <3>1. delivery' \subseteq delivery
        BY <2>2 DEF N!Complete, N!Invalidate, N!Fails
      <3>2. QED
        BY <3>1, FewerRewrite
    <2>3. QED
      BY <2>1, <2>2
  <1>3. device' \in {device, [device EXCEPT ![j.inst].on = FALSE]}
    BY DEF N!Complete, N!Defer, N!Invalidate, N!Fails
  <1>4. j.inst \in Installations /\ device \in [Installations -> Devices]
    BY DEF OutboxTyped, Jobs
  <1>5. \A r \in Devices : LET s == [r EXCEPT !.on = FALSE]
                             IN s \in Devices /\ s.user = r.user /\ s.token = r.token /\ s.on = FALSE
    BY DEF Devices
  <1>6. device' \in [Installations -> Devices]
        /\ \A i \in Installations : /\ device'[i].user = device[i].user /\ device'[i].token = device[i].token
                                    /\ device'[i].on => device[i].on
    <2>1. CASE device' = device
      BY <1>4, <2>1
    <2>2. CASE device' = [device EXCEPT ![j.inst].on = FALSE]
      <3> DEFINE s == [device[j.inst] EXCEPT !.on = FALSE]
      <3>1. s \in Devices /\ s.user = device[j.inst].user /\ s.token = device[j.inst].token /\ s.on = FALSE
        BY <1>4, <1>5
      <3>2. device' = [device EXCEPT ![j.inst] = s]
        BY <2>2
      <3> HIDE DEF s
      <3>3. QED
        BY <1>4, <3>1, <3>2
    <2>3. QED
      BY <1>3, <2>1, <2>2
  <1>7. QED
    BY <1>1, <1>2, <1>6, RewriteKeeps

LEMMA CrashKeeps ==
  ASSUME OutboxInv, NEW w \in Senders, N!Crash(w)
  PROVE  OutboxInv'
  <1>1. UNCHANGED <<device, delivery, phone, tokens, events>> /\ jobs' \subseteq jobs
    BY DEF N!Crash
  <1>2. QED
    BY <1>1, FewerRewrite, RewriteKeeps DEF OutboxInv, OutboxTyped

LEMMA ClaimDeliveriesKeeps ==
  ASSUME OutboxInv, NEW w \in Senders, N!Claim(w)
  PROVE  OutboxInv'
  <1> USE DEF OutboxInv
  <1> DEFINE free == {d \in delivery : d.due /\ ~d.live}
             dropped == {d \in delivery : d.old} \union {d \in free : ~N!Authorized(d)}
             taken == free \ dropped
             Job(d) == [worker |-> w, inst |-> d.inst, key |-> d.key, rcpt |-> d.rcpt, claim |-> N!Fresh,
                        token |-> device[d.inst].token, at |-> "queued", lock |-> 0]
             new == {Job(d) : d \in taken}
             f == [d \in delivery |-> IF d \in taken THEN [d EXCEPT !.claim = N!Fresh, !.live = TRUE] ELSE d]
             g == [d \in taken |-> Job(d)]
  <1>1. /\ UNCHANGED <<device, phone, tokens, events>> /\ jobs' = jobs \union new
        /\ delivery' = (delivery \ (dropped \union taken)) \union {[d EXCEPT !.claim = N!Fresh, !.live = TRUE] : d \in taken}
    BY DEF N!Claim
  <1>2. N!Fresh \in Nat
    BY FreshIsNew DEF OutboxTyped
  <1>3. \A d \in taken : d \in delivery /\ N!Authorized(d)
    OBVIOUS
  <1> HIDE DEF free, dropped, taken
  <1>4. Rewrites(delivery', delivery)
    <2>1. \A r \in delivery' : \E d \in delivery : r = f[d]
      BY <1>1, <1>3
    <2>2. \A d \in delivery : SameRow(f[d], d)
      BY <1>2, ClaimedRow DEF OutboxTyped, SameRow
    <2>3. f = [d \in delivery |-> f[d]]
      OBVIOUS
    <2> HIDE DEF f
    <2>4. QED
      BY <2>1, <2>2, <2>3, ChangedRewrite
  <1>5. \A d \in taken : /\ Job(d) \in Jobs /\ Job(d).inst = d.inst /\ Job(d).key = d.key /\ Job(d).rcpt = d.rcpt
                         /\ Job(d).token = device[d.inst].token /\ Job(d).at = "queued"
    BY <1>2, <1>3 DEF OutboxTyped, Jobs, Deliveries, Devices
  <1> HIDE DEF Job
  <1>6. OutboxTyped'
    <2>1. g \in Surjection(taken, new)
      BY DEF Surjection
    <2>2. IsFiniteSet(taken)
      BY <1>3, FS_Subset DEF OutboxTyped
    <2>3. IsFiniteSet(new)
      BY <2>1, <2>2, FS_Surjection
    <2>4. IsFiniteSet(jobs')
      BY <1>1, <2>3, FS_Union DEF OutboxTyped
    <2>5. jobs' \subseteq Jobs
      BY <1>1, <1>5 DEF OutboxTyped
    <2>6. QED
      BY <1>1, <1>4, <2>4, <2>5 DEF OutboxTyped, Rewrites
  <1>7. \A j \in jobs' : j \in jobs \/ \E d \in delivery :
           /\ j.inst = d.inst /\ j.key = d.key /\ j.rcpt = d.rcpt /\ j.token = device[d.inst].token /\ j.at = "queued"
           /\ device[d.inst].on
    <2> SUFFICES ASSUME NEW j \in jobs', j \notin jobs
                 PROVE  \E d \in delivery :
                          /\ j.inst = d.inst /\ j.key = d.key /\ j.rcpt = d.rcpt /\ j.token = device[d.inst].token
                          /\ j.at = "queued" /\ device[d.inst].on
      OBVIOUS
    <2>1. PICK d \in taken : j = Job(d)
      BY <1>1
    <2>2. d \in delivery /\ device[d.inst].on
      BY <1>3 DEF N!Authorized
    <2>3. QED
      BY <1>5, <2>1, <2>2
  <1>8. \A e \in delivery' : \E d \in delivery : e.inst = d.inst /\ e.key = d.key /\ e.rcpt = d.rcpt
    BY <1>4 DEF Rewrites
  <1>9. \A d \in delivery : d.inst \in Installations /\ device[d.inst].token \in Nat
    BY DEF OutboxTyped, Deliveries, Devices
  <1>10. TokensAreOwn'
    BY <1>1 DEF TokensAreOwn
  <1>11. RecipientsAgree'
    <2>1. ASSUME NEW e \in delivery' PROVE device'[e.inst].user = e.rcpt /\ e.key <= events'
      <3>1. PICK d \in delivery : e.inst = d.inst /\ e.key = d.key /\ e.rcpt = d.rcpt
        BY <1>8
      <3>2. device[d.inst].user = d.rcpt /\ d.key <= events /\ device' = device /\ events' = events
        BY <1>1 DEF RecipientsAgree
      <3>3. QED
        BY <3>1, <3>2
    <2>2. \A j \in jobs' : j.key <= events'
      BY <1>1, <1>7 DEF RecipientsAgree
    <2>3. \A d, e \in delivery' : d.key = e.key => d.rcpt = e.rcpt
      BY <1>8 DEF RecipientsAgree
    <2>4. \A e \in delivery', j \in jobs' : e.key = j.key => e.rcpt = j.rcpt
      BY <1>7, <1>8 DEF RecipientsAgree
    <2>5. QED
      BY <2>1, <2>2, <2>3, <2>4 DEF RecipientsAgree
  <1>12. \A t : Dead(t)' <=> Dead(t)
    BY <1>1 DEF Dead
  <1>13. JobsKnowTokens'
    <2>1. ASSUME NEW j \in jobs'
          PROVE  /\ j.token > 0 /\ (j.at # "queued" => j.token = j.lock \/ Dead(j.token))
                 /\ \A d \in delivery : d.inst = j.inst /\ d.key = j.key => j.token = device[j.inst].token \/ Dead(j.token)
      <3>1. CASE j \in jobs
        BY <3>1 DEF JobsKnowTokens
      <3>2. CASE j \notin jobs
        <4>1. PICK d \in delivery : /\ j.inst = d.inst /\ j.token = device[d.inst].token /\ j.at = "queued"
                                    /\ device[d.inst].on
          BY <1>7, <3>2
        <4>2. device[d.inst].token # 0
          BY <1>9, <4>1 DEF TokensAreOwn
        <4>3. QED
          BY <1>9, <4>1, <4>2
      <3>3. QED
        BY <3>1, <3>2
    <2>2. ASSUME NEW j \in jobs', NEW e \in delivery', e.inst = j.inst, e.key = j.key
          PROVE  j.token = device'[j.inst].token \/ Dead(j.token)'
      <3>1. PICK d \in delivery : e.inst = d.inst /\ e.key = d.key
        BY <1>8
      <3>2. j.token = device[j.inst].token \/ Dead(j.token)
        BY <2>1, <2>2, <3>1
      <3>3. QED
        BY <1>1, <1>12, <3>2
    <2>3. QED
      BY <1>12, <2>1, <2>2 DEF JobsKnowTokens
  <1>14. SendsToItsOwn'
    BY <1>1, <1>7 DEF SendsToItsOwn
  <1>15. QED
    BY <1>6, <1>10, <1>11, <1>13, <1>14

\* A job goes on: to its locks, or to APNs.
LEMMA JobMovesKeeps ==
  ASSUME OutboxInv, NEW j \in jobs, NEW k \in Jobs, UNCHANGED <<device, delivery, phone, tokens, events>>,
         jobs' = (jobs \ {j}) \union {k}, k.inst = j.inst, k.key = j.key, k.rcpt = j.rcpt, k.token = j.token,
         k.at # "queued" => k.token = k.lock \/ Dead(k.token),
         k.at = "sending" => /\ device[k.inst].user = k.rcpt
                             /\ \A i \in Installations : device[i].token = k.token => i = k.inst
  PROVE  OutboxInv'
  <1> USE DEF OutboxInv
  <1>1. IsFiniteSet(jobs') /\ jobs' \subseteq Jobs
    <2>1. IsFiniteSet(jobs \ {j}) /\ IsFiniteSet({k})
      BY FS_Subset, FS_Singleton DEF OutboxTyped
    <2>2. QED
      BY <2>1, FS_Union DEF OutboxTyped
  <1>2. OutboxTyped' /\ TokensAreOwn'
    BY <1>1 DEF OutboxTyped, TokensAreOwn
  <1>3. RecipientsAgree'
    BY DEF RecipientsAgree
  <1>4. \A t : Dead(t)' <=> Dead(t)
    BY DEF Dead
  <1>5. JobsKnowTokens'
    BY <1>4 DEF JobsKnowTokens
  <1>6. SendsToItsOwn'
    BY DEF SendsToItsOwn
  <1>7. QED
    BY <1>2, <1>3, <1>5, <1>6

LEMMA ReadKeeps ==
  ASSUME OutboxInv, NEW j \in jobs, N!Read(j)
  PROVE  OutboxInv'
  <1> USE DEF OutboxInv
  <1>1. UNCHANGED <<device, delivery, phone, tokens, events>>
    BY DEF N!Read
  <1>2. CASE N!Mine(j) = {}
    <2>1. jobs' \subseteq jobs
      BY <1>2 DEF N!Read, N!Ends
    <2>2. QED
      BY <1>1, <2>1, FewerRewrite, RewriteKeeps DEF OutboxTyped
  <1>3. CASE N!Mine(j) # {}
    <2> DEFINE k == [j EXCEPT !.at = "locking", !.lock = device[j.inst].token]
    <2>1. jobs' = (jobs \ {j}) \union {k}
      BY <1>3 DEF N!Read, N!To
    <2>2. j \in Jobs /\ j.inst \in Installations /\ device[j.inst].token \in Nat
      BY DEF OutboxTyped, Jobs, Devices
    <2>3. /\ k \in Jobs /\ k.inst = j.inst /\ k.key = j.key /\ k.rcpt = j.rcpt /\ k.token = j.token
          /\ k.at = "locking" /\ k.lock = device[j.inst].token
      BY <2>2 DEF Jobs
    <2> HIDE DEF k
    <2>4. j.token = device[j.inst].token \/ Dead(j.token)
      BY <1>3 DEF N!Mine, JobsKnowTokens
    <2>5. QED
      BY <1>1, <2>1, <2>3, <2>4, JobMovesKeeps
  <1>4. QED
    BY <1>2, <1>3

LEMMA ValidateKeeps ==
  ASSUME OutboxInv, NEW j \in jobs, N!Validate(j)
  PROVE  OutboxInv'
  <1> USE DEF OutboxInv
  <1>1. UNCHANGED <<device, phone, tokens, events>>
    BY DEF N!Validate
  <1>2. CASE \E d \in N!Mine(j) : d.live /\ ~d.old /\ N!Authorized(d)
    <2> DEFINE k == [j EXCEPT !.at = "sending"]
    <2>1. jobs' = (jobs \ {j}) \union {k} /\ delivery' = delivery
      BY <1>2 DEF N!Validate, N!To
    <2>2. j \in Jobs /\ j.inst \in Installations /\ j.token \in Nat /\ j.at = "locking"
      BY DEF OutboxTyped, Jobs, N!Validate
    <2>3. /\ k \in Jobs /\ k.inst = j.inst /\ k.key = j.key /\ k.rcpt = j.rcpt /\ k.token = j.token
          /\ k.at = "sending" /\ k.lock = j.lock
      BY <2>2 DEF Jobs
    <2> HIDE DEF k
    <2>4. PICK d \in delivery : d.inst = j.inst /\ d.key = j.key
      BY <1>2 DEF N!Mine
    <2>5. device[j.inst].user = j.rcpt
      BY <2>4 DEF RecipientsAgree
    <2>6. \A i \in Installations : device[i].token = j.token => i = j.inst
      BY <2>2, <2>4 DEF JobsKnowTokens, TokensAreOwn, Dead
    <2>7. j.token = j.lock \/ Dead(j.token)
      BY <2>2 DEF JobsKnowTokens
    <2>8. QED
      BY <1>1, <2>1, <2>3, <2>5, <2>6, <2>7, JobMovesKeeps
  <1>3. CASE ~\E d \in N!Mine(j) : d.live /\ ~d.old /\ N!Authorized(d)
    <2>1. jobs' \subseteq jobs /\ delivery' \subseteq delivery
      BY <1>3 DEF N!Validate, N!Ends
    <2>2. QED
      BY <1>1, <2>1, FewerRewrite, RewriteKeeps DEF OutboxTyped
  <1>4. QED
    BY <1>2, <1>3

LEMMA OutboxInductive == OutboxInv /\ PartsAssumption /\ [WorkersNext]_worker_vars => OutboxInv'
  <1> SUFFICES ASSUME OutboxInv, PartsAssumption, [WorkersNext]_worker_vars PROVE OutboxInv'
    OBVIOUS
  <1>1. CASE N!Next
    <2>1. ASSUME NEW i \in Installations,
                 N!NewToken(i) \/ N!Unregister(i) \/ (\E k \in Installations : N!Reinstalls(i, k))
          PROVE  OutboxInv'
      BY <2>1, PhonesKeep, UnregisterKeeps
    <2>2. ASSUME NEW u \in Users, \/ N!MembershipEnds(u) \/ N!Notify(u) \/ N!Mute(u) \/ N!AccessEnds(u)
                                  \/ \E i \in Installations : N!Register(i, u)
          PROVE  OutboxInv'
      BY <2>2, MembershipKeeps, NotifyKeeps, RowsKeep, RegisterKeeps
    <2>3. ASSUME NEW j \in jobs, N!Works(j) \/ N!Fails(j)
          PROVE  OutboxInv'
      BY <2>3, ReadKeeps, ValidateKeeps, JobEndsKeeps DEF N!Works
    <2>4. QED
      BY <1>1, <2>1, <2>2, <2>3, PassesKeeps, ClaimDeliveriesKeeps, CrashKeeps DEF N!Next
  <1>2. CASE UNCHANGED outbox
    BY <1>2 DEF outbox, OutboxInv, OutboxTyped, TokensAreOwn, RecipientsAgree, JobsKnowTokens, SendsToItsOwn, Dead
  <1>3. QED
    BY <1>1, <1>2 DEF WorkersNext, worker_vars

\* While a notification is on its way to APNs, neither its installation nor the token it was
\* addressed to is registered to another member than its recipient, whoever signs in, signs
\* out or reinstalls meanwhile (companion_validate_notification_delivery and its locks).
THEOREM NotificationsReachTheirMember == WorkersSpec => []SentToRecipientOnly
  <1>1. WorkersInit => OutboxInv
    BY OutboxStarts DEF WorkersInit
  <1>2. OutboxInv /\ [WorkersNext]_worker_vars => OutboxInv'
    BY OutboxInductive, PartsAssumption
  <1>3. OutboxInv => SentToRecipientOnly
    BY DEF OutboxInv, SendsToItsOwn, SentToRecipientOnly, N!SentToRecipientOnly
  <1>4. QED
    BY <1>1, <1>2, <1>3, PTL DEF WorkersSpec
-----------------------------------------------------------------------------
(* Access tokens.                                                            *)

LEMMA NullsTyped == T!NoCall \in Issues /\ T!Idle \in Asked
  BY DEF T!NoCall, T!Idle, Issues, Asked

LEMMA TokensStart == PartsAssumption /\ T!Init => TokenInv
  <1> SUFFICES ASSUME PartsAssumption, T!Init PROVE TokenInv
    OBVIOUS
  <1>1. account \in Accounts /\ account.n = 1 /\ account.refresh = 1
    <2>1. account \in [live : {TRUE}, gmail : BOOLEAN, version : {1}, n : {1}, refresh : {1}, usable : {TRUE}]
      BY DEF T!Init
    <2>2. /\ account = [live |-> account.live, gmail |-> account.gmail, version |-> account.version, n |-> account.n,
                        refresh |-> account.refresh, usable |-> account.usable]
          /\ account.version = 1 /\ account.n = 1 /\ account.refresh = 1
      BY <2>1
    <2>3. account.live \in BOOLEAN /\ account.gmail \in BOOLEAN /\ account.usable \in BOOLEAN
      <3>1. account.live = TRUE /\ account.usable = TRUE /\ account.gmail \in BOOLEAN
        BY <2>1, Zenon
      <3>2. QED
        BY <3>1, Zenon
    <2>4. QED
      BY <2>2, <2>3 DEF Accounts
  <1>2. grant \in Grants /\ grant.refresh = 1 /\ grant.issued = 1 /\ grant.ended = "no"
    <2>1. grant \in [rotates : BOOLEAN, refresh : {1}, issued : {1}, ended : {"no"}]
      BY DEF T!Init
    <2>2. QED
      BY <2>1 DEF Grants
  <1>3. /\ call = [c \in Calls |-> T!NoCall] /\ pending = [b \in Gateways |-> "none"] /\ orphaned = FALSE
        /\ cache = [b \in Gateways |-> "none"] /\ request = [b \in Gateways |-> [r \in Requests |-> T!Idle]]
    BY DEF T!Init
  <1>4. T!NoCall.at = "free" /\ T!Idle.at = "idle" /\ T!Idle.first = 0
    BY DEF T!NoCall, T!Idle
  <1>5. TokensTyped
    BY <1>1, <1>2, <1>3, NullsTyped DEF TokensTyped
  <1>6. RowIsHeld /\ RefreshIsKept
    BY <1>1, <1>2, <1>3, <1>4 DEF RowIsHeld, RefreshIsKept, T!InRow, T!GrantOutlivesRefreshes
  <1>7. TokensGrow /\ T!RetryUsesNewerToken
    BY <1>1, <1>2, <1>3, <1>4 DEF TokensGrow, T!RetryUsesNewerToken
  <1>8. ForcedIsNewer
    BY <1>3, <1>4 DEF ForcedIsNewer
  <1>9. QED
    BY <1>5, <1>6, <1>7, <1>8 DEF TokenInv

\* Steps of a gateway that take no answer: no request is given a token, and none waits for
\* a call it did not wait for.
LEMMA GatewayKeeps ==
  ASSUME TokenInv, UNCHANGED <<account, grant, call, orphaned>>, TokensTyped',
         \A b \in Gateways, c \in Calls : pending'[b] = c => pending[b] = c,
         \A b \in Gateways, r \in Requests :
           /\ request'[b][r].first <= request[b][r].first
           /\ request'[b][r].at = "sent" => request'[b][r] = request[b][r]
  PROVE  TokenInv'
  <1> USE DEF TokenInv
  <1>1. RowIsHeld' /\ RefreshIsKept'
    BY DEF RowIsHeld, RefreshIsKept, T!InRow, T!GrantOutlivesRefreshes
  <1>2. \A b \in Gateways, r \in Requests : request[b][r].first \in Nat /\ request'[b][r].first \in Nat
    BY DEF TokensTyped, Asked
  <1>3. account.n \in Nat /\ \A c \in Calls : call[c].n \in Nat
    BY DEF TokensTyped, Accounts, Issues
  <1>4. TokensGrow'
    BY <1>2, <1>3 DEF TokensGrow
  <1>5. ForcedIsNewer'
    BY <1>2, <1>3 DEF ForcedIsNewer
  <1>6. T!RetryUsesNewerToken'
    BY DEF T!RetryUsesNewerToken
  <1>7. QED
    BY <1>1, <1>4, <1>5, <1>6

\* One request moves.
LEMMA RequestMoves ==
  ASSUME TokensTyped, NEW b \in Gateways, NEW r \in Requests, NEW q \in Asked, T!Becomes(b, r, q)
  PROVE  /\ request' \in [Gateways -> [Requests -> Asked]]
         /\ \A x \in Gateways, y \in Requests : request'[x][y] = IF x = b /\ y = r THEN q ELSE request[x][y]
  BY DEF TokensTyped, T!Becomes

LEMMA RequestKeeps ==
  ASSUME TokenInv, NEW b \in Gateways, NEW r \in Requests, NEW q \in Asked, T!Becomes(b, r, q),
         q.first <= request[b][r].first, q.at # "sent", UNCHANGED <<account, grant, call, pending, cache, orphaned>>
  PROVE  TokenInv'
  <1>1. TokensTyped'
    BY RequestMoves DEF TokenInv, TokensTyped
  <1>2. \A x \in Gateways, y \in Requests : request[x][y].first \in Nat
    BY DEF TokenInv, TokensTyped, Asked
  <1>3. QED
    BY <1>1, <1>2, RequestMoves, GatewayKeeps DEF TokenInv

LEMMA ClientsKeep ==
  ASSUME TokenInv, NEW b \in Gateways, NEW r \in Requests,
         T!Opens(b) \/ T!Joins(b, r) \/ T!Served(b, r) \/ T!Unauthorized(b, r)
  PROVE  TokenInv'
  <1>1. \A x \in Requests : request[b][x] \in Asked /\ request[b][x].first \in Nat
    BY DEF TokenInv, TokensTyped, Asked
  <1>2. UNCHANGED <<account, grant, call, pending, cache, orphaned>>
    BY DEF T!Opens, T!Joins, T!Served, T!Unauthorized
  <1>3. CASE T!Opens(b)
    <2> DEFINE x == CHOOSE y \in Requests : request[b][y].at = "idle"
               q == [T!Idle EXCEPT !.at = "ask"]
    <2>1. x \in Requests /\ T!Becomes(b, x, q)
      BY <1>3 DEF T!Opens
    <2>2. q \in Asked /\ q.first = 0 /\ q.at = "ask"
      BY NullsTyped DEF T!Idle, Asked
    <2> HIDE DEF x, q
    <2>3. QED
      BY <1>1, <1>2, <2>1, <2>2, RequestKeeps
  <1>4. CASE T!Joins(b, r)
    <2> DEFINE q == [request[b][r] EXCEPT !.at = "wait", !.call = pending[b]]
    <2>1. pending[b] \in Calls \union {"none"}
      BY DEF TokenInv, TokensTyped
    <2>2. q \in Asked /\ q.first = request[b][r].first /\ q.at = "wait"
      BY <1>1, <2>1 DEF Asked
    <2>3. T!Becomes(b, r, q)
      BY <1>4 DEF T!Joins
    <2> HIDE DEF q
    <2>4. QED
      BY <1>1, <1>2, <2>2, <2>3, RequestKeeps
  <1>5. CASE T!Served(b, r)
    <2>1. T!Becomes(b, r, T!Idle) /\ T!Idle.first = 0 /\ T!Idle.at = "idle"
      BY <1>5 DEF T!Served, T!Idle
    <2>2. QED
      BY <1>1, <1>2, <2>1, NullsTyped, RequestKeeps
  <1>6. CASE T!Unauthorized(b, r)
    <2> DEFINE q == [request[b][r] EXCEPT !.at = "ask", !.force = TRUE]
    <2>1. q \in Asked /\ q.first = request[b][r].first /\ q.at = "ask"
      BY <1>1 DEF Asked
    <2>2. T!Becomes(b, r, q)
      BY <1>6 DEF T!Unauthorized
    <2> HIDE DEF q
    <2>3. QED
      BY <1>1, <1>2, <2>1, <2>2, RequestKeeps
  <1>7. QED
    BY <1>3, <1>4, <1>5, <1>6

\* What the waiting requests of a gateway become when its call is given up.
LEMMA RejectsTyped ==
  ASSUME TokensTyped, NEW b \in Gateways, NEW c, T!Rejects(b, c)
  PROVE  /\ request' \in [Gateways -> [Requests -> Asked]]
         /\ \A x \in Gateways, y \in Requests : request'[x][y] \in {T!Idle, request[x][y]}
  <1>1. \A y \in Requests : request[b][y] \in Asked
    BY DEF TokensTyped
  <1>2. request' = [request EXCEPT ![b] = [r \in Requests |-> IF T!Waits(request[b][r], c) THEN T!Idle ELSE request[b][r]]]
    BY DEF T!Rejects, TokensTyped
  <1>3. QED
    BY <1>1, <1>2, NullsTyped DEF TokensTyped

LEMMA GivesUpKeeps ==
  ASSUME TokenInv, PartsAssumption, NEW b \in Gateways, T!TimesOut(b) \/ T!CacheAges(b)
  PROVE  TokenInv'
  <1> USE DEF TokenInv
  <1>1. UNCHANGED <<account, grant, call, orphaned>>
    BY DEF T!TimesOut, T!CacheAges
  <1>2. \A x \in Gateways, y \in Requests : request[x][y] \in Asked /\ request[x][y].first \in Nat
    BY DEF TokensTyped, Asked
  <1>3. CASE T!TimesOut(b)
    <2>1. pending' = [pending EXCEPT ![b] = "none"] /\ cache' = cache /\ T!Rejects(b, pending[b])
      BY <1>3 DEF T!TimesOut
    <2>2. TokensTyped'
      BY <1>1, <2>1, RejectsTyped DEF TokensTyped
    <2>3. \A x \in Gateways, c \in Calls : pending'[x] = c => pending[x] = c
      BY <2>1 DEF TokensTyped, PartsAssumption
    <2>4. T!Idle.first = 0 /\ T!Idle.at = "idle"
      BY DEF T!Idle
    <2>5. QED
      BY <1>1, <1>2, <2>1, <2>2, <2>3, <2>4, RejectsTyped, GatewayKeeps
  <1>4. CASE T!CacheAges(b)
    <2>1. cache' = [cache EXCEPT ![b] = "stale"] /\ UNCHANGED <<pending, request>>
      BY <1>4 DEF T!CacheAges
    <2>2. TokensTyped'
      BY <1>1, <2>1 DEF TokensTyped
    <2>3. QED
      BY <1>1, <1>2, <2>1, <2>2, GatewayKeeps
  <1>5. QED
    BY <1>3, <1>4

LEMMA MakesKeeps ==
  ASSUME TokenInv, PartsAssumption, NEW b \in Gateways, NEW r \in Requests, T!Makes(b, r)
  PROVE  TokenInv'
  <1> USE DEF TokenInv
  <1> DEFINE c == T!FreeSlot
             forced == request[b][r].force \/ cache[b] = "stale"
             k == [T!NoCall EXCEPT !.at = "called", !.box = b, !.force = forced]
             q == [request[b][r] EXCEPT !.at = "wait", !.call = c]
  <1>1. c \in Calls /\ call[c].at = "free"
    BY DEF T!Makes, T!FreeSlot
  <1>2. /\ UNCHANGED <<account, grant, cache, orphaned>> /\ pending' = [pending EXCEPT ![b] = c]
        /\ call' = [call EXCEPT ![c] = k] /\ T!Becomes(b, r, q)
    BY DEF T!Makes
  <1> HIDE DEF c
  <1>3. request[b][r] \in Asked
    BY DEF TokensTyped
  <1>4. forced \in BOOLEAN
    BY Zenon
  <1>5. k \in Issues /\ k.at = "called"
    <2> HIDE DEF forced
    <2>1. QED
      BY <1>4 DEF T!NoCall, Issues
  <1>6. q \in Asked /\ q.first = request[b][r].first /\ q.at = "wait"
    BY <1>1, <1>3 DEF Asked
  <1> HIDE DEF k, q, forced
  <1>7. \A d \in Calls : call'[d] = IF d = c THEN k ELSE call[d]
    BY <1>2 DEF TokensTyped
  <1>8. \A x \in Gateways : pending'[x] = IF x = b THEN c ELSE pending[x]
    BY <1>2 DEF TokensTyped
  <1>9. TokensTyped'
    BY <1>1, <1>2, <1>5, <1>6, RequestMoves DEF TokensTyped
  <1>10. \A x \in Gateways, y \in Requests : request'[x][y] = IF x = b /\ y = r THEN q ELSE request[x][y]
    BY <1>2, <1>6, RequestMoves
  <1>11. RowIsHeld' /\ RefreshIsKept'
    BY <1>1, <1>2, <1>5, <1>7 DEF RowIsHeld, RefreshIsKept, T!InRow, T!GrantOutlivesRefreshes
  <1>12. TokensGrow' /\ T!RetryUsesNewerToken'
    BY <1>2, <1>5, <1>6, <1>7, <1>10 DEF TokensGrow, T!RetryUsesNewerToken
  <1>13. ForcedIsNewer'
    BY <1>2, <1>5, <1>6, <1>7, <1>8, <1>10 DEF ForcedIsNewer
  <1>14. QED
    BY <1>9, <1>11, <1>12, <1>13

LEMMA CallMoved ==
  ASSUME TokensTyped, NEW c \in Calls, NEW k \in Issues, call' = [call EXCEPT ![c] = k]
  PROVE  call' \in [Calls -> Issues] /\ \A d \in Calls : call'[d] = IF d = c THEN k ELSE call[d]
  BY DEF TokensTyped

\* A call fails.
FailedCall(c) == [T!NoCall EXCEPT !.at = "failed", !.box = call[c].box]
LEMMA FailedTyped ==
  ASSUME TokensTyped, NEW c \in Calls
  PROVE  FailedCall(c) \in Issues /\ FailedCall(c).at = "failed"
  <1>1. call[c].box \in Gateways \union {"none"}
    BY DEF TokensTyped, Issues
  <1>2. QED
    BY <1>1 DEF FailedCall, T!NoCall, Issues

\* A call is given a token.
GivenCall(c, n) == [T!NoCall EXCEPT !.at = "answered", !.box = call[c].box, !.force = call[c].force, !.n = n]
LEMMA GivenTyped ==
  ASSUME TokensTyped, NEW c \in Calls, NEW n \in Nat
  PROVE  /\ GivenCall(c, n) \in Issues /\ GivenCall(c, n).at = "answered" /\ GivenCall(c, n).n = n
         /\ GivenCall(c, n).force = call[c].force
  <1>1. call[c].box \in Gateways \union {"none"} /\ call[c].force \in BOOLEAN
    BY DEF TokensTyped, Issues
  <1>2. QED
    BY <1>1 DEF GivenCall, T!NoCall, Issues

LEMMA ObserveKeeps ==
  ASSUME TokenInv, NEW c \in Calls, T!Observe(c)
  PROVE  TokenInv'
  <1> USE DEF TokenInv
  <1> DEFINE seen == IF call[c].force THEN account.version ELSE 0
             o == [call[c] EXCEPT !.at = "observed", !.seen = seen]
  <1>1. call[c] \in Issues /\ account \in Accounts /\ seen \in Nat
    BY DEF TokensTyped, Accounts
  <1>2. o \in Issues /\ o.at = "observed" /\ o.seen = seen /\ o.force = call[c].force
    <2> HIDE DEF seen
    <2>1. QED
      BY <1>1 DEF Issues
  <1>3. PICK k \in {FailedCall(c), o} : call' = [call EXCEPT ![c] = k]
    BY DEF T!Observe, T!Fail, T!To, FailedCall
  <1> HIDE DEF o
  <1>4. /\ k \in Issues
        /\ \/ k.at = "failed"
           \/ (k.at = "observed") /\ (k.force => k.seen = account.version)
    <2>1. CASE k = FailedCall(c)
      BY <2>1, FailedTyped
    <2>2. CASE k = o
      <3>1. call[c].force \in BOOLEAN
        BY <1>1 DEF Issues
      <3>2. call[c].force => seen = account.version
        OBVIOUS
      <3> HIDE DEF seen
      <3>3. QED
        BY <1>2, <2>2, <3>1, <3>2
    <2>3. QED
      BY <1>3, <2>1, <2>2
  <1>5. UNCHANGED <<account, grant, pending, cache, request, orphaned>> /\ call[c].at = "called"
    BY DEF T!Observe, T!gateway
  <1>6. call' \in [Calls -> Issues] /\ \A d \in Calls : call'[d] = IF d = c THEN k ELSE call[d]
    BY <1>3, <1>4, CallMoved
  <1>7. TokensTyped'
    BY <1>5, <1>6 DEF TokensTyped
  <1>8. RowIsHeld' /\ RefreshIsKept'
    BY <1>4, <1>5, <1>6 DEF RowIsHeld, RefreshIsKept, T!InRow, T!GrantOutlivesRefreshes
  <1>9. TokensGrow' /\ T!RetryUsesNewerToken'
    BY <1>4, <1>5, <1>6 DEF TokensGrow, T!RetryUsesNewerToken
  <1>10. ForcedIsNewer'
    BY <1>1, <1>4, <1>5, <1>6 DEF ForcedIsNewer, Accounts
  <1>11. QED
    BY <1>7, <1>8, <1>9, <1>10

LEMMA ReadRowKeeps ==
  ASSUME TokenInv, NEW c \in Calls, T!Read(c)
  PROVE  TokenInv'
  <1> USE DEF TokenInv
  <1> DEFINE o == [call[c] EXCEPT !.at = "refresh", !.version = account.version, !.refresh = account.refresh]
  <1>1. call[c] \in Issues /\ account.n \in Nat /\ account.version \in Nat /\ account.refresh \in Nat
    BY DEF TokensTyped, Accounts
  <1>2. o \in Issues /\ o.at = "refresh" /\ o.version = account.version /\ o.refresh = account.refresh
    BY <1>1 DEF Issues
  <1>3. \/ call' = [call EXCEPT ![c] = FailedCall(c)]
        \/ /\ call[c].force => call[c].seen > 0 /\ account.version > call[c].seen
           /\ call' = [call EXCEPT ![c] = GivenCall(c, account.n)]
        \/ call' = [call EXCEPT ![c] = o]
    BY DEF T!Read, T!Fail, T!Gives, T!To, FailedCall, GivenCall
  <1> HIDE DEF o
  <1>4. PICK k \in Issues :
          /\ call' = [call EXCEPT ![c] = k]
          /\ \/ k.at = "failed"
             \/ /\ k.at = "answered" /\ k.n = account.n /\ k.force = call[c].force
                /\ call[c].force => call[c].seen > 0 /\ account.version > call[c].seen
             \/ k.at = "refresh" /\ k.version = account.version /\ k.refresh = account.refresh
    BY <1>1, <1>2, <1>3, FailedTyped, GivenTyped
  <1>5. /\ UNCHANGED <<account, grant, pending, cache, request, orphaned>> /\ call[c].at = "observed"
        /\ \A d \in Calls : ~T!InRow(d)
    BY DEF T!Read, T!Free, T!gateway
  <1>6. call' \in [Calls -> Issues] /\ \A d \in Calls : call'[d] = IF d = c THEN k ELSE call[d]
    BY <1>4, CallMoved
  <1>7. TokensTyped'
    BY <1>5, <1>6 DEF TokensTyped
  <1>8. RowIsHeld' /\ RefreshIsKept'
    BY <1>4, <1>5, <1>6 DEF RowIsHeld, RefreshIsKept, T!InRow, T!GrantOutlivesRefreshes
  <1>9. TokensGrow' /\ T!RetryUsesNewerToken'
    BY <1>1, <1>4, <1>5, <1>6 DEF TokensGrow, T!RetryUsesNewerToken
  <1>10. ForcedIsNewer'
    <2>1. ASSUME NEW b \in Gateways, NEW r \in Requests, pending[b] = c, call[c].force, k.at = "answered"
          PROVE  request[b][r].first < k.n
      BY <1>4, <1>5, <2>1 DEF ForcedIsNewer
    <2>2. QED
      BY <1>4, <1>5, <1>6, <2>1 DEF ForcedIsNewer
  <1>11. QED
    BY <1>7, <1>8, <1>9, <1>10

\* The transaction that has the row fails; nobody has it then.
LEMMA RowFailsKeeps ==
  ASSUME TokenInv, NEW c \in Calls, T!InRow(c), call' = [call EXCEPT ![c] = FailedCall(c)],
         UNCHANGED <<pending, cache, request>>, account' \in Accounts, grant' \in Grants, orphaned' \in BOOLEAN,
         account'.version = account.version, account'.n = account.n, account'.refresh = account.refresh,
         grant'.refresh = grant.refresh, grant'.issued = grant.issued,
         orphaned \/ call[c].at = "refreshed" => orphaned', T!GrantOutlivesRefreshes'
  PROVE  TokenInv'
  <1> USE DEF TokenInv
  <1>1. call' \in [Calls -> Issues] /\ \A d \in Calls : call'[d] = IF d = c THEN FailedCall(c) ELSE call[d]
    BY FailedTyped, CallMoved
  <1>2. FailedCall(c).at = "failed"
    BY FailedTyped
  <1>3. TokensTyped'
    BY <1>1 DEF TokensTyped
  <1>4. \A d \in Calls : ~T!InRow(d)'
    BY <1>1, <1>2 DEF RowIsHeld, T!InRow
  <1>5. RowIsHeld'
    BY <1>4 DEF RowIsHeld, T!InRow
  <1>6. RefreshIsKept'
    BY <1>4 DEF RowIsHeld, RefreshIsKept, T!InRow
  <1>7. TokensGrow' /\ T!RetryUsesNewerToken'
    BY <1>1, <1>2 DEF TokensGrow, T!RetryUsesNewerToken
  <1>8. ForcedIsNewer'
    BY <1>1, <1>2 DEF ForcedIsNewer
  <1>9. QED
    BY <1>3, <1>5, <1>6, <1>7, <1>8

LEMMA RevokedKeeps ==
  ASSUME TokenInv, NEW c \in Calls, T!Revoked(c) \/ T!Unavailable(c) \/ T!Rollback(c)
  PROVE  TokenInv'
  <1>1. T!InRow(c) /\ call' = [call EXCEPT ![c] = FailedCall(c)] /\ UNCHANGED <<pending, cache, request>>
    BY DEF T!Revoked, T!Unavailable, T!Rollback, T!InRow, T!Fail, T!To, FailedCall, T!gateway
  <1>2. account \in Accounts /\ grant \in Grants /\ orphaned \in BOOLEAN
    BY DEF TokenInv, TokensTyped
  <1>3. CASE T!Unavailable(c)
    <2>1. UNCHANGED <<account, grant, orphaned>> /\ call[c].at = "refresh"
      BY <1>3 DEF T!Unavailable
    <2>2. T!GrantOutlivesRefreshes'
      BY <2>1 DEF TokenInv, RefreshIsKept, T!GrantOutlivesRefreshes
    <2>3. QED
      BY <1>1, <1>2, <2>1, <2>2, RowFailsKeeps
  <1>4. CASE T!Rollback(c)
    <2>1. UNCHANGED <<account, grant>> /\ orphaned' = TRUE
      BY <1>4 DEF T!Rollback
    <2>2. T!GrantOutlivesRefreshes'
      BY <2>1 DEF T!GrantOutlivesRefreshes
    <2>3. QED
      BY <1>1, <1>2, <2>1, <2>2, RowFailsKeeps
  <1>5. CASE T!Revoked(c)
    <2> DEFINE live == account.live /\ ~(account.gmail /\ account.version = call[c].version)
               ended == IF grant.ended = "no" THEN "reuse" ELSE grant.ended
    <2>1. /\ account' = [account EXCEPT !.live = live] /\ grant' = [grant EXCEPT !.ended = ended] /\ orphaned' = orphaned
          /\ call[c].at = "refresh" /\ (grant.ended # "no" \/ call[c].refresh # grant.refresh)
      BY <1>5 DEF T!Revoked
    <2>2. live \in BOOLEAN
      BY Zenon
    <2>3. ended \in {"no", "reuse", "user"}
      BY <1>2 DEF Grants
    <2>4. T!GrantOutlivesRefreshes'
      <3>1. grant'.ended = ended
        BY <1>2, <2>1 DEF Grants
      <3>2. grant.ended = "no" => orphaned
        <4>1. \A d \in Calls : call[d].at = "refreshed" => d = c
          BY <1>1 DEF TokenInv, RowIsHeld, T!InRow
        <4>2. QED
          BY <2>1, <4>1 DEF TokenInv, RowIsHeld, RefreshIsKept
      <3>3. QED
        BY <2>1, <3>1, <3>2 DEF TokenInv, RefreshIsKept, T!GrantOutlivesRefreshes
    <2> HIDE DEF live, ended
    <2>5. /\ account' \in Accounts /\ account'.version = account.version /\ account'.n = account.n
          /\ account'.refresh = account.refresh
      BY <1>2, <2>1, <2>2 DEF Accounts
    <2>6. grant' \in Grants /\ grant'.refresh = grant.refresh /\ grant'.issued = grant.issued
      BY <1>2, <2>1, <2>3 DEF Grants
    <2>7. QED
      BY <1>1, <1>2, <2>1, <2>4, <2>5, <2>6, RowFailsKeeps
  <1>6. QED
    BY <1>3, <1>4, <1>5

\* What a refresh makes of the call, the grant and the row.
RefreshedCall(k, n, t) == [k EXCEPT !.at = "refreshed", !.n = n, !.refresh = t]
RefreshedGrant(g, n, t) == [g EXCEPT !.refresh = t, !.issued = n]
WrittenRow(a, v, n, t, usable) == [a EXCEPT !.version = v, !.n = n, !.refresh = t, !.usable = usable]

LEMMA RefreshKeeps ==
  ASSUME TokenInv, NEW c \in Calls, T!Refresh(c)
  PROVE  TokenInv'
  <1> USE DEF TokenInv
  <1> DEFINE token == IF grant.rotates THEN grant.issued + 1 ELSE grant.refresh
             k == RefreshedCall(call[c], grant.issued + 1, token)
  <1>1. grant \in Grants /\ call[c] \in Issues /\ token \in Nat /\ grant.issued \in Nat /\ account.n \in Nat
    BY DEF TokensTyped, Grants, Accounts
  <1>2. /\ UNCHANGED <<account, pending, cache, request, orphaned>> /\ call[c].at = "refresh"
        /\ grant' = RefreshedGrant(grant, grant.issued + 1, token) /\ call' = [call EXCEPT ![c] = k]
    BY DEF T!Refresh, T!To, T!gateway, RefreshedCall, RefreshedGrant
  <1> HIDE DEF token
  <1>3. /\ k \in Issues /\ k.at = "refreshed" /\ k.n = grant.issued + 1 /\ k.refresh = token
        /\ k.version = call[c].version
    <2> DEFINE n == grant.issued + 1
    <2>1. n \in Nat
      BY <1>1
    <2> HIDE DEF n
    <2>2. RefreshedCall(call[c], n, token) \in Issues /\ RefreshedCall(call[c], n, token).at = "refreshed"
          /\ RefreshedCall(call[c], n, token).n = n /\ RefreshedCall(call[c], n, token).refresh = token
          /\ RefreshedCall(call[c], n, token).version = call[c].version
      BY <1>1, <2>1 DEF RefreshedCall, Issues
    <2>3. QED
      BY <2>2, Zenon DEF n
  <1> HIDE DEF k
  <1>4. /\ grant' \in Grants /\ grant'.refresh = token /\ grant'.issued = grant.issued + 1
        /\ grant'.ended = grant.ended
    <2> DEFINE n == grant.issued + 1
    <2>1. n \in Nat /\ grant' = RefreshedGrant(grant, n, token)
      BY <1>1, <1>2
    <2> HIDE DEF n
    <2>2. grant' \in Grants /\ grant'.refresh = token /\ grant'.issued = n /\ grant'.ended = grant.ended
      BY <1>1, <2>1 DEF RefreshedGrant, Grants
    <2>3. QED
      BY <2>2 DEF n
  <1>5. call' \in [Calls -> Issues] /\ \A d \in Calls : call'[d] = IF d = c THEN k ELSE call[d]
    BY <1>2, <1>3, CallMoved
  <1>6. TokensTyped'
    BY <1>2, <1>4, <1>5 DEF TokensTyped
  <1>7. T!InRow(c) /\ \A d \in Calls : T!InRow(d) => d = c
    BY <1>2 DEF RowIsHeld, T!InRow
  <1>8. RowIsHeld'
    <2>1. account.n < grant.issued + 1
      BY <1>1 DEF TokensGrow
    <2>2. QED
      BY <1>1, <1>2, <1>3, <1>4, <1>5, <1>7, <2>1 DEF RowIsHeld, T!InRow
  <1>9. RefreshIsKept'
    BY <1>2, <1>3, <1>4, <1>5 DEF RefreshIsKept, T!GrantOutlivesRefreshes
  <1>10. TokensGrow' /\ T!RetryUsesNewerToken'
    BY <1>1, <1>2, <1>3, <1>4, <1>5 DEF TokensGrow, T!RetryUsesNewerToken
  <1>11. ForcedIsNewer'
    BY <1>2, <1>3, <1>5 DEF ForcedIsNewer
  <1>12. QED
    BY <1>6, <1>8, <1>9, <1>10, <1>11

LEMMA CommitKeeps ==
  ASSUME TokenInv, NEW c \in Calls, T!Commit(c)
  PROVE  TokenInv'
  <1> USE DEF TokenInv
  <1>1. account \in Accounts /\ call[c] \in Issues /\ call[c].n \in Nat /\ call[c].refresh \in Nat
    BY DEF TokensTyped, Issues
  <1>2. call[c].at = "refreshed" /\ UNCHANGED <<grant, pending, cache, request, orphaned>>
    BY DEF T!Commit, T!gateway
  <1>3. T!InRow(c) /\ account.version = call[c].version /\ \A d \in Calls : T!InRow(d) => d = c
    BY <1>2 DEF RowIsHeld, T!InRow
  <1>4. /\ account' = WrittenRow(account, account.version + 1, call[c].n, call[c].refresh, TRUE)
        /\ call' = [call EXCEPT ![c] = GivenCall(c, call[c].n)]
    BY <1>3 DEF T!Commit, T!Gives, T!To, GivenCall, WrittenRow
  <1>5. /\ account' \in Accounts /\ account'.version = account.version + 1 /\ account'.n = call[c].n
        /\ account'.refresh = call[c].refresh
    <2> DEFINE v == account.version + 1
    <2>1. v \in Nat \ {0} /\ account' = WrittenRow(account, v, call[c].n, call[c].refresh, TRUE)
      BY <1>1, <1>4 DEF Accounts
    <2> HIDE DEF v
    <2>2. account' \in Accounts /\ account'.version = v /\ account'.n = call[c].n /\ account'.refresh = call[c].refresh
      BY <1>1, <2>1 DEF WrittenRow, Accounts
    <2>3. QED
      BY <2>2 DEF v
  <1> DEFINE k == GivenCall(c, call[c].n)
  <1>6. k \in Issues /\ k.at = "answered" /\ k.n = call[c].n /\ k.force = call[c].force
    BY <1>1, GivenTyped
  <1> HIDE DEF k
  <1>7. call' \in [Calls -> Issues] /\ \A d \in Calls : call'[d] = IF d = c THEN k ELSE call[d]
    BY <1>4, <1>6, CallMoved DEF k
  <1>8. account.n < call[c].n /\ call[c].n <= grant.issued /\ call[c].refresh = grant.refresh
    BY <1>2 DEF RowIsHeld
  <1>9. TokensTyped'
    BY <1>2, <1>5, <1>7 DEF TokensTyped
  <1>10. \A d \in Calls : ~T!InRow(d)'
    BY <1>3, <1>6, <1>7 DEF T!InRow
  <1>11. RowIsHeld'
    BY <1>10 DEF RowIsHeld, T!InRow
  <1>12. RefreshIsKept'
    BY <1>2, <1>5, <1>8 DEF RefreshIsKept, T!GrantOutlivesRefreshes
  <1>13. /\ account.n \in Nat /\ account.version \in Nat /\ grant.issued \in Nat
         /\ \A d \in Calls : call[d].n \in Nat /\ call[d].seen \in Nat
         /\ \A b \in Gateways, r \in Requests : request[b][r].first \in Nat
    BY DEF TokensTyped, Accounts, Grants, Issues, Asked
  <1>14. TokensGrow' /\ T!RetryUsesNewerToken'
    BY <1>2, <1>5, <1>6, <1>7, <1>8, <1>13 DEF TokensGrow, T!RetryUsesNewerToken
  <1>15. ForcedIsNewer'
    <2>1. \A b \in Gateways, r \in Requests : request[b][r].first < call[c].n
      BY <1>8, <1>13 DEF TokensGrow
    <2>2. QED
      BY <1>2, <1>5, <1>6, <1>7, <1>13, <2>1 DEF ForcedIsNewer
  <1>16. QED
    BY <1>9, <1>11, <1>12, <1>14, <1>15

\* The row or the grant changes while no refresh is under way, or only in what the calls do not read.
LEMMA OutsideKeeps ==
  ASSUME TokenInv, T!Expires \/ T!Disconnects \/ T!UserRevokes
  PROVE  TokenInv'
  <1> USE DEF TokenInv
  <1>1. account \in Accounts /\ grant \in Grants
    BY DEF TokensTyped
  <1>2. UNCHANGED <<call, pending, cache, request, orphaned>>
    BY DEF T!Expires, T!Disconnects, T!UserRevokes, T!gateway
  <1>3. /\ account' \in {account, [account EXCEPT !.usable = FALSE], [account EXCEPT !.live = FALSE]}
        /\ grant' \in {grant, [grant EXCEPT !.ended = "user"]}
    BY DEF T!Expires, T!Disconnects, T!UserRevokes
  <1>4. /\ account' \in Accounts /\ account'.version = account.version /\ account'.n = account.n
        /\ account'.refresh = account.refresh
    BY <1>1, <1>3 DEF Accounts
  <1>5. /\ grant' \in Grants /\ grant'.refresh = grant.refresh /\ grant'.issued = grant.issued
        /\ grant'.ended \in {grant.ended, "user"}
    BY <1>1, <1>3 DEF Grants
  <1>6. TokensTyped'
    BY <1>2, <1>4, <1>5 DEF TokensTyped
  <1>7. RowIsHeld'
    BY <1>2, <1>4, <1>5 DEF RowIsHeld, T!InRow
  <1>8. RefreshIsKept'
    BY <1>2, <1>4, <1>5 DEF RefreshIsKept, T!GrantOutlivesRefreshes
  <1>9. TokensGrow' /\ ForcedIsNewer' /\ T!RetryUsesNewerToken'
    BY <1>2, <1>4, <1>5 DEF TokensGrow, ForcedIsNewer, T!RetryUsesNewerToken
  <1>10. QED
    BY <1>6, <1>7, <1>8, <1>9

\* What the waiting requests of a gateway become when its call is answered.
LEMMA ResolvesTyped ==
  ASSUME TokenInv, NEW b \in Gateways, NEW c \in Calls, call[c].at = "answered", pending[b] = c, T!Resolves(b, c)
  PROVE  /\ request' \in [Gateways -> [Requests -> Asked]]
         /\ \A x \in Gateways, y \in Requests :
              \/ request'[x][y].first = request[x][y].first
              \/ x = b /\ request'[x][y].first = call[c].n
         /\ \A x \in Gateways, y \in Requests :
              request'[x][y].at = "sent" /\ request'[x][y].force => request'[x][y].n > request'[x][y].first
  <1> USE DEF TokenInv
  <1> DEFINE Sent(q) == [q EXCEPT !.at = "sent", !.n = call[c].n, !.first = IF q.force THEN @ ELSE call[c].n]
             Again(q) == [q EXCEPT !.at = "ask"]
             Next1(q) == IF ~T!Waits(q, c) THEN q ELSE IF T!Takes(q, c) THEN Sent(q) ELSE Again(q)
  <1>1. request' = [request EXCEPT ![b] = [y \in Requests |-> Next1(request[b][y])]]
    BY DEF T!Resolves, TokensTyped
  <1>2. call[c].n \in Nat /\ call[c].force \in BOOLEAN
    BY DEF TokensTyped, Issues
  <1>3. \A q \in Asked : /\ Sent(q) \in Asked /\ Sent(q).n = call[c].n /\ Sent(q).force = q.force
                         /\ Sent(q).first = IF q.force THEN q.first ELSE call[c].n
    BY <1>2 DEF Asked
  <1>4. \A q \in Asked : Again(q) \in Asked /\ Again(q).first = q.first /\ Again(q).at = "ask"
    BY DEF Asked
  <1> HIDE DEF Sent, Again
  <1>5. \A y \in Requests : request[b][y] \in Asked
    BY DEF TokensTyped
  <1>6. \A y \in Requests :
          LET q == request[b][y] p == Next1(request[b][y])
          IN /\ p \in Asked /\ p.first \in {q.first, call[c].n}
             /\ p.at = "sent" /\ p.force => p.n > p.first
    <2> SUFFICES ASSUME NEW y \in Requests
                 PROVE  LET q == request[b][y] p == Next1(request[b][y])
                        IN /\ p \in Asked /\ p.first \in {q.first, call[c].n}
                           /\ p.at = "sent" /\ p.force => p.n > p.first
      OBVIOUS
    <2>1. CASE ~T!Waits(request[b][y], c)
      BY <1>5, <2>1 DEF T!RetryUsesNewerToken
    <2>2. CASE T!Waits(request[b][y], c) /\ T!Takes(request[b][y], c)
      <3>1. request[b][y].force => request[b][y].first < call[c].n
        BY <2>2 DEF T!Takes, ForcedIsNewer
      <3>2. request[b][y].first \in Nat
        BY <1>5 DEF Asked
      <3>3. QED
        BY <1>2, <1>3, <1>5, <2>2, <3>1, <3>2
    <2>3. CASE T!Waits(request[b][y], c) /\ ~T!Takes(request[b][y], c)
      BY <1>4, <1>5, <2>3
    <2>4. QED
      BY <2>1, <2>2, <2>3
  <1> HIDE DEF Next1
  <1>7. request' \in [Gateways -> [Requests -> Asked]]
    BY <1>1, <1>6 DEF TokensTyped
  <1>8. \A x \in Gateways, y \in Requests : request'[x][y] = IF x = b THEN Next1(request[b][y]) ELSE request[x][y]
    BY <1>1 DEF TokensTyped
  <1>9. QED
    BY <1>6, <1>7, <1>8 DEF T!RetryUsesNewerToken

LEMMA AnswerKeeps ==
  ASSUME TokenInv, PartsAssumption, NEW c \in Calls, T!Answer(c)
  PROVE  TokenInv'
  <1> USE DEF TokenInv
  <1>1. /\ UNCHANGED <<account, grant, orphaned>> /\ call' = [call EXCEPT ![c] = T!NoCall]
        /\ call[c].at \in {"answered", "failed"}
    BY DEF T!Answer
  <1>2. T!NoCall \in Issues /\ T!NoCall.at = "free"
    BY NullsTyped DEF T!NoCall
  <1>3. call' \in [Calls -> Issues] /\ \A d \in Calls : call'[d] = IF d = c THEN T!NoCall ELSE call[d]
    BY <1>1, <1>2, CallMoved
  <1>4. RowIsHeld' /\ RefreshIsKept'
    BY <1>1, <1>2, <1>3 DEF RowIsHeld, RefreshIsKept, T!InRow, T!GrantOutlivesRefreshes
  <1>5. PICK b \in Gateways :
          IF pending[b] # c THEN UNCHANGED <<pending, cache, request>>
          ELSE /\ pending' = [pending EXCEPT ![b] = "none"]
               /\ IF call[c].at = "answered"
                    THEN cache' = [cache EXCEPT ![b] = "fresh"] /\ T!Resolves(b, c)
                    ELSE UNCHANGED cache /\ T!Rejects(b, c)
    BY DEF T!Answer
  <1>6. \A x \in Gateways, y \in Requests : request[x][y].first \in Nat
    BY DEF TokensTyped, Asked
  <1>7. account.n \in Nat
    BY DEF TokensTyped, Accounts
  <1>8. CASE pending[b] # c
    <2>1. UNCHANGED <<pending, cache, request>>
      BY <1>5, <1>8
    <2>2. TokensTyped'
      BY <1>1, <1>3, <2>1 DEF TokensTyped
    <2>3. TokensGrow' /\ T!RetryUsesNewerToken'
      BY <1>1, <1>2, <1>3, <2>1 DEF TokensGrow, T!RetryUsesNewerToken
    <2>4. ForcedIsNewer'
      BY <1>1, <1>2, <1>3, <2>1 DEF ForcedIsNewer
    <2>5. QED
      BY <1>4, <2>2, <2>3, <2>4
  <1>9. CASE pending[b] = c
    <2>1. pending' = [pending EXCEPT ![b] = "none"]
      BY <1>5, <1>9
    <2>2. \A x \in Gateways, d \in Calls : pending'[x] = d => x # b /\ pending[x] = d
      BY <2>1 DEF TokensTyped, PartsAssumption
    <2>3. cache' \in [Gateways -> {"none", "fresh", "stale"}]
      BY <1>5, <1>9 DEF TokensTyped
    <2>4. /\ request' \in [Gateways -> [Requests -> Asked]]
          /\ \A x \in Gateways, y \in Requests :
               \/ request'[x][y].first <= request[x][y].first
               \/ x = b /\ call[c].at = "answered" /\ request'[x][y].first = call[c].n
          /\ T!RetryUsesNewerToken'
      <3>1. CASE call[c].at = "answered"
        <4>1. T!Resolves(b, c)
          BY <1>5, <1>9, <3>1
        <4>2. QED
          BY <1>6, <1>9, <3>1, <4>1, ResolvesTyped DEF T!RetryUsesNewerToken
      <3>2. CASE call[c].at # "answered"
        <4>1. T!Rejects(b, c)
          BY <1>5, <1>9, <3>2
        <4>2. T!Idle.first = 0 /\ T!Idle.at = "idle"
          BY DEF T!Idle
        <4>3. QED
          BY <1>6, <4>1, <4>2, RejectsTyped DEF T!RetryUsesNewerToken
      <3>3. QED
        BY <3>1, <3>2
    <2>5. \A x \in Gateways, y \in Requests : request'[x][y].first \in Nat
      BY <2>4 DEF Asked
    <2>6. TokensTyped'
      BY <1>1, <1>3, <2>1, <2>3, <2>4 DEF TokensTyped
    <2>7. TokensGrow'
      <3>1. \A x \in Gateways, y \in Requests : request'[x][y].first <= account.n
        BY <1>6, <1>7, <2>4, <2>5 DEF TokensGrow
      <3>2. QED
        BY <1>1, <1>2, <1>3, <3>1 DEF TokensGrow
    <2>8. ForcedIsNewer'
      <3>1. \A d \in Calls : call[d].n \in Nat
        BY DEF TokensTyped, Issues
      <3>2. QED
        BY <1>1, <1>2, <1>3, <1>6, <1>7, <2>2, <2>4, <2>5, <3>1 DEF ForcedIsNewer
    <2>9. QED
      BY <1>4, <2>4, <2>6, <2>7, <2>8
  <1>10. QED
    BY <1>8, <1>9

LEMMA TokenInductive == TokenInv /\ PartsAssumption /\ [WorkersNext]_worker_vars => TokenInv'
  <1> SUFFICES ASSUME TokenInv, PartsAssumption, [WorkersNext]_worker_vars PROVE TokenInv'
    OBVIOUS
  <1>1. CASE T!Next
    <2>1. ASSUME NEW b \in Gateways, T!TimesOut(b) \/ T!CacheAges(b)
          PROVE  TokenInv'
      BY <2>1, GivesUpKeeps
    <2>2. ASSUME NEW b \in Gateways, T!Opens(b)
          PROVE  TokenInv'
      <3>1. PICK r \in Requests : TRUE
        BY <2>2 DEF T!Opens
      <3>2. QED
        BY <2>2, ClientsKeep
    <2>3. ASSUME NEW b \in Gateways, NEW r \in Requests,
                 T!Joins(b, r) \/ T!Makes(b, r) \/ T!Served(b, r) \/ T!Unauthorized(b, r)
          PROVE  TokenInv'
      BY <2>3, ClientsKeep, MakesKeeps
    <2>4. ASSUME NEW c \in Calls, \/ T!Answer(c) \/ T!Observe(c) \/ T!Read(c) \/ T!Refresh(c) \/ T!Revoked(c)
                                  \/ T!Unavailable(c) \/ T!Commit(c) \/ T!Rollback(c)
          PROVE  TokenInv'
      BY <2>4, AnswerKeeps, ObserveKeeps, ReadRowKeeps, RefreshKeeps, RevokedKeeps, CommitKeeps
    <2>5. QED
      BY <1>1, <2>1, <2>2, <2>3, <2>4, OutsideKeeps DEF T!Next
  <1>2. CASE UNCHANGED connection
    BY <1>2 DEF connection, TokenInv, TokensTyped, RowIsHeld, RefreshIsKept, TokensGrow, ForcedIsNewer, T!InRow,
                T!GrantOutlivesRefreshes, T!RetryUsesNewerToken
  <1>3. QED
    BY <1>1, <1>2 DEF WorkersNext, worker_vars

\* A request that was refused is sent again with a newer token, and the provider, which ends a
\* grant when it sees a replaced refresh token, sees none unless a refresh it made was never
\* committed: whichever Companions, calls and time limits meet (issueCompanionMcpAccessToken).
THEOREM RefreshesStaySafe == WorkersSpec => []RefreshesAreSafe
  <1>1. WorkersInit => TokenInv
    BY TokensStart, PartsAssumption DEF WorkersInit
  <1>2. TokenInv /\ [WorkersNext]_worker_vars => TokenInv'
    BY TokenInductive, PartsAssumption
  <1>3. TokenInv => RefreshesAreSafe
    BY DEF TokenInv, RefreshIsKept, RefreshesAreSafe
  <1>4. QED
    BY <1>1, <1>2, <1>3, PTL DEF WorkersSpec
=============================================================================
