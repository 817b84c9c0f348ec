------------------------- MODULE LeaseSessionProofs -------------------------
(***************************************************************************)
(* Proofs about LeaseSession for every lease, renewal interval, set of     *)
(* denials and number of checkpoints: what a session reports is what the   *)
(* database holds, a live fence is given up for nothing but a deadline,    *)
(* and the heartbeat of a session that goes on never dies.                 *)
(***************************************************************************)
EXTENDS LeaseSession, TLAPS, SequenceTheorems

LeaseRows == [mine : BOOLEAN, deny : Denials \cup {"none"}, status : Terminals \cup {"open"}, seq : 0..MaxSeq]
SessionRows == [running : BOOLEAN, lost : BOOLEAN, denied : Denials \cup {"none"}, failed : BOOLEAN,
                handoff : BOOLEAN, shutdown : BOOLEAN, aborted : BOOLEAN,
                seq : 0..MaxSeq, runway : 0..Lease, timer : {"off", "renew", "retry"}]
Places == {"start", "handler", "external", "effect", "checkpoint", "lookup", "cleanup", "settle", "release", "ended"}
WorkRows == [at : Places, goal : Terminals \cup {"none"}, caught : BOOLEAN,
             outcome : Terminals \cup {"none", "released", "fence_lost", "handed_off", "rejected"}]
AnswerSet == Denials \cup {"none", "ok", "gone", "unsure", "raised"}

\* Where the worker waits for no call, and the call it waits for elsewhere.
Quiet(at) == at \in {"handler", "effect", "cleanup", "ended"}
Makes(at, op) == \/ at = "start" /\ op = "start"
                 \/ at = "external" /\ op = "renew"
                 \/ at = "checkpoint" /\ op = "checkpoint"
                 \/ at = "lookup" /\ op \in {"lookup", "relookup"}
                 \/ at = "settle" /\ op = "settle"
                 \/ at = "release" /\ op = "release"

\* The calls chained: that of the worker, if it waits for one, and a heartbeat, if b.
Chain(t, at, b) == \/ t = <<>> /\ Quiet(at) /\ b = FALSE
                   \/ t = <<"beat">> /\ Quiet(at) /\ b = TRUE
                   \/ \E op \in Renewals \cup Mutations \cup {"lookup"} :
                        /\ Makes(at, op)
                        /\ \/ t = <<op>> /\ b = FALSE
                           \/ t = <<op, "beat">> /\ b = TRUE
                           \/ t = <<"beat", op>> /\ b = TRUE

Moved == ~lease.mine \/ lease.deny = "deadline"
Durable(outcome) == /\ outcome \in Terminals => lease.status = outcome
                    /\ outcome = "released" => lease.status = "open" /\ ~lease.mine

\* The heartbeat is chained or its timer set, never both, unless the session is told to stop.
Beats(s, at, b) == /\ b => s.timer = "off"
                   /\ at = "start" => ~b /\ s.timer = "off"
                   /\ at \notin {"start", "ended"} /\ ~s.aborted => s.timer # "off" \/ b

\* A reason to refuse aborts the session, and only its end stops it.
Sane(s, at) == at # "ended" => s.running /\ (Refusal(s) # "none" => s.aborted)

Typed == lease \in LeaseRows /\ session \in SessionRows /\ work \in WorkRows
         /\ phase \in {"waiting", "sent", "answered"} /\ answer \in AnswerSet
Chained == \E b \in BOOLEAN : Chain(tail, work.at, b) /\ Beats(session, work.at, b)
InFlight == phase # "waiting" => tail # <<>>

\* What an answer on its way says of the lease.
AnswerTrue == phase = "answered" =>
  /\ answer # "none"
  /\ answer = "ok" /\ Head(tail) = "settle" => lease.status = work.goal /\ ~lease.mine
  /\ answer = "ok" /\ Head(tail) = "release" => lease.status = "open" /\ ~lease.mine
  /\ answer = "gone" /\ Head(tail) # "lookup" => Moved

\* The session knows the sequence of checkpoints as long as it may write one.
Checkpointed == phase = "answered" /\ Head(tail) = "checkpoint"
SeqKnown == work.at \in {"start", "handler", "external", "effect", "lookup", "checkpoint"} /\ ~Checkpointed
              => session.seq = lease.seq
RoomLeft == work.at = "checkpoint" /\ ~Checkpointed => lease.seq < MaxSeq
GoalChosen == work.at \in {"cleanup", "settle"} => work.goal \in Terminals

SessionInv == /\ Typed /\ Chained /\ Sane(session, work.at) /\ InFlight /\ AnswerTrue /\ SeqKnown /\ RoomLeft
              /\ GoalChosen
              /\ lease.mine => lease.status = "open"
              /\ session.lost => Moved
              /\ Durable(work.outcome) /\ (work.outcome # "none" => work.at = "ended")

-----------------------------------------------------------------------------
(* Chains of at most two calls. *)

LEMMA Pairs ==
  ASSUME NEW a, NEW b
  PROVE  Append(<<a>>, b) = <<a, b>> /\ <<a>> \o <<b>> = <<a, b>>
  <1> DEFINE S == {a, b}
             u == <<a, b>>
             v == Append(<<a>>, b)
             w == <<a>> \o <<b>>
  <1>1. /\ <<a>> \in Seq(S) /\ Len(<<a>>) = 1 /\ <<a>>[1] = a /\ <<b>> \in Seq(S) /\ Len(<<b>>) = 1 /\ <<b>>[1] = b
        /\ b \in S /\ u \in Seq(S) /\ Len(u) = 2 /\ u[1] = a /\ u[2] = b
    OBVIOUS
  <1>2. v \in Seq(S) /\ Len(v) = 2 /\ v[1] = a /\ v[2] = b
    BY <1>1
  <1>3. w \in Seq(S) /\ Len(w) = 2 /\ w[1] = a /\ w[2] = b
    BY <1>1
  <1> HIDE DEF S, u, v, w
  <1>4. ASSUME NEW s \in Seq(S), Len(s) = 2, s[1] = a, s[2] = b PROVE s = u
    <2>1. Len(s) = Len(u) /\ \A i \in 1..Len(s) : s[i] = u[i]
      BY <1>1, <1>4
    <2>2. QED
      BY <1>1, <2>1, SeqEqual
  <1>5. v = u /\ w = u
    BY <1>2, <1>3, <1>4
  <1>6. QED
    BY <1>5 DEF u, v, w

LEMMA Chains ==
  ASSUME NEW a, NEW b
  PROVE  /\ Head(<<a>>) = a /\ Tail(<<a>>) = <<>> /\ Head(<<a, b>>) = a /\ Tail(<<a, b>>) = <<b>>
         /\ Append(<<>>, a) = <<a>> /\ Append(<<a>>, b) = <<a, b>>
         /\ <<a>> \o <<>> = <<a>> /\ <<a>> \o <<b>> = <<a, b>>
         /\ <<a>> # <<>> /\ <<a, b>> # <<>> /\ <<a>> # <<a, b>>
  <1>1. Head(<<a>>) = a /\ Head(<<a, b>>) = a
    OBVIOUS
  <1>2. Tail(<<a>>) = <<>>
    OBVIOUS
  <1>3. Tail(<<a, b>>) = <<b>>
    OBVIOUS
  <1>4. Append(<<>>, a) = <<a>>
    OBVIOUS
  <1>5. Append(<<a>>, b) = <<a, b>>
    BY Pairs
  <1>6. <<a>> \o <<>> = <<a>>
    OBVIOUS
  <1>7. <<a>> \o <<b>> = <<a, b>>
    BY Pairs
  <1>8. <<a>> # <<>> /\ <<a, b>> # <<>>
    OBVIOUS
  <1>9. <<a>> # <<a, b>>
    OBVIOUS
  <1>10. QED
    BY <1>1, <1>2, <1>3, <1>4, <1>5, <1>6, <1>7, <1>8, <1>9

LEMMA Kinds ==
  /\ "beat" \notin Mutations \cup {"lookup"}
  /\ \A at, op : Makes(at, op) => op # "beat" /\ ~Quiet(at) /\ at \in Places /\ op \in Renewals \cup Mutations \cup {"lookup"}
  BY DEF Makes, Quiet, Renewals, Mutations, Places

\* What is first in the chain, and what is left of it without.
LEMMA Firsts ==
  ASSUME NEW at, NEW b \in BOOLEAN, Chain(tail, at, b), tail # <<>>
  PROVE  \/ Head(tail) = "beat" /\ b = TRUE /\ Chain(Tail(tail), at, FALSE)
         \/ Makes(at, Head(tail)) /\ Tail(tail) = IF b THEN <<"beat">> ELSE <<>>
  <1>1. CASE tail = <<"beat">> /\ Quiet(at) /\ b = TRUE
    BY <1>1, Chains DEF Chain
  <1>2. ASSUME NEW op, Makes(at, op), tail = <<op>>, b = FALSE
        PROVE  Makes(at, Head(tail)) /\ Tail(tail) = IF b THEN <<"beat">> ELSE <<>>
    BY <1>2, Chains
  <1>3. ASSUME NEW op, Makes(at, op), tail = <<op, "beat">>, b = TRUE
        PROVE  Makes(at, Head(tail)) /\ Tail(tail) = IF b THEN <<"beat">> ELSE <<>>
    BY <1>3, Chains
  <1>4. ASSUME NEW op \in Renewals \cup Mutations \cup {"lookup"}, Makes(at, op), tail = <<"beat", op>>, b = TRUE
        PROVE  Head(tail) = "beat" /\ b = TRUE /\ Chain(Tail(tail), at, FALSE)
    <2>1. Head(tail) = "beat" /\ Tail(tail) = <<op>>
      BY <1>4, Chains
    <2>2. QED
      BY <1>4, <2>1 DEF Chain
  <1>5. QED
    BY <1>1, <1>2, <1>3, <1>4 DEF Chain

\* The tail is one that TypeOK allows.
LEMMA ChainTyped ==
  ASSUME NEW at, NEW b \in BOOLEAN, Chain(tail, at, b)
  PROVE  /\ tail \in UNION {[1..n -> Renewals \cup Mutations \cup {"lookup"}] : n \in 0..2}
         /\ Len(tail) = 2 => (tail[1] = "beat") # (tail[2] = "beat")
         /\ b => \E i \in DOMAIN tail : tail[i] = "beat"
  <1> DEFINE C == Renewals \cup Mutations \cup {"lookup"}
  <1>1. "beat" \in C
    BY DEF Renewals
  <1> HIDE DEF C
  <1>2. CASE tail = <<>> /\ b = FALSE
    <2>1. tail \in [1..0 -> C] /\ 0 \in 0..2 /\ Len(tail) = 0
      BY <1>2
    <2>2. QED
      BY <1>2, <2>1 DEF C
  <1>3. ASSUME NEW x \in C, tail = <<x>>, b => x = "beat"
        PROVE  /\ tail \in UNION {[1..n -> C] : n \in 0..2}
               /\ Len(tail) = 2 => (tail[1] = "beat") # (tail[2] = "beat")
               /\ b => \E i \in DOMAIN tail : tail[i] = "beat"
    <2>1. tail \in [1..1 -> C] /\ 1 \in 0..2 /\ Len(tail) = 1 /\ tail[1] = x /\ 1 \in DOMAIN tail
      BY <1>3
    <2>2. QED
      BY <1>3, <2>1
  <1>4. ASSUME NEW x \in C, NEW y \in C, tail = <<x, y>>, (x = "beat" /\ y # "beat") \/ (x # "beat" /\ y = "beat")
        PROVE  /\ tail \in UNION {[1..n -> C] : n \in 0..2}
               /\ Len(tail) = 2 => (tail[1] = "beat") # (tail[2] = "beat")
               /\ b => \E i \in DOMAIN tail : tail[i] = "beat"
    <2>1. tail \in [1..2 -> C] /\ 2 \in 0..2 /\ Len(tail) = 2 /\ tail[1] = x /\ tail[2] = y /\ 1 \in DOMAIN tail /\ 2 \in DOMAIN tail
      BY <1>4
    <2>2. QED
      BY <1>4, <2>1
  <1>5. \A op : Makes(at, op) => op # "beat" /\ op \in C
    BY Kinds DEF C
  <1>6. QED
    BY <1>1, <1>2, <1>3, <1>4, <1>5 DEF Chain, C

-----------------------------------------------------------------------------
(* What the engine does next: the session, the worker and the call it makes. *)

\* A session that goes on, its heartbeat left aside, and with it.
Going(s, b) == /\ s \in SessionRows /\ s.running /\ (Refusal(s) # "none" => s.aborted)
               /\ (s.lost => Moved) /\ (b => s.timer = "off")
Fit(s, b) == Going(s, b) /\ (~s.aborted => s.timer # "off" \/ b)

Doing == {"handler", "external", "effect", "checkpoint", "lookup"}
Sound(r, b) == /\ r.session \in SessionRows /\ r.work \in WorkRows /\ r.work.at # "start"
               /\ (r.call = "none" /\ Quiet(r.work.at)) \/ Makes(r.work.at, r.call)
               /\ r.work.at # "ended" => Fit(r.session, b) /\ r.work.outcome = "none"
               /\ (r.session.lost => Moved) /\ (b => r.session.timer = "off")
               /\ r.work.at \in Doing => r.session.seq = lease.seq
               /\ r.work.at = "checkpoint" => lease.seq < MaxSeq
               /\ r.work.at = "effect" => ~r.session.aborted
               /\ r.work.at \in {"cleanup", "settle"} => r.work.goal \in Terminals
               /\ Durable(r.work.outcome)

\* An effect that starts finds its signal intact.
EffectStarts == work.at # "effect" /\ work'.at = "effect" => ~session'.aborted

\* A call is chained behind the heartbeat, if there is one.
LEMMA FollowChains ==
  ASSUME NEW r, NEW b \in BOOLEAN, NEW at, Follow(r, IF b THEN <<"beat">> ELSE <<>>),
         (r.call = "none" /\ Quiet(at)) \/ Makes(at, r.call)
  PROVE  Chain(tail', at, b) /\ (b => tail' # <<>> /\ Head(tail') = "beat")
  <1>1. CASE r.call = "none" /\ Quiet(at)
    <2>1. tail' = IF b THEN <<"beat">> ELSE <<>>
      BY <1>1 DEF Follow
    <2>2. QED
      BY <1>1, <2>1, Chains DEF Chain
  <1>2. CASE Makes(at, r.call)
    <2> DEFINE op == r.call
    <2>1. op # "none" /\ op \in Renewals \cup Mutations \cup {"lookup"}
      BY <1>2, Kinds DEF Makes
    <2>2. tail' = IF b THEN <<"beat", op>> ELSE <<op>>
      BY <2>1, Chains DEF Follow
    <2>3. Makes(at, op)
      BY <1>2
    <2> HIDE DEF op
    <2>4. QED
      BY <2>1, <2>2, <2>3, Chains DEF Chain
  <1>3. QED
    BY <1>1, <1>2

LEMMA FollowKeeps ==
  ASSUME SessionInv, NEW r, NEW b \in BOOLEAN, Sound(r, b), Follow(r, IF b THEN <<"beat">> ELSE <<>>),
         UNCHANGED lease, phase' \in {"waiting", "sent", "answered"}, answer' \in AnswerSet,
         \/ phase' = "waiting"
         \/ phase' = phase /\ answer' = answer /\ tail = IF b THEN <<"beat">> ELSE <<>>
  PROVE  SessionInv' /\ EffectStarts
  <1>1. session' = r.session /\ work' = r.work
    BY DEF Follow
  <1>2. Chain(tail', work'.at, b) /\ (b => tail' # <<>> /\ Head(tail') = "beat")
    BY <1>1, FollowChains DEF Sound
  <1>3. Typed' /\ GoalChosen' /\ (lease.mine => lease.status = "open")'
    BY <1>1 DEF SessionInv, Typed, Sound, LeaseRows, SessionRows, WorkRows, AnswerSet, GoalChosen
  <1>4. Chained'
    BY <1>1, <1>2 DEF Chained, Beats, Sound, Fit, Going
  <1>5. Sane(session', work'.at)
    BY <1>1 DEF Sane, Sound, Fit, Going, Refusal
  <1>6. phase' # "waiting" => b /\ tail = <<"beat">> /\ phase' = phase /\ answer' = answer /\ Head(tail) = "beat"
    <2>1. phase # "waiting" => tail # <<>>
      BY DEF SessionInv, InFlight
    <2>2. QED
      BY <2>1, Chains
  <1>7. InFlight'
    BY <1>2, <1>6 DEF InFlight
  <1>8. AnswerTrue'
    BY <1>2, <1>6 DEF SessionInv, AnswerTrue, Moved
  <1>9. SeqKnown' /\ RoomLeft'
    BY <1>1 DEF SeqKnown, RoomLeft, Sound, Doing
  <1>10. (session.lost => Moved)' /\ Durable(work.outcome)' /\ (work'.outcome # "none" => work'.at = "ended")
    BY <1>1 DEF Sound, Moved, Durable
  <1>11. SessionInv'
    BY <1>3, <1>4, <1>5, <1>7, <1>8, <1>9, <1>10 DEF SessionInv, Sane, Durable
  <1>12. EffectStarts
    BY <1>1 DEF EffectStarts, Sound
  <1>13. QED
    BY <1>11, <1>12

\* The heartbeat is first and done with: what follows it stays.
LEMMA BeatKeeps ==
  ASSUME SessionInv, Chain(Tail(tail), work.at, FALSE), Head(tail) = "beat", tail' = Tail(tail),
         UNCHANGED <<lease, work>>, phase' = "waiting", answer' \in AnswerSet,
         session' \in SessionRows, Sane(session', work.at), session'.lost => Moved,
         session'.seq \in {session.seq, lease.seq}, Beats(session', work.at, FALSE)
  PROVE  SessionInv' /\ EffectStarts
  <1>0. Chained'
    <2>1. Chain(tail', work'.at, FALSE) /\ Beats(session', work'.at, FALSE)
      OBVIOUS
    <2>2. QED
      BY <2>1 DEF Chained
  <1>1. Typed' /\ GoalChosen' /\ (lease.mine => lease.status = "open")' /\ Chained' /\ InFlight' /\ AnswerTrue'
    BY <1>0 DEF SessionInv, Typed, LeaseRows, SessionRows, WorkRows, AnswerSet, GoalChosen, InFlight, AnswerTrue
  <1>2. ~Checkpointed
    BY DEF Checkpointed
  <1>3. SeqKnown' /\ RoomLeft'
    BY <1>2 DEF SessionInv, SeqKnown, RoomLeft
  <1>4. QED
    BY <1>1, <1>3 DEF SessionInv, Sane, Refusal, Moved, Durable, EffectStarts

LEMMA EndSound ==
  ASSUME SessionInv, NEW s \in SessionRows, NEW b \in BOOLEAN, s.lost => Moved,
         NEW outcome \in Terminals \cup {"released", "fence_lost", "handed_off", "rejected"}, Durable(outcome)
  PROVE  Sound(End(s, outcome), b)
  <1> DEFINE r == End(s, outcome)
  <1>1. work \in WorkRows
    BY DEF SessionInv, Typed
  <1>2. r.session = [s EXCEPT !.running = FALSE, !.timer = "off"] /\ r.call = "none"
        /\ r.work = [work EXCEPT !.at = "ended", !.outcome = outcome]
    BY DEF End, Go, Stopped
  <1> HIDE DEF r
  <1>3. r.session \in SessionRows /\ r.session.lost = s.lost /\ r.session.timer = "off"
    BY <1>2 DEF SessionRows
  <1>4. r.work \in WorkRows /\ r.work.at = "ended" /\ r.work.outcome = outcome
    BY <1>1, <1>2 DEF WorkRows, Places
  <1>5. QED
    BY <1>2, <1>3, <1>4 DEF Sound, Quiet, Doing, r

LEMMA SettleSound ==
  ASSUME SessionInv, work.at # "ended", NEW s, NEW b \in BOOLEAN, Fit(s, b), NEW goal \in Terminals, NEW caught \in BOOLEAN
  PROVE  Sound(Settle(s, goal, caught), b)
  <1> DEFINE w == [work EXCEPT !.goal = goal, !.caught = @ \/ caught, !.at = "settle"]
             v == [w EXCEPT !.at = "cleanup"]
  <1>1. work \in WorkRows /\ work.outcome = "none"
    BY DEF SessionInv, Typed
  <1>2. PICK c \in BOOLEAN : c = (work.caught \/ caught)
    OBVIOUS
  <1>3. w = [work EXCEPT !.goal = goal, !.caught = c, !.at = "settle"]
    BY <1>2
  <1>4. w \in WorkRows /\ w.at = "settle" /\ w.outcome = "none" /\ w.goal = goal
    BY <1>1, <1>3 DEF WorkRows, Places
  <1>5. v \in WorkRows /\ v.at = "cleanup" /\ v.outcome = "none" /\ v.goal = goal
    BY <1>4 DEF WorkRows, Places
  <1>6. Settle(s, goal, caught) = IF goal \in {"interrupted", "cancelled"}
                                  THEN [session |-> s, work |-> v, call |-> "none"]
                                  ELSE [session |-> s, work |-> w, call |-> "settle"]
    BY DEF Settle, Go, Call
  <1> HIDE DEF w, v
  <1>7. Durable("none")
    BY DEF Durable, Terminals
  <1>8. Sound([session |-> s, work |-> v, call |-> "none"], b)
    BY <1>5, <1>7 DEF Sound, Quiet, Fit, Going, Doing
  <1>9. Sound([session |-> s, work |-> w, call |-> "settle"], b)
    BY <1>4, <1>7 DEF Sound, Makes, Fit, Going, Doing
  <1>10. QED
    BY <1>6, <1>8, <1>9

LEMMA ReleaseSound ==
  ASSUME SessionInv, work.at # "ended", NEW s, NEW b \in BOOLEAN, Fit(s, b), NEW caught \in BOOLEAN
  PROVE  Sound(Release(s, caught), b)
  <1> DEFINE w == [work EXCEPT !.at = "release", !.caught = @ \/ caught]
  <1>1. work \in WorkRows /\ work.outcome = "none"
    BY DEF SessionInv, Typed
  <1>2. PICK c \in BOOLEAN : c = (work.caught \/ caught)
    OBVIOUS
  <1>3. w = [work EXCEPT !.at = "release", !.caught = c]
    BY <1>2
  <1>4. w \in WorkRows /\ w.at = "release" /\ w.outcome = "none"
    BY <1>1, <1>3 DEF WorkRows, Places
  <1>5. Release(s, caught) = [session |-> s, work |-> w, call |-> "release"]
    BY DEF Release, Call
  <1> HIDE DEF w
  <1>6. QED
    BY <1>4, <1>5 DEF Sound, Makes, Fit, Going, Doing, Durable, Terminals

LEMMA DenialSound ==
  ASSUME SessionInv, work.at # "ended", NEW s, NEW b \in BOOLEAN, Fit(s, b), NEW denial, NEW caught \in BOOLEAN
  PROVE  Sound(FinishDenial(s, denial, caught), b)
  <1>1. {"cancelled", "interrupted", "failed"} \subseteq Terminals
    BY DEF Terminals
  <1>2. /\ Sound(Release(s, caught), b) /\ Sound(Settle(s, "cancelled", caught), b)
        /\ Sound(Settle(s, "interrupted", caught), b) /\ Sound(Settle(s, "failed", caught), b)
    BY <1>1, SettleSound, ReleaseSound
  <1>3. QED
    BY <1>2 DEF FinishDenial

LEMMA HonoredSound ==
  ASSUME SessionInv, work.at # "ended", NEW s, NEW b \in BOOLEAN, Fit(s, b), NEW caught \in BOOLEAN,
         NEW otherwise, Sound(otherwise, b)
  PROVE  Sound(Honored(s, caught, otherwise), b)
  <1>1. Sound(End(s, "handed_off"), b)
    BY EndSound DEF Fit, Going, Durable, Terminals
  <1>2. Sound(Settle(s, "interrupted", caught), b)
    BY SettleSound DEF Terminals
  <1>3. QED
    BY <1>1, <1>2 DEF Honored

LEMMA ThrownSound ==
  ASSUME SessionInv, work.at # "ended", NEW s, NEW b \in BOOLEAN, Fit(s, b), NEW error
  PROVE  Sound(Thrown(s, error), b)
  <1> DEFINE X == CASE error \in {"lost", "failed", "unsure"} -> End(s, "fence_lost")
                    [] error \in Denials -> FinishDenial(s, error, TRUE)
                    [] error = "ambiguous" -> Settle(s, "interrupted", TRUE)
                    [] OTHER -> Settle(s, "failed", TRUE)
  <1>1. Sound(End(s, "fence_lost"), b) /\ Sound(End(s, "rejected"), b)
    BY EndSound DEF Fit, Going, Durable, Terminals
  <1>2. Sound(FinishDenial(s, error, TRUE), b)
    BY DenialSound
  <1>3. Sound(Settle(s, "interrupted", TRUE), b) /\ Sound(Settle(s, "failed", TRUE), b)
    BY SettleSound DEF Terminals
  <1>4. Sound(X, b)
    BY <1>1, <1>2, <1>3
  <1>5. Thrown(s, error) = IF work.caught THEN End(s, "rejected") ELSE Honored(s, TRUE, X)
    BY DEF Thrown
  <1> HIDE DEF X
  <1>6. Sound(Honored(s, TRUE, X), b)
    BY <1>4, HonoredSound
  <1>7. QED
    BY <1>1, <1>5, <1>6

\* The worker goes back to its handler, or starts its effect.
LEMMA OnwardSound ==
  ASSUME SessionInv, work.at # "ended", NEW s, NEW b \in BOOLEAN, Fit(s, b), s.seq = lease.seq
  PROVE  /\ Sound(Handling(s), b)
         /\ ~s.aborted => Sound(Go(s, [work EXCEPT !.at = "effect"]), b)
         /\ Sound(Call(s, [work EXCEPT !.at = "external"], "renew"), b)
         /\ Sound(Call(s, [work EXCEPT !.at = "lookup"], "lookup"), b)
         /\ lease.seq < MaxSeq => Sound(Call(s, [work EXCEPT !.at = "checkpoint"], "checkpoint"), b)
  <1>1. work \in WorkRows /\ work.outcome = "none"
    BY DEF SessionInv, Typed
  <1>2. Durable("none") /\ s \in SessionRows
    BY DEF Durable, Terminals, Fit, Going
  <1>3. ASSUME NEW at \in Doing, NEW call, (call = "none" /\ Quiet(at)) \/ Makes(at, call), at = "checkpoint" => lease.seq < MaxSeq,
               at = "effect" => ~s.aborted
        PROVE  Sound([session |-> s, work |-> [work EXCEPT !.at = at], call |-> call], b)
    <2> DEFINE w == [work EXCEPT !.at = at]
    <2>1. w \in WorkRows /\ w.at = at /\ w.outcome = "none"
      BY <1>1 DEF WorkRows, Places, Doing
    <2> HIDE DEF w
    <2>2. Sound([session |-> s, work |-> w, call |-> call], b)
      BY <1>2, <1>3, <2>1 DEF Sound, Doing, Fit, Going
    <2>3. QED
      BY <2>2 DEF w
  <1>4. QED
    BY <1>3 DEF Handling, Go, Call, Doing, Quiet, Makes

-----------------------------------------------------------------------------
(* What an answer teaches. *)

LEMMA RenewedGoes ==
  ASSUME SessionConstants, SessionInv, NEW s, NEW b \in BOOLEAN, Going(s, b), NEW ans, ans = "gone" => Moved
  PROVE  /\ Going(Renewed(s, ans), b) /\ (s.aborted => Renewed(s, ans).aborted) /\ Renewed(s, ans).timer = s.timer
         /\ ans \in Denials \cup {"gone"} => Renewed(s, ans).aborted
         /\ ans = "ok" => Renewed(s, ans).seq = lease.seq
         /\ Renewed(s, ans).seq \in {s.seq, lease.seq}
         /\ ans \in {"ok", "unsure", "raised"} => Refusal(Renewed(s, ans)) = Refusal(s) /\ Renewed(s, ans).aborted = s.aborted
  <1>1. lease.seq \in 0..MaxSeq /\ Lease \in 0..Lease /\ s \in SessionRows /\ "ok" \notin Denials /\ "gone" \notin Denials
        /\ "unsure" \notin Denials /\ "raised" \notin Denials /\ "none" \notin Denials
    BY DEF SessionInv, Typed, LeaseRows, SessionConstants, Going
  <1>2. CASE ans = "ok"
    <2>1. Renewed(s, ans) = [s EXCEPT !.seq = lease.seq, !.runway = Lease]
      BY <1>1, <1>2 DEF Renewed
    <2> DEFINE r == Renewed(s, ans)
    <2>2. /\ r \in SessionRows /\ r.seq = lease.seq /\ r.running = s.running /\ r.aborted = s.aborted /\ r.lost = s.lost
          /\ r.timer = s.timer /\ r.handoff = s.handoff /\ r.shutdown = s.shutdown /\ r.denied = s.denied /\ r.failed = s.failed
      BY <1>1, <2>1 DEF SessionRows
    <2> HIDE DEF r
    <2>3. Refusal(r) = Refusal(s)
      BY <2>2 DEF Refusal
    <2>4. QED
      BY <1>1, <1>2, <2>2, <2>3 DEF Going, r
  <1>3. CASE ans = "gone"
    <2>1. Renewed(s, ans) = [[s EXCEPT !.aborted = TRUE] EXCEPT !.lost = TRUE]
      BY <1>1, <1>3 DEF Renewed, Lost, Aborted
    <2>2. QED
      BY <1>1, <1>3, <2>1 DEF Going, SessionRows
  <1>4. CASE ans \in Denials
    <2>1. Renewed(s, ans) = [[s EXCEPT !.aborted = TRUE] EXCEPT !.denied = ans, !.seq = lease.seq]
      BY <1>1, <1>4 DEF Renewed, Aborted
    <2>2. QED
      BY <1>1, <1>4, <2>1, ZenonT(40) DEF Going, SessionRows
  <1>5. CASE ans \notin Denials \cup {"ok", "gone"}
    <2>1. Renewed(s, ans) = s
      BY <1>5 DEF Renewed
    <2>2. QED
      BY <1>5, <2>1
  <1>6. QED
    BY <1>2, <1>3, <1>4, <1>5

\* A renewal arms the timer unless the session has a reason to refuse.
LEMMA ArmedFits ==
  ASSUME NEW s, Going(s, FALSE), NEW timer \in {"renew", "retry"}
  PROVE  Fit(Armed(s, timer), FALSE) /\ Armed(s, timer).seq = s.seq
  <1>1. CASE Refusal(s) = "none"
    <2> DEFINE r == [s EXCEPT !.timer = timer]
    <2>1. Armed(s, timer) = r
      BY <1>1 DEF Armed, Going
    <2>2. /\ r \in SessionRows /\ r.timer = timer /\ r.seq = s.seq /\ r.running = s.running /\ r.aborted = s.aborted
          /\ r.lost = s.lost /\ r.handoff = s.handoff /\ r.shutdown = s.shutdown /\ r.denied = s.denied /\ r.failed = s.failed
      BY DEF SessionRows, Going
    <2> HIDE DEF r
    <2>3. Refusal(r) = Refusal(s)
      BY <2>2 DEF Refusal
    <2>4. QED
      BY <1>1, <2>1, <2>2, <2>3 DEF Fit, Going
  <1>2. CASE Refusal(s) # "none"
    BY <1>2 DEF Armed, Fit, Going
  <1>3. QED
    BY <1>1, <1>2

LEMMA AbortedFits ==
  ASSUME NEW s, NEW b \in BOOLEAN, Going(s, b)
  PROVE  /\ Fit(Failed(s), b) /\ Failed(s).seq = s.seq /\ Failed(s).aborted
         /\ Moved => Fit(Lost(s), b)
  BY DEF Failed, Lost, Aborted, Fit, Going, SessionRows

\* The answer to a heartbeat keeps it going, or aborts the session.
LEMMA HeardFits ==
  ASSUME SessionConstants, SessionInv, NEW s, Going(s, FALSE), NEW ans \in AnswerSet \ {"none"}, ans = "gone" => Moved
  PROVE  Fit(Heard(s, ans), FALSE) /\ Heard(s, ans).seq \in {s.seq, lease.seq}
  <1>1. ans \in Denials \cup {"ok", "gone", "unsure", "raised"}
    BY DEF AnswerSet, SessionConstants
  <1>2. CASE ans = "ok"
    <2> DEFINE r == Renewed(s, ans)
    <2>1. Going(r, FALSE) /\ r.seq \in {s.seq, lease.seq}
      BY RenewedGoes
    <2> HIDE DEF r
    <2>2. Heard(s, ans) = Armed(r, "renew")
      BY <1>2 DEF Heard, r
    <2>3. QED
      BY <2>1, <2>2, ArmedFits
  <1>3. CASE ans \in {"unsure", "raised"}
    <2>1. Heard(s, ans) = Retried(s)
      BY <1>3 DEF Heard
    <2>2. Fit(Armed(s, "retry"), FALSE) /\ Armed(s, "retry").seq = s.seq /\ Fit(Failed(s), FALSE) /\ Failed(s).seq = s.seq
      BY ArmedFits, AbortedFits
    <2>3. QED
      BY <2>1, <2>2 DEF Retried
  <1>4. CASE ans \notin {"ok", "unsure", "raised"}
    <2>1. Heard(s, ans) = Renewed(s, ans)
      BY <1>4 DEF Heard
    <2>2. ans \in Denials \cup {"gone"} /\ FALSE \in BOOLEAN
      BY <1>1, <1>4
    <2>3. Going(Renewed(s, ans), FALSE) /\ Renewed(s, ans).aborted /\ Renewed(s, ans).seq \in {s.seq, lease.seq}
      BY <2>2, RenewedGoes
    <2>4. QED
      BY <2>1, <2>3 DEF Fit
  <1>5. QED
    BY <1>2, <1>3, <1>4

LEMMA HeardTyped ==
  ASSUME SessionConstants, SessionInv, NEW ans \in AnswerSet \ {"none"}, ans = "gone" => Moved
  PROVE  /\ Heard(session, ans) \in SessionRows /\ (Heard(session, ans).lost => Moved)
         /\ Heard(session, ans).seq \in {session.seq, lease.seq}
  <1> DEFINE Known(s) == s \in SessionRows /\ (s.lost => Moved) /\ s.seq \in {session.seq, lease.seq}
  <1>1. lease.seq \in 0..MaxSeq /\ Lease \in 0..Lease /\ Known(session)
    BY DEF SessionInv, Typed, LeaseRows, SessionConstants
  <1>2. ASSUME NEW s, Known(s), NEW timer \in {"renew", "retry"} PROVE Known(Armed(s, timer))
    BY <1>2 DEF Armed, SessionRows
  <1>3. Known(Failed(session))
    BY <1>1 DEF Failed, Aborted, SessionRows
  <1>4. Known(Renewed(session, ans))
    <2>1. ans = "ok" => Known([session EXCEPT !.seq = lease.seq, !.runway = Lease])
      BY <1>1 DEF SessionRows
    <2>2. ans = "gone" => Known([[session EXCEPT !.aborted = TRUE] EXCEPT !.lost = TRUE])
      BY <1>1 DEF SessionRows
    <2>3. ans \in Denials => Known([[session EXCEPT !.aborted = TRUE] EXCEPT !.denied = ans, !.seq = lease.seq])
      BY <1>1 DEF SessionRows
    <2> HIDE DEF Known
    <2>4. QED
      BY <1>1, <2>1, <2>2, <2>3 DEF Renewed, Lost, Aborted
  <1> HIDE DEF Known
  <1>5. Known(Heard(session, ans))
    BY <1>1, <1>2, <1>3, <1>4 DEF Heard, Retried
  <1>6. QED
    BY <1>5 DEF Known

-----------------------------------------------------------------------------
(* The answer to a call of the worker. *)

\* The worker is where the call it waits for comes from.
LEMMA WorkerFits ==
  ASSUME SessionInv, NEW b \in BOOLEAN, Beats(session, work.at, b), work.at # "ended"
  PROVE  Going(session, b) /\ (work.at # "start" => Fit(session, b)) /\ (session.aborted => Fit(session, b))
         /\ (work.at = "start" => b = FALSE)
  BY DEF SessionInv, Typed, Sane, Beats, Going, Fit

LEMMA StartAnswered ==
  ASSUME SessionConstants, SessionInv, work.at = "start", Going(session, FALSE),
         NEW ans \in AnswerSet \ {"none"}, ans = "gone" => Moved
  PROVE  Sound(Answered("start", ans, session), FALSE)
  <1> DEFINE r == Renewed(session, ans)
             a == Armed(r, "renew")
             denied == Honored(r, FALSE, FinishDenial(r, ans, FALSE))
             then == Honored(a, FALSE, Handling(a))
  <1>1. /\ Going(r, FALSE) /\ (ans \in Denials \cup {"gone"} => r.aborted) /\ (ans = "ok" => r.seq = lease.seq)
    BY RenewedGoes
  <1>2. Answered("start", ans, session) = Proved(session, ans, then, denied)
    BY DEF Answered
  <1>3. ans = "ok" => Sound(then, FALSE)
    <2> SUFFICES ASSUME ans = "ok" PROVE Sound(then, FALSE)
      OBVIOUS
    <2> HIDE DEF r
    <2>1. Fit(a, FALSE) /\ a.seq = lease.seq
      BY <1>1, ArmedFits
    <2> HIDE DEF a
    <2>2. Sound(Handling(a), FALSE)
      BY <2>1, OnwardSound
    <2>3. QED
      BY <2>1, <2>2, HonoredSound
  <1>4. ans \in Denials => Sound(denied, FALSE)
    <2> SUFFICES ASSUME ans \in Denials PROVE Sound(denied, FALSE)
      OBVIOUS
    <2> HIDE DEF r
    <2>1. Fit(r, FALSE)
      BY <1>1 DEF Fit
    <2>2. Sound(FinishDenial(r, ans, FALSE), FALSE)
      BY <2>1, DenialSound
    <2>3. QED
      BY <2>1, <2>2, HonoredSound
  <1>5. ans = "gone" => Sound(Thrown(r, "lost"), FALSE)
    <2> HIDE DEF r
    <2>1. QED
      BY <1>1, ThrownSound DEF Fit
  <1>6. Sound(Thrown(Failed(session), "failed"), FALSE)
    BY AbortedFits, ThrownSound
  <1>7. Proved(session, ans, then, denied) = CASE ans = "ok" -> then
                                               [] ans \in Denials -> denied
                                               [] ans = "gone" -> Thrown(r, "lost")
                                               [] OTHER -> Thrown(Failed(session), "failed")
    BY DEF Proved
  <1> HIDE DEF then, denied, r, a
  <1>8. Sound(Proved(session, ans, then, denied), FALSE)
    BY <1>3, <1>4, <1>5, <1>6, <1>7
  <1>9. QED
    BY <1>2, <1>8

LEMMA RenewAnswered ==
  ASSUME SessionConstants, SessionInv, work.at = "external", NEW b \in BOOLEAN, Fit(session, b),
         NEW ans \in AnswerSet \ {"none"}, ans = "gone" => Moved
  PROVE  Sound(Answered("renew", ans, session), b)
  <1> DEFINE r == Renewed(session, ans)
  <1>1. /\ Going(r, b) /\ (ans \in Denials \cup {"gone"} => r.aborted) /\ (ans = "ok" => r.seq = lease.seq)
        /\ r.timer = session.timer /\ (ans = "ok" => r.aborted = session.aborted)
    BY RenewedGoes DEF Fit
  <1>2. Answered("renew", ans, session) = Proved(session, ans, Effect(r), Thrown(r, ans))
    BY DEF Answered
  <1>3. Proved(session, ans, Effect(r), Thrown(r, ans)) = CASE ans = "ok" -> Effect(r)
                                                           [] ans \in Denials -> Thrown(r, ans)
                                                           [] ans = "gone" -> Thrown(r, "lost")
                                                           [] OTHER -> Thrown(Failed(session), "failed")
    BY DEF Proved
  <1> HIDE DEF r
  <1>4. ans \in Denials \cup {"ok", "gone"} => Fit(r, b)
    BY <1>1 DEF Fit
  <1>5. ans = "ok" => Sound(Effect(r), b)
    <2>1. ans = "ok" => /\ Sound(Thrown(r, "aborted"), b)
                        /\ ~r.aborted => Sound(Go(r, [work EXCEPT !.at = "effect"]), b)
      BY <1>1, <1>4, ThrownSound, OnwardSound
    <2>2. QED
      BY <2>1 DEF Effect
  <1>6. ans \in Denials \cup {"gone"} => Sound(Thrown(r, ans), b) /\ Sound(Thrown(r, "lost"), b)
    BY <1>4, ThrownSound
  <1>7. Sound(Thrown(Failed(session), "failed"), b)
    BY AbortedFits, ThrownSound DEF Fit
  <1>8. Sound(Proved(session, ans, Effect(r), Thrown(r, ans)), b)
    BY <1>3, <1>5, <1>6, <1>7
  <1>9. QED
    BY <1>2, <1>8

LEMMA CallAnswered ==
  ASSUME SessionConstants, SessionInv, NEW b \in BOOLEAN, Fit(session, b), Makes(work.at, Head(tail)),
         Head(tail) \notin {"start", "renew"}, phase = "answered", ~AsksAgain(Head(tail), answer)
  PROVE  Sound(Answered(Head(tail), answer, session), b)
  <1> DEFINE op == Head(tail)
             s == session
             noted == [s EXCEPT !.seq = lease.seq]
  <1>1. /\ op \in {"checkpoint", "lookup", "relookup", "settle", "release"} /\ work.at # "ended"
        /\ (op = "settle" => work.at = "settle") /\ (op = "lookup" => work.at = "lookup")
        /\ (op = "relookup" => work.at = "lookup")
    BY DEF Makes
  <1>2. answer = "gone" => Moved
    BY DEF SessionInv, AnswerTrue, AsksAgain
  <1>3. /\ answer = "ok" /\ op = "settle" => lease.status = work.goal /\ ~lease.mine
        /\ answer = "ok" /\ op = "release" => lease.status = "open" /\ ~lease.mine
    BY DEF SessionInv, AnswerTrue
  <1>4. op = "settle" => work.goal \in Terminals
    BY <1>1 DEF SessionInv, GoalChosen
  <1>5. op \in {"lookup", "relookup"} => s.seq = lease.seq
    BY <1>1 DEF SessionInv, SeqKnown, Checkpointed
  <1>6. s \in SessionRows /\ (s.lost => Moved) /\ lease.seq \in 0..MaxSeq
    BY DEF SessionInv, Typed, LeaseRows
  <1> SUFFICES Sound(Answered(op, answer, s), b)
    OBVIOUS
  <1> HIDE DEF op, s
  <1>0. Fit(s, b)
    BY DEF s
  <1>7. \A error : Sound(Thrown(s, error), b)
    BY <1>0, <1>1, ThrownSound
  <1>8. Moved => Sound(Thrown(Lost(s), "lost"), b)
    BY <1>0, <1>1, AbortedFits, ThrownSound DEF Fit
  <1>9. Sound(Handling(noted), b)
    <2>1. noted \in SessionRows /\ noted.seq = lease.seq /\ noted.running = s.running /\ noted.aborted = s.aborted
          /\ noted.lost = s.lost /\ noted.timer = s.timer /\ noted.handoff = s.handoff /\ noted.shutdown = s.shutdown
          /\ noted.denied = s.denied /\ noted.failed = s.failed
      BY <1>6 DEF SessionRows
    <2> HIDE DEF noted
    <2>2. Refusal(noted) = Refusal(s)
      BY <2>1 DEF Refusal
    <2>3. Fit(noted, b)
      BY <1>0, <2>1, <2>2 DEF Fit, Going
    <2>4. QED
      BY <1>1, <2>1, <2>3, OnwardSound
  <1>10. op \in {"lookup", "relookup"} => Sound(Handling(s), b)
    BY <1>0, <1>1, <1>5, OnwardSound
  <1>11. op = "settle" /\ answer = "ok" => Sound(End(s, work.goal), b)
    <2> SUFFICES ASSUME op = "settle", answer = "ok" PROVE Sound(End(s, work.goal), b)
      OBVIOUS
    <2>1. Durable(work.goal) /\ (b => s.timer = "off")
      BY <1>0, <1>3, <1>4 DEF Durable, Terminals, Fit, Going
    <2>2. QED
      BY <1>4, <1>6, <2>1, EndSound
  <1>12. op = "release" /\ answer = "ok" => Sound(End(s, "released"), b)
    BY <1>3, <1>6, EndSound DEF Durable, Terminals
  <1>13. Moved => Sound(End(Lost(s), "fence_lost"), b) /\ Sound(End([s EXCEPT !.lost = TRUE], "fence_lost"), b)
    <2>1. Moved => /\ Lost(s) \in SessionRows /\ [s EXCEPT !.lost = TRUE] \in SessionRows
      BY <1>6 DEF Lost, Aborted, SessionRows
    <2>2. Durable("fence_lost")
      BY DEF Durable, Terminals
    <2>3. QED
      BY <2>1, <2>2, EndSound
  <1>14. CASE answer = "ok" /\ op = "settle"
    BY <1>11, <1>14 DEF Answered, Settled
  <1>15. CASE answer = "gone" /\ op = "settle"
    BY <1>2, <1>13, <1>15 DEF Answered, Settled
  <1>16. CASE op = "release" /\ answer \in {"ok", "gone"}
    BY <1>2, <1>12, <1>13, <1>16 DEF Answered
  <1>17. CASE op = "checkpoint" /\ answer = "ok"
    BY <1>9, <1>17 DEF Answered
  <1>18. CASE op = "lookup" /\ answer = "ok"
    BY <1>10, <1>18 DEF Answered
  <1>19. CASE op = "relookup" /\ answer \in Denials \cup {"ok"}
    <2>1. "ok" \notin Denials
      BY DEF SessionConstants
    <2>2. QED
      BY <1>7, <1>19, <2>1 DEF Answered
  <1>20. CASE /\ ~(op \in {"settle", "release"} /\ answer \in {"ok", "gone"})
              /\ ~(op \in {"checkpoint", "lookup", "relookup"} /\ answer = "ok")
              /\ ~(op = "relookup" /\ answer \in Denials)
    <2>1. Answered(op, answer, s) = IF answer = "gone" THEN Thrown(Lost(s), "lost") ELSE Thrown(s, answer)
      BY <1>1, <1>20 DEF Answered
    <2>2. QED
      BY <1>2, <1>7, <1>8, <2>1
  <1>21. QED
    BY <1>1, <1>14, <1>15, <1>16, <1>17, <1>18, <1>19, <1>20

-----------------------------------------------------------------------------
(* The steps. *)

\* A chain of a worker that waits for nothing.
LEMMA QuietTail ==
  ASSUME SessionInv, NEW b \in BOOLEAN, Chain(tail, work.at, b), Quiet(work.at)
  PROVE  tail = IF b THEN <<"beat">> ELSE <<>>
  BY Kinds DEF Chain

LEMMA SendStep ==
  ASSUME SessionInv, Send
  PROVE  SessionInv'
  <1>1. UNCHANGED <<lease, session, work, tail, answer>> /\ phase = "waiting" /\ phase' = "sent" /\ tail # <<>>
    BY DEF Send
  <1>2. (Typed /\ Chained /\ InFlight /\ AnswerTrue /\ SeqKnown /\ RoomLeft /\ GoalChosen)'
    BY <1>1 DEF SessionInv, Typed, LeaseRows, SessionRows, WorkRows, AnswerSet, Chained, Beats, InFlight, AnswerTrue,
       SeqKnown, RoomLeft, Checkpointed, GoalChosen
  <1>3. QED
    BY <1>1, <1>2 DEF SessionInv, Sane, Refusal, Moved, Durable

LEMMA RefuseStep ==
  ASSUME SessionConstants, SessionInv, Refuse
  PROVE  SessionInv' /\ EffectStarts
  <1> DEFINE op == Head(tail)
             why == RefusalOf(op, session)
  <1>1. /\ phase = "waiting" /\ tail # <<>> /\ why # "none" /\ UNCHANGED <<lease, phase, answer>>
        /\ Follow(CASE op = "beat" -> Go(session, work)
                    [] op \in {"settle", "release"} /\ why = "lost" -> End(session, "fence_lost")
                    [] OTHER -> Thrown(session, why), Tail(tail))
    BY DEF Refuse
  <1>2. PICK b \in BOOLEAN : Chain(tail, work.at, b) /\ Beats(session, work.at, b)
    BY DEF SessionInv, Chained
  <1>3. answer' \in AnswerSet /\ session \in SessionRows /\ (session.lost => Moved)
    BY <1>1 DEF SessionInv, Typed
  <1>4. Refusal(session) # "none"
    BY <1>1 DEF RefusalOf, EndRefusal, Refusal
  <1>5. work.at # "ended" => session.aborted
    BY <1>4 DEF SessionInv, Sane
  <1>6. CASE op = "beat" /\ b = TRUE /\ Chain(Tail(tail), work.at, FALSE)
    <2>1. session' = session /\ work' = work /\ tail' = Tail(tail)
      BY <1>1, <1>6 DEF Follow, Go
    <2>2. Beats(session', work.at, FALSE)
      BY <1>2, <1>5, <1>6, <2>1 DEF Beats
    <2>3. Sane(session', work.at) /\ session' \in SessionRows /\ (session'.lost => Moved)
      BY <1>3, <2>1 DEF SessionInv, Sane
    <2>4. QED
      BY <1>1, <1>3, <1>6, <2>1, <2>2, <2>3, BeatKeeps
  <1>7. CASE Makes(work.at, op) /\ Tail(tail) = IF b THEN <<"beat">> ELSE <<>>
    <2>1. work.at # "ended" /\ op # "beat"
      BY <1>7 DEF Makes
    <2>2. Fit(session, b)
      BY <1>2, <1>5, <2>1, WorkerFits
    <2>3. Sound(Thrown(session, why), b)
      BY <2>1, <2>2, ThrownSound
    <2>4. Sound(End(session, "fence_lost"), b)
      BY <1>3, EndSound DEF Durable, Terminals
    <2> DEFINE r == CASE op = "beat" -> Go(session, work)
                      [] op \in {"settle", "release"} /\ why = "lost" -> End(session, "fence_lost")
                      [] OTHER -> Thrown(session, why)
    <2>5. Sound(r, b)
      BY <2>1, <2>3, <2>4
    <2>6. Follow(r, IF b THEN <<"beat">> ELSE <<>>)
      BY <1>1, <1>7
    <2> HIDE DEF r, op, why
    <2>7. QED
      BY <1>1, <1>3, <2>5, <2>6, FollowKeeps
  <1>8. QED
    BY <1>1, <1>2, <1>6, <1>7, Firsts

LEMMA ExecuteStep ==
  ASSUME SessionConstants, SessionInv, Execute
  PROVE  SessionInv'
  <1> DEFINE op == Head(tail)
  <1>1. PICK ans \in Answers(op) : lease' = Effects(op, ans) /\ answer' \in {ans, "unsure"}
    BY DEF Execute
  <1>2. phase = "sent" /\ phase' = "answered" /\ UNCHANGED <<session, work, tail>> /\ tail # <<>>
    BY DEF Execute, SessionInv, InFlight
  <1>3. PICK b \in BOOLEAN : Chain(tail, work.at, b) /\ Beats(session, work.at, b)
    BY DEF SessionInv, Chained
  <1>4. op = "beat" \/ Makes(work.at, op)
    BY <1>2, <1>3, Firsts
  <1>5. /\ lease \in LeaseRows /\ session \in SessionRows /\ work \in WorkRows /\ ~Checkpointed
        /\ "ok" \notin Denials /\ "gone" \notin Denials /\ lease.deny \in Denials \cup {"none"}
        /\ "unsure" \notin Denials /\ "none" \notin Denials
    BY <1>2 DEF SessionInv, Typed, Checkpointed, SessionConstants, LeaseRows
  <1> HIDE DEF op
  <1>6. op = "checkpoint" => work.at = "checkpoint" /\ lease.seq < MaxSeq /\ session.seq = lease.seq
    BY <1>4, <1>5 DEF Makes, SessionInv, SeqKnown, RoomLeft
  <1>7. op = "settle" => work.at = "settle" /\ work.goal \in Terminals /\ work.outcome = "none"
    BY <1>4 DEF Makes, SessionInv, GoalChosen
  <1>8. op = "release" => work.at = "release" /\ work.outcome = "none"
    BY <1>4 DEF Makes, SessionInv
  <1>9. op \in Renewals \cup Mutations \cup {"lookup"}
    BY <1>4, Kinds DEF Renewals
  <1>10. ans \in Denials \cup {"ok", "gone"} /\ (ans = "ok" => lease.mine) /\ (ans = "gone" /\ op # "lookup" => Moved)
    <2>1. CASE ~lease.mine
      BY <1>1, <2>1 DEF Answers, Moved
    <2>2. CASE lease.mine /\ op \in Renewals
      <3>1. ans = IF lease.deny = "none" THEN "ok" ELSE lease.deny
        BY <1>1, <2>2 DEF Answers, Renewals
      <3>2. QED
        BY <1>5, <2>2, <3>1
    <2>3. CASE lease.mine /\ op = "lookup"
      BY <1>1, <2>3 DEF Answers, Renewals
    <2>4. CASE lease.mine /\ op = "checkpoint"
      BY <1>1, <1>6, <2>4 DEF Answers, Renewals, Moved
    <2>5. CASE lease.mine /\ op \in {"settle", "release"}
      BY <1>1, <2>5 DEF Answers, Renewals
    <2>6. QED
      BY <1>9, <2>1, <2>2, <2>3, <2>4, <2>5 DEF Mutations
  <1>11. /\ lease' \in LeaseRows /\ lease'.deny = lease.deny /\ (lease'.mine => lease.mine)
         /\ (op # "checkpoint" => lease'.seq = lease.seq)
         /\ (op # "settle" => lease'.status = lease.status)
         /\ (op \notin {"settle", "release"} => lease'.mine = lease.mine)
         /\ (op = "settle" /\ ans = "ok" => lease'.status = work.goal /\ ~lease'.mine)
         /\ (op = "settle" /\ ans # "ok" => lease' = lease)
         /\ (op = "release" /\ ans = "ok" => ~lease'.mine)
    <2>1. CASE ans = "ok" /\ op = "checkpoint"
      <3>1. PICK k \in 0..MaxSeq : k = lease.seq + 1
        BY <1>5, <1>6, <2>1 DEF LeaseRows, SessionConstants
      <3>2. lease' = [lease EXCEPT !.seq = k]
        BY <1>1, <2>1, <3>1 DEF Effects
      <3>3. QED
        BY <1>5, <2>1, <3>2 DEF LeaseRows
    <2>2. CASE ans = "ok" /\ op = "settle"
      <3>1. lease' = [lease EXCEPT !.mine = FALSE, !.status = work.goal]
        BY <1>1, <2>2 DEF Effects
      <3>2. QED
        BY <1>5, <1>7, <2>2, <3>1 DEF LeaseRows
    <2>3. CASE ans = "ok" /\ op = "release"
      <3>1. lease' = [lease EXCEPT !.mine = FALSE]
        BY <1>1, <2>3 DEF Effects
      <3>2. QED
        BY <1>5, <2>3, <3>1 DEF LeaseRows
    <2>4. CASE ~(ans = "ok" /\ op \in Mutations)
      <3>1. lease' = lease
        BY <1>1, <2>4 DEF Effects, Mutations
      <3>2. QED
        BY <1>5, <2>4, <3>1 DEF Mutations
    <2>5. QED
      BY <2>1, <2>2, <2>3, <2>4 DEF Mutations
  <1>12. Moved => Moved'
    BY <1>11 DEF Moved
  <1>13. Typed' /\ Chained' /\ InFlight' /\ GoalChosen'
    <2>1. answer' \in AnswerSet
      BY <1>1, <1>10 DEF AnswerSet
    <2>2. QED
      BY <1>2, <1>5, <1>11, <2>1 DEF SessionInv, Typed, LeaseRows, SessionRows, WorkRows, AnswerSet, Chained, Beats, InFlight,
         GoalChosen
  <1>14. AnswerTrue'
    <2>1. answer' = "ok" => ans = "ok"
      BY <1>1
    <2>2. answer' = "gone" => ans = "gone"
      BY <1>1
    <2>3. lease.mine => lease.status = "open"
      BY DEF SessionInv
    <2>4. Head(tail') = op /\ work' = work
      BY <1>2 DEF op
    <2>5. QED
      BY <1>1, <1>5, <1>10, <1>11, <1>12, <2>1, <2>2, <2>3, <2>4 DEF AnswerTrue
  <1>15. SeqKnown' /\ RoomLeft'
    <2>1. Head(tail') = op /\ phase' = "answered" /\ session' = session /\ work' = work
      BY <1>2 DEF op
    <2>2. op # "checkpoint" => lease'.seq = lease.seq
      BY <1>11
    <2>3. QED
      BY <1>5, <2>1, <2>2 DEF SessionInv, SeqKnown, RoomLeft, Checkpointed
  <1>16. (lease.mine => lease.status = "open")'
    BY <1>7, <1>11 DEF SessionInv
  <1>17. Durable(work.outcome)'
    <2>1. op = "settle" => work.outcome \notin Terminals \cup {"released"}
      BY <1>7 DEF Terminals
    <2>2. QED
      BY <1>2, <1>11, <2>1 DEF SessionInv, Durable
  <1>18. (session.lost => Moved)' /\ Sane(session, work.at)' /\ (work.outcome # "none" => work.at = "ended")'
    BY <1>2, <1>12 DEF SessionInv, Sane, Refusal
  <1>19. QED
    BY <1>13, <1>14, <1>15, <1>16, <1>17, <1>18 DEF SessionInv

LEMMA FailStep ==
  ASSUME SessionInv, Fail
  PROVE  SessionInv'
  <1>1. /\ UNCHANGED <<lease, session, work, tail>> /\ phase = "sent" /\ phase' = "answered"
        /\ answer' \in {"unsure", "raised"}
    BY DEF Fail
  <1>2. (Typed /\ Chained /\ InFlight /\ AnswerTrue /\ SeqKnown /\ RoomLeft /\ GoalChosen)'
    BY <1>1 DEF SessionInv, Typed, LeaseRows, SessionRows, WorkRows, AnswerSet, Chained, Beats, InFlight, AnswerTrue,
       SeqKnown, RoomLeft, Checkpointed, GoalChosen
  <1>3. QED
    BY <1>1, <1>2 DEF SessionInv, Sane, Refusal, Moved, Durable

LEMMA ReceiveStep ==
  ASSUME SessionConstants, SessionInv, Receive
  PROVE  SessionInv' /\ EffectStarts
  <1> DEFINE op == Head(tail)
  <1>1. phase = "answered" /\ answer' = "none" /\ UNCHANGED lease /\ tail # <<>>
    BY DEF Receive, SessionInv, InFlight
  <1>2. PICK b \in BOOLEAN : Chain(tail, work.at, b) /\ Beats(session, work.at, b)
    BY DEF SessionInv, Chained
  <1>3. answer' \in AnswerSet /\ answer \in AnswerSet
    BY <1>1 DEF SessionInv, Typed, AnswerSet
  <1>4. \/ op = "beat" /\ b = TRUE /\ Chain(Tail(tail), work.at, FALSE)
        \/ Makes(work.at, op) /\ Tail(tail) = IF b THEN <<"beat">> ELSE <<>>
    BY <1>1, <1>2, Firsts
  <1>5. CASE AsksAgain(op, answer)
    <2>1. phase' = "sent" /\ tail' = <<"relookup">> \o Tail(tail) /\ UNCHANGED <<session, work>>
      BY <1>5 DEF Receive
    <2>2. op = "lookup" /\ work.at = "lookup" /\ Tail(tail) = IF b THEN <<"beat">> ELSE <<>>
      BY <1>4, <1>5 DEF AsksAgain, Makes
    <2>3. tail' = IF b THEN <<"relookup", "beat">> ELSE <<"relookup">>
      <3>1. CASE b
        BY <2>1, <2>2, <3>1, Pairs
      <3>2. CASE ~b
        BY <2>1, <2>2, <3>2, Chains
      <3>3. QED
        BY <3>1, <3>2
    <2>4. Chain(tail', work.at, b) /\ tail' # <<>>
      BY <2>2, <2>3, Chains DEF Chain, Makes, Renewals
    <2>5. Chained' /\ InFlight'
      BY <1>2, <2>1, <2>4 DEF Chained, Beats, InFlight
    <2>6. ~Checkpointed
      BY <2>2 DEF Checkpointed
    <2>7. (Typed /\ AnswerTrue /\ SeqKnown /\ RoomLeft /\ GoalChosen)'
      BY <1>1, <1>3, <2>1, <2>6 DEF SessionInv, Typed, LeaseRows, SessionRows, WorkRows, AnswerSet, AnswerTrue,
         SeqKnown, RoomLeft, GoalChosen
    <2>8. QED
      BY <1>1, <2>1, <2>5, <2>7 DEF SessionInv, Sane, Refusal, Moved, Durable, EffectStarts
  <1>6. ASSUME ~AsksAgain(op, answer)
        PROVE  /\ phase' = "waiting"
               /\ Follow(IF op = "beat" THEN Go(Heard(session, answer), work) ELSE Answered(op, answer, session), Tail(tail))
    BY <1>6 DEF Receive
  <1>7. op # "lookup" /\ answer = "gone" => Moved
    BY <1>1 DEF SessionInv, AnswerTrue
  <1>8. answer # "none"
    BY <1>1 DEF SessionInv, AnswerTrue
  <1>9. CASE op = "beat" /\ b = TRUE /\ Chain(Tail(tail), work.at, FALSE)
    <2>1. phase' = "waiting" /\ session' = Heard(session, answer) /\ work' = work /\ tail' = Tail(tail)
      BY <1>6, <1>9 DEF AsksAgain, Follow, Go
    <2>2. /\ session' \in SessionRows /\ (session'.lost => Moved) /\ session'.seq \in {session.seq, lease.seq}
      BY <1>3, <1>7, <1>8, <1>9, <2>1, HeardTyped
    <2>3. work.at # "start"
      BY <1>2, <1>9 DEF Beats
    <2>4. Beats(session', work.at, FALSE) /\ Sane(session', work.at)
      <3>1. CASE work.at = "ended"
        BY <3>1 DEF Beats, Sane
      <3>2. CASE work.at # "ended"
        <4>1. Going(session, FALSE)
          BY <1>2, <3>2, WorkerFits DEF Going
        <4>2. Fit(session', FALSE)
          BY <1>3, <1>7, <1>8, <1>9, <2>1, <4>1, HeardFits
        <4>3. QED
          BY <2>3, <4>2 DEF Fit, Going, Beats, Sane
      <3>3. QED
        BY <3>1, <3>2
    <2>5. QED
      BY <1>1, <1>3, <1>9, <2>1, <2>2, <2>4, BeatKeeps
  <1>10. CASE ~AsksAgain(op, answer) /\ Makes(work.at, op) /\ Tail(tail) = IF b THEN <<"beat">> ELSE <<>>
    <2>1. op # "beat" /\ work.at # "ended"
      BY <1>10 DEF Makes
    <2>2. Going(session, b) /\ (work.at # "start" => Fit(session, b)) /\ (work.at = "start" => b = FALSE)
      BY <1>2, <2>1, WorkerFits
    <2>3. Sound(Answered(op, answer, session), b)
      <3>1. CASE op = "start"
        <4>1. work.at = "start"
          BY <1>10, <3>1 DEF Makes
        <4>2. QED
          BY <1>3, <1>7, <1>8, <2>2, <3>1, <4>1, StartAnswered
      <3>2. CASE op = "renew"
        <4>1. work.at = "external"
          BY <1>10, <3>2 DEF Makes
        <4>2. QED
          BY <1>3, <1>7, <1>8, <2>2, <3>2, <4>1, RenewAnswered
      <3>3. CASE op \notin {"start", "renew"}
        <4>1. work.at # "start"
          BY <1>10, <3>3 DEF Makes
        <4>2. QED
          BY <1>1, <1>10, <2>2, <3>3, <4>1, CallAnswered
      <3>4. QED
        BY <3>1, <3>2, <3>3
    <2>4. phase' = "waiting" /\ Follow(Answered(op, answer, session), IF b THEN <<"beat">> ELSE <<>>)
      BY <1>6, <1>10, <2>1
    <2> DEFINE r == Answered(op, answer, session)
    <2> HIDE DEF r, op
    <2>5. QED
      BY <1>1, <1>3, <2>3, <2>4, FollowKeeps DEF r
  <1>11. QED
    BY <1>4, <1>5, <1>9, <1>10

\* The worker between its calls.
LEMMA WorkerKeeps ==
  ASSUME SessionInv, NEW r, NEW b \in BOOLEAN, Sound(r, b), Chain(tail, work.at, b), Quiet(work.at), Follow(r, tail), Local
  PROVE  SessionInv' /\ EffectStarts
  <1>1. tail = IF b THEN <<"beat">> ELSE <<>>
    BY QuietTail
  <1>2. UNCHANGED <<lease, phase, answer>>
    BY DEF Local
  <1>3. phase' \in {"waiting", "sent", "answered"} /\ answer' \in AnswerSet
    BY <1>2 DEF SessionInv, Typed
  <1>4. Follow(r, IF b THEN <<"beat">> ELSE <<>>)
    BY <1>1
  <1>5. QED
    BY <1>1, <1>2, <1>3, <1>4, FollowKeeps

LEMMA WorkerStep ==
  ASSUME SessionConstants, SessionInv, Handle \/ EffectReturns \/ Cleanup
  PROVE  SessionInv' /\ EffectStarts
  <1>1. PICK b \in BOOLEAN : Chain(tail, work.at, b) /\ Beats(session, work.at, b)
    BY DEF SessionInv, Chained
  <1>2. Quiet(work.at) /\ work.at \notin {"start", "ended"} /\ Local
    BY DEF Handle, EffectReturns, Cleanup, Quiet
  <1>3. Fit(session, b)
    BY <1>1, <1>2, WorkerFits
  <1>4. \A error : Sound(Thrown(session, error), b)
    BY <1>2, <1>3, ThrownSound
  <1>0. ~Checkpointed
    <2>1. tail = <<>> \/ Head(tail) = "beat"
      BY <1>1, <1>2, QuietTail, Chains
    <2>2. QED
      BY <2>1 DEF Checkpointed, SessionInv, InFlight
  <1>5. \A goal \in Terminals, caught \in BOOLEAN :
          Sound(Settle(session, goal, caught), b) /\ Sound(Honored(session, caught, Settle(session, goal, caught)), b)
          /\ Sound(Honored(session, FALSE, Settle(session, goal, caught)), b)
    BY <1>2, <1>3, SettleSound, HonoredSound
  <1>6. Sound(Honored(session, FALSE, Release(session, FALSE)), b)
    BY <1>2, <1>3, ReleaseSound, HonoredSound
  <1>7. ASSUME NEW r, Sound(r, b), Follow(r, tail) PROVE SessionInv' /\ EffectStarts
    BY <1>1, <1>2, <1>7, WorkerKeeps
  <1>8. {"succeeded", "interrupted"} \subseteq Terminals
    BY DEF Terminals
  <1>9. CASE Handle
    <2>1. session.seq = lease.seq
      BY <1>0, <1>9 DEF Handle, SessionInv, SeqKnown
    <2>2. CASE Follow(Call(session, [work EXCEPT !.at = "external"], "renew"), tail)
      BY <1>2, <1>3, <1>7, <2>1, <2>2, OnwardSound
    <2>3. CASE lease.seq < MaxSeq /\ Follow(Call(session, [work EXCEPT !.at = "checkpoint"], "checkpoint"), tail)
      BY <1>2, <1>3, <1>7, <2>1, <2>3, OnwardSound
    <2>4. CASE Follow(Call(session, [work EXCEPT !.at = "lookup"], "lookup"), tail)
      BY <1>2, <1>3, <1>7, <2>1, <2>4, OnwardSound
    <2>5. CASE \E goal \in {"succeeded", "interrupted"} : Follow(Honored(session, FALSE, Settle(session, goal, FALSE)), tail)
      BY <1>5, <1>7, <1>8, <2>5
    <2>6. CASE Follow(Honored(session, FALSE, Release(session, FALSE)), tail)
      BY <1>6, <1>7, <2>6
    <2>7. CASE Follow(Thrown(session, "handler"), tail)
      BY <1>4, <1>7, <2>7
    <2>8. QED
      BY <1>9, <2>2, <2>3, <2>4, <2>5, <2>6, <2>7 DEF Handle
  <1>10. CASE EffectReturns
    <2>1. CASE Follow(Handling(session), tail)
      <3>1. session.seq = lease.seq
        BY <1>0, <1>10 DEF EffectReturns, SessionInv, SeqKnown
      <3>2. QED
        BY <1>2, <1>3, <1>7, <2>1, <3>1, OnwardSound
    <2>2. CASE \E error \in {"ambiguous", "handler"} : Follow(Thrown(session, error), tail)
      BY <1>4, <1>7, <2>2
    <2>3. QED
      BY <1>10, <2>1, <2>2 DEF EffectReturns
  <1>11. CASE Cleanup
    <2>1. CASE Follow(Call(session, [work EXCEPT !.at = "settle"], "settle"), tail)
      <3> DEFINE w == [work EXCEPT !.at = "settle"]
      <3>1. work \in WorkRows /\ work.outcome = "none" /\ work.goal \in Terminals
        BY <1>2, <1>11 DEF Cleanup, SessionInv, Typed, GoalChosen
      <3>2. w \in WorkRows /\ w.at = "settle" /\ w.outcome = "none" /\ w.goal \in Terminals
        BY <3>1 DEF WorkRows, Places
      <3> HIDE DEF w
      <3>3. Sound(Call(session, w, "settle"), b)
        BY <1>3, <3>2 DEF Call, Sound, Makes, Fit, Going, Doing, Durable, Terminals
      <3>4. QED
        BY <1>7, <2>1, <3>3 DEF w
    <2>2. CASE Follow(IF work.caught THEN Settle(session, "interrupted", TRUE)
                      ELSE Honored(session, TRUE, Settle(session, "interrupted", TRUE)), tail)
      BY <1>5, <1>7, <1>8, <2>2
    <2>3. QED
      BY <1>11, <2>1, <2>2 DEF Cleanup
  <1>12. QED
    BY <1>9, <1>10, <1>11

LEMMA FireStep ==
  ASSUME SessionConstants, SessionInv, FireTimer
  PROVE  SessionInv'
  <1>1. PICK runway \in RunwayAfter(session.runway, session.timer) :
          session' = [[session EXCEPT !.timer = "off"] EXCEPT !.runway = runway]
    BY DEF FireTimer, Fired
  <1>2. session.timer # "off" /\ tail' = Append(tail, "beat") /\ UNCHANGED <<lease, work, phase, answer>>
    BY DEF FireTimer, Local
  <1>3. Chain(tail, work.at, FALSE) /\ work.at # "start"
    BY <1>2 DEF SessionInv, Chained, Beats
  <1>4. session \in SessionRows /\ runway \in 0..Lease
    <2>1. session \in SessionRows /\ session.runway \in 0..Lease /\ session.timer \in {"off", "renew", "retry"}
      BY DEF SessionInv, Typed, SessionRows
    <2>2. QED
      BY <1>1, <2>1 DEF RunwayAfter, SessionConstants
  <1>5. /\ session' \in SessionRows /\ session'.timer = "off" /\ session'.seq = session.seq
        /\ session'.running = session.running /\ session'.aborted = session.aborted /\ session'.lost = session.lost
        /\ session'.handoff = session.handoff /\ session'.shutdown = session.shutdown
        /\ session'.denied = session.denied /\ session'.failed = session.failed
    BY <1>1, <1>4 DEF SessionRows
  <1>6. Refusal(session') = Refusal(session)
    BY <1>5 DEF Refusal
  <1>7. CASE tail = <<>> /\ Quiet(work.at)
    <2>1. tail' = <<"beat">>
      BY <1>2, <1>7, Chains
    <2>2. Chain(tail', work.at, TRUE) /\ tail' # <<>>
      BY <1>7, <2>1 DEF Chain
    <2>3. phase = "waiting"
      BY <1>7 DEF SessionInv, InFlight, Typed
    <2>0. Beats(session', work'.at, TRUE)
      BY <1>2, <1>3, <1>5 DEF Beats
    <2>4. (Typed /\ Chained /\ InFlight /\ AnswerTrue /\ SeqKnown /\ RoomLeft /\ GoalChosen)'
      <3>1. Chained'
        BY <1>2, <2>0, <2>2 DEF Chained
      <3>2. QED
        BY <1>2, <1>5, <1>7, <2>2, <2>3, <3>1 DEF SessionInv, Typed, LeaseRows, WorkRows, AnswerSet, InFlight, AnswerTrue,
           SeqKnown, RoomLeft, Checkpointed, GoalChosen
    <2>5. QED
      BY <1>2, <1>5, <1>6, <2>4 DEF SessionInv, Sane, Moved, Durable
  <1>8. ASSUME NEW op \in Renewals \cup Mutations \cup {"lookup"}, Makes(work.at, op), tail = <<op>>
        PROVE  SessionInv'
    <2>1. tail' = <<op, "beat">> /\ Head(tail') = op /\ Head(tail) = op
      <3>1. tail' = <<op, "beat">>
        BY <1>2, <1>8, Pairs
      <3>2. QED
        BY <1>8, <3>1, Chains
    <2>2. Chain(tail', work.at, TRUE) /\ tail' # <<>>
      BY <1>8, <2>1, Chains DEF Chain
    <2>0. Beats(session', work'.at, TRUE)
      BY <1>2, <1>3, <1>5 DEF Beats
    <2>3. (Typed /\ Chained /\ InFlight /\ GoalChosen)'
      <3>1. Chained'
        BY <1>2, <2>0, <2>2 DEF Chained
      <3>2. QED
        BY <1>2, <1>5, <2>2, <3>1 DEF SessionInv, Typed, LeaseRows, WorkRows, AnswerSet, InFlight, GoalChosen
    <2>4. (AnswerTrue /\ SeqKnown /\ RoomLeft)'
      BY <1>2, <1>5, <2>1 DEF SessionInv, AnswerTrue, SeqKnown, RoomLeft, Checkpointed, Moved
    <2>5. QED
      BY <1>2, <1>5, <1>6, <2>3, <2>4 DEF SessionInv, Sane, Moved, Durable
  <1>9. QED
    BY <1>3, <1>7, <1>8 DEF Chain

LEMMA ControlStep ==
  ASSUME SessionInv, RequestHandoff \/ RequestShutdown
  PROVE  SessionInv'
  <1>1. UNCHANGED <<lease, work, tail, phase, answer>>
    BY DEF RequestHandoff, RequestShutdown, Local
  <1>2. session \in SessionRows
    BY DEF SessionInv, Typed
  <1>3. /\ session' \in SessionRows /\ session'.aborted = TRUE /\ session'.timer = "off" /\ session'.seq = session.seq
        /\ session'.running = session.running /\ session'.lost = session.lost
    <2>1. CASE session' = [[session EXCEPT !.aborted = TRUE] EXCEPT !.handoff = TRUE, !.timer = "off"]
      BY <1>2, <2>1 DEF SessionRows
    <2>2. CASE session' = [[session EXCEPT !.aborted = TRUE] EXCEPT !.shutdown = TRUE, !.handoff = FALSE, !.timer = "off"]
      BY <1>2, <2>2 DEF SessionRows
    <2>3. QED
      BY <2>1, <2>2 DEF RequestHandoff, RequestShutdown, Aborted
  <1>4. (Typed /\ Chained /\ InFlight /\ GoalChosen)'
    BY <1>1, <1>3 DEF SessionInv, Typed, LeaseRows, WorkRows, AnswerSet, Chained, Beats, InFlight, GoalChosen
  <1>5. (AnswerTrue /\ SeqKnown /\ RoomLeft)'
    BY <1>1, <1>3 DEF SessionInv, AnswerTrue, SeqKnown, RoomLeft, Checkpointed, Moved
  <1>6. QED
    BY <1>1, <1>3, <1>4, <1>5 DEF SessionInv, Sane, Moved, Durable

LEMMA WorldStep ==
  ASSUME SessionInv, LeaseMoves \/ Deny
  PROVE  SessionInv'
  <1>1. UNCHANGED <<session, work, tail, phase, answer>>
    BY DEF LeaseMoves, Deny
  <1>2. lease \in LeaseRows
    BY DEF SessionInv, Typed
  <1>3. /\ lease' \in LeaseRows /\ lease'.status = lease.status /\ lease'.seq = lease.seq /\ (lease'.mine => lease.mine)
        /\ (lease.deny # "none" => lease'.deny = lease.deny)
    <2>1. CASE lease' = [lease EXCEPT !.mine = FALSE]
      BY <1>2, <2>1 DEF LeaseRows
    <2>2. CASE lease.deny = "none" /\ \E denial \in Denials : lease' = [lease EXCEPT !.deny = denial]
      BY <1>2, <2>2 DEF LeaseRows
    <2>3. QED
      BY <2>1, <2>2 DEF LeaseMoves, Deny
  <1>4. Moved => Moved'
    BY <1>3 DEF Moved
  <1>5. (Typed /\ Chained /\ InFlight /\ GoalChosen)'
    BY <1>1, <1>3 DEF SessionInv, Typed, SessionRows, WorkRows, AnswerSet, Chained, Beats, InFlight, GoalChosen
  <1>6. (AnswerTrue /\ SeqKnown /\ RoomLeft)'
    BY <1>1, <1>3, <1>4 DEF SessionInv, AnswerTrue, SeqKnown, RoomLeft, Checkpointed
  <1>7. QED
    BY <1>1, <1>3, <1>4, <1>5, <1>6 DEF SessionInv, Sane, Refusal, Durable

-----------------------------------------------------------------------------
(* The theorems. *)

LEMMA StartHolds == ASSUME SessionConstants, Init PROVE SessionInv
  <1>1. lease \in LeaseRows /\ session \in SessionRows /\ work \in WorkRows /\ phase = "waiting" /\ answer \in AnswerSet
    BY DEF Init, SessionConstants, LeaseRows, SessionRows, WorkRows, Places, AnswerSet
  <1>2. Chain(tail, work.at, FALSE) /\ tail # <<>>
    BY Chains DEF Init, Chain, Makes, Renewals
  <1>3. Chained
    BY <1>2 DEF Init, Chained, Beats
  <1>4. Sane(session, work.at)
    BY DEF Init, Sane, Refusal
  <1>5. QED
    BY <1>1, <1>2, <1>3, <1>4 DEF Init, SessionInv, Typed, InFlight, AnswerTrue, SeqKnown, RoomLeft, GoalChosen, Moved, Durable,
       Terminals

LEMMA StepHolds == ASSUME SessionConstants, SessionInv, [Next]_vars PROVE SessionInv' /\ EffectStarts
  <1>1. CASE UNCHANGED vars
    <2>1. (Typed /\ Chained /\ InFlight /\ GoalChosen)'
      BY <1>1 DEF vars, SessionInv, Typed, LeaseRows, SessionRows, WorkRows, AnswerSet, Chained, Beats, InFlight, GoalChosen
    <2>2. (AnswerTrue /\ SeqKnown /\ RoomLeft)'
      BY <1>1 DEF vars, SessionInv, AnswerTrue, SeqKnown, RoomLeft, Checkpointed, Moved
    <2>3. QED
      BY <1>1, <2>1, <2>2 DEF vars, SessionInv, Sane, Refusal, Moved, Durable, EffectStarts
  <1>2. CASE Next
    <2>1. Send \/ Execute \/ Fail \/ FireTimer \/ RequestHandoff \/ RequestShutdown \/ LeaseMoves \/ Deny => work' = work
      BY DEF Send, Execute, Fail, FireTimer, RequestHandoff, RequestShutdown, LeaseMoves, Deny
    <2>2. work' = work => EffectStarts
      BY DEF EffectStarts
    <2>3. QED
      BY <1>2, <2>1, <2>2, SendStep, RefuseStep, ExecuteStep, FailStep, ReceiveStep, WorkerStep, FireStep, ControlStep,
         WorldStep DEF Next
  <1>3. QED
    BY <1>1, <1>2

\* The inductive invariant holds in every behaviour of an execution.
THEOREM SessionHolds == ASSUME SessionConstants PROVE Spec => []SessionInv
  <1>1. Init => SessionInv
    BY StartHolds
  <1>2. SessionInv /\ [Next]_vars => SessionInv'
    BY StepHolds
  <1>3. QED
    BY <1>1, <1>2, PTL DEF Spec

\* Every variable has the shape of the field it stands for, and at most one call
\* of the worker and one heartbeat are ever chained.
THEOREM SessionTyped == ASSUME SessionConstants PROVE Spec => []TypeOK
  <1>1. SessionInv => TypeOK
    <2> SUFFICES ASSUME SessionInv PROVE TypeOK
      OBVIOUS
    <2>1. PICK b \in BOOLEAN : Chain(tail, work.at, b)
      BY DEF SessionInv, Chained
    <2>2. /\ tail \in UNION {[1..n -> Renewals \cup Mutations \cup {"lookup"}] : n \in 0..2}
          /\ Len(tail) = 2 => (tail[1] = "beat") # (tail[2] = "beat")
      BY <2>1, ChainTyped
    <2>3. QED
      BY <2>2 DEF SessionInv, Typed, TypeOK, LeaseRows, SessionRows, WorkRows, Places, AnswerSet
  <1>2. QED
    BY <1>1, SessionHolds, PTL

\* What a session reports is what the database holds; it gives a fence up only
\* when the database moved it or a deadline has passed; and while its worker goes
\* on, its heartbeat is set or on its way.
THEOREM SessionTruthful == ASSUME SessionConstants PROVE Spec => []SessionTellsTheTruth
  <1>1. SessionInv => SessionTellsTheTruth
    <2> SUFFICES ASSUME SessionInv PROVE SessionTellsTheTruth
      OBVIOUS
    <2>1. PICK b \in BOOLEAN : Chain(tail, work.at, b) /\ Beats(session, work.at, b)
      BY DEF SessionInv, Chained
    <2>2. b => \E i \in DOMAIN tail : tail[i] = "beat"
      BY <2>1, ChainTyped
    <2>3. HeartbeatNeverSilent
      BY <2>1, <2>2 DEF Beats, HeartbeatNeverSilent
    <2>4. OutcomeIsDurable /\ LostMeansMoved
      BY DEF SessionInv, Durable, Moved, OutcomeIsDurable, LostMeansMoved
    <2>5. QED
      BY <2>3, <2>4 DEF SessionTellsTheTruth
  <1>2. QED
    BY <1>1, SessionHolds, PTL

\* No external effect starts in a session that was asked to stop or lost its
\* authority: neither the request nor the last renewal can slip in between.
THEOREM EffectsAuthorized == ASSUME SessionConstants PROVE Spec => EffectsStartAuthorized
  <1>1. ASSUME SessionInv, SessionInv', Next, work.at # "effect", work'.at = "effect"
        PROVE  ~session'.aborted /\ Refusal(session') = "none"
    <2>1. Sane(session', work'.at)
      BY <1>1 DEF SessionInv, Sane, Refusal
    <2>2. ~session'.aborted
      BY <1>1, StepHolds DEF EffectStarts
    <2>3. QED
      BY <1>1, <2>1, <2>2 DEF Sane
  <1>2. SessionInv /\ SessionInv' /\ [Next]_vars
          => [work.at # "effect" /\ work'.at = "effect" => ~session'.aborted /\ Refusal(session') = "none"]_vars
    BY <1>1
  <1>3. QED
    BY <1>2, SessionHolds, PTL DEF Spec, EffectsStartAuthorized

\* A session that was handed over sends nothing that changes the work.
THEOREM HandoffSettles == ASSUME SessionConstants PROVE Spec => HandoffSettlesNothing
  <1>1. ASSUME Next, phase = "waiting", phase' = "sent", session.handoff PROVE Head(tail) \notin Mutations
    <2>1. Send
      <3>1. Refuse \/ Handle \/ EffectReturns \/ Cleanup \/ FireTimer \/ RequestHandoff \/ RequestShutdown \/ LeaseMoves \/ Deny
              => phase' = phase
        BY DEF Refuse, Handle, EffectReturns, Cleanup, FireTimer, RequestHandoff, RequestShutdown, LeaseMoves, Deny, Local
      <3>2. ~Execute /\ ~Fail /\ ~Receive
        BY <1>1 DEF Execute, Fail, Receive
      <3>3. QED
        BY <1>1, <3>1, <3>2 DEF Next
    <2>2. RefusalOf(Head(tail), session) = "handoff"
      BY <1>1 DEF RefusalOf, EndRefusal, Refusal
    <2>3. QED
      BY <2>1, <2>2 DEF Send
  <1>2. [Next]_vars => [phase = "waiting" /\ phase' = "sent" /\ session.handoff => Head(tail) \notin Mutations]_vars
    BY <1>1
  <1>3. QED
    BY <1>2, PTL DEF Spec, HandoffSettlesNothing
=============================================================================
