------------------------- MODULE NotificationOutbox -------------------------
(***************************************************************************)
(* The notifications of a workspace on their way to phones: the registered *)
(* installations, the deliveries queued for them, and the workers that     *)
(* claim deliveries and send them to APNs.  apnsSupervisor,                *)
(* companionNotifications and the functions of migrations 0124 and 0136.   *)
(*                                                                         *)
(* A sender keeps a transaction, with advisory locks on the installation   *)
(* and on the token its row has, open while it waits for APNs.             *)
(***************************************************************************)
EXTENDS Integers, FiniteSets

CONSTANTS Workers,        \* processes that run the APNs supervisor
          Installations,  \* installation ids of the app
          Users,          \* members who sign in on them
          MaxTokens,      \* bound: tokens APNs gives
          MaxEvents,      \* bound: events that notify somebody
          MaxMishaps      \* bound: crashes and failed transactions

VARIABLES device,    \* device[i]: the companion_notification_devices row of i
          delivery,  \* the companion_notification_deliveries rows
          jobs,      \* claims in the memory of the workers
          busy,      \* the workers whose batch runs
          phone,     \* phone[i]: the token of the app installed as i; 0: not yet installed, -1: no longer
          tokens, events, mishaps

vars == <<device, delivery, jobs, busy, phone, tokens, events, mishaps>>

NoDevice == [user |-> "none", token |-> 0, on |-> FALSE]
Init == /\ device = [i \in Installations |-> NoDevice] /\ phone = [i \in Installations |-> 0]
        /\ delivery = {} /\ jobs = {} /\ busy = {} /\ tokens = 0 /\ events = 0 /\ mishaps = 0

Mishap == mishaps < MaxMishaps /\ mishaps' = mishaps + 1
-----------------------------------------------------------------------------
(* Phones and installations. *)

\* An app is installed, or APNs changes its token.
NewToken(i) == /\ tokens < MaxTokens /\ phone[i] # -1 /\ tokens' = tokens + 1 /\ phone' = [phone EXCEPT ![i] = tokens + 1]
               /\ UNCHANGED <<device, delivery, jobs, busy, events, mishaps>>
\* The app is installed anew on the phone: another installation id, the same token.
Reinstalls(i, j) == /\ phone[i] > 0 /\ phone[j] = 0 /\ phone' = [phone EXCEPT ![i] = -1, ![j] = phone[i]]
                    /\ UNCHANGED <<device, delivery, jobs, busy, tokens, events, mishaps>>

\* Fault: there is a lock on the installation only.
FaultLocked(i, token) == \E j \in jobs : j.at = "sending" /\ j.inst = i
Locked(i, token) == \E j \in jobs : j.at = "sending" /\ (j.inst = i \/ j.lock = token)

\* The installations a registration takes the locks of.
Affected(i, token) == {i} \union {k \in Installations : device[k].token = token}

\* companion_api_register_notification_device, at a launch with u signed in.
Register(i, u) ==
  LET token == phone[i]
      taken == {k \in Installations \ {i} : device[k].token = token}
  IN /\ token > 0
     /\ ~Locked(i, token) /\ \A k \in Affected(i, token) : ~Locked(k, device[k].token)
     /\ device' = [k \in Installations |-> IF k = i THEN [user |-> u, token |-> token, on |-> TRUE]
                                           ELSE IF k \in taken THEN NoDevice ELSE device[k]]
     /\ delivery' = {d \in delivery : d.inst \notin taken /\ (d.inst # i \/ device[i].user = u)}
     /\ UNCHANGED <<jobs, busy, phone, tokens, events, mishaps>>

\* companion_api_unregister_notification_device: the member signs out.
Unregister(i) == /\ device[i] # NoDevice /\ ~Locked(i, device[i].token)
                 /\ device' = [device EXCEPT ![i] = NoDevice] /\ delivery' = {d \in delivery : d.inst # i}
                 /\ UNCHANGED <<jobs, busy, phone, tokens, events, mishaps>>

\* A membership ends: its rows go with it, whoever sends.
MembershipEnds(u) == /\ \E i \in Installations : device[i].user = u
                     /\ device' = [i \in Installations |-> IF device[i].user = u THEN NoDevice ELSE device[i]]
                     /\ delivery' = {d \in delivery : d.rcpt # u}
                     /\ UNCHANGED <<jobs, busy, phone, tokens, events, mishaps>>
-----------------------------------------------------------------------------
(* Deliveries. *)

Becomes(d, e) == delivery' = (delivery \ {d}) \union {e}

\* companion_notification_enqueue.
Notify(u) == /\ events < MaxEvents /\ events' = events + 1
             /\ delivery' = delivery \union
                  {[inst |-> i, key |-> events + 1, rcpt |-> u, allowed |-> TRUE, old |-> FALSE,
                    due |-> TRUE, claim |-> 0, live |-> FALSE] : i \in {k \in Installations : device[k].user = u /\ device[k].on}}
             /\ UNCHANGED <<device, jobs, busy, phone, tokens, mishaps>>
\* The member mutes the Companion.
Mute(u) == /\ \E d \in delivery : d.rcpt = u
           /\ delivery' = {d \in delivery : d.rcpt # u}
           /\ UNCHANGED <<device, jobs, busy, phone, tokens, events, mishaps>>
\* The member may not read the Companion any more.
AccessEnds(u) == /\ \E d \in delivery : d.rcpt = u /\ d.allowed
                 /\ delivery' = {IF d.rcpt = u THEN [d EXCEPT !.allowed = FALSE] ELSE d : d \in delivery}
                 /\ UNCHANGED <<device, jobs, busy, phone, tokens, events, mishaps>>
Passes(d) == /\ \/ ~d.old /\ Becomes(d, [d EXCEPT !.old = TRUE])
                \/ ~d.due /\ Becomes(d, [d EXCEPT !.due = TRUE])
                \/ d.live /\ Becomes(d, [d EXCEPT !.live = FALSE])
             /\ UNCHANGED <<device, jobs, busy, phone, tokens, events, mishaps>>
-----------------------------------------------------------------------------
(* Workers. *)

Authorized(d) == d.allowed /\ device[d.inst].on
\* Claim tokens are random: one nobody has.
Fresh == CHOOSE n \in 1..(Cardinality(jobs) + Cardinality(delivery) + 1) :
           /\ \A j \in jobs : j.claim # n
           /\ \A d \in delivery : d.claim # n

\* companion_claim_notification_deliveries_v2: drops what is too old or may not be sent, claims the rest.
Claim(w) ==
  LET free == {d \in delivery : d.due /\ ~d.live}
      dropped == {d \in delivery : d.old} \union {d \in free : ~Authorized(d)}
      taken == free \ dropped
  IN /\ w \notin busy /\ taken \union dropped # {}
     /\ delivery' = (delivery \ (dropped \union taken)) \union {[d EXCEPT !.claim = Fresh, !.live = TRUE] : d \in taken}
     /\ jobs' = jobs \union {[worker |-> w, inst |-> d.inst, key |-> d.key, rcpt |-> d.rcpt, claim |-> Fresh,
                              token |-> device[d.inst].token, at |-> "queued", lock |-> 0] : d \in taken}
     /\ busy' = IF taken = {} THEN busy ELSE busy \union {w}
     /\ UNCHANGED <<device, phone, tokens, events, mishaps>>

Mine(j) == {d \in delivery : d.inst = j.inst /\ d.key = j.key /\ d.claim = j.claim}
To(j, k) == jobs' = (jobs \ {j}) \union {k} /\ UNCHANGED busy
\* The job ends; the batch ends with its last one.
Ends(j) == /\ jobs' = jobs \ {j}
           /\ busy' = IF \E k \in jobs \ {j} : k.worker = j.worker THEN busy ELSE busy \ {j.worker}

\* companion_validate_notification_delivery reads the row's token, waits for the locks
\* and looks again.  What it refuses is deleted.
Read(j) ==
  /\ j.at = "queued"
  /\ IF Mine(j) = {} THEN Ends(j) ELSE To(j, [j EXCEPT !.at = "locking", !.lock = device[j.inst].token])
  /\ UNCHANGED <<device, delivery, phone, tokens, events, mishaps>>
Validate(j) ==
  /\ j.at = "locking" /\ ~Locked(j.inst, j.lock)
  /\ IF \E d \in Mine(j) : d.live /\ ~d.old /\ Authorized(d)
       THEN To(j, [j EXCEPT !.at = "sending"]) /\ UNCHANGED delivery
       ELSE Ends(j) /\ delivery' = delivery \ Mine(j)
  /\ UNCHANGED <<device, phone, tokens, events, mishaps>>

\* The rows the settling functions act on: a claim that expired settles nothing.
Held(j) == {d \in Mine(j) : d.live}
Settles(j) == j.at = "sending" /\ Ends(j) /\ UNCHANGED <<phone, tokens, events, mishaps>>
\* APNs took the notification, or refuses it for good.
Complete(j) == Settles(j) /\ delivery' = delivery \ Held(j) /\ UNCHANGED device
\* APNs cannot take it now, or does not answer in time.
Defer(j) == /\ Settles(j) /\ UNCHANGED device
            /\ delivery' = (delivery \ Held(j)) \union {[d EXCEPT !.due = FALSE, !.claim = 0, !.live = FALSE] : d \in Held(j)}
\* APNs does not know the token.
Invalidate(j) ==
  /\ Settles(j) /\ \A i \in Installations : phone[i] # j.token
  /\ IF Held(j) = {} THEN UNCHANGED <<device, delivery>>
     ELSE /\ device' = [device EXCEPT ![j.inst].on = FALSE]
          /\ delivery' = {d \in delivery : d.inst # j.inst}

\* A transaction fails: the batch counts as ended, and its other jobs go on.
Fails(j) == /\ Mishap /\ jobs' = jobs \ {j} /\ busy' = busy \ {j.worker}
            /\ UNCHANGED <<device, delivery, phone, tokens, events>>
Crash(w) == /\ \E j \in jobs : j.worker = w
            /\ Mishap /\ jobs' = {j \in jobs : j.worker # w} /\ busy' = busy \ {w}
            /\ UNCHANGED <<device, delivery, phone, tokens, events>>

Works(j) == Read(j) \/ Validate(j) \/ Complete(j) \/ Defer(j) \/ Invalidate(j)
Next == \/ \E i \in Installations : NewToken(i) \/ Unregister(i) \/ (\E j \in Installations : Reinstalls(i, j))
        \/ \E u \in Users : MembershipEnds(u) \/ Notify(u) \/ Mute(u) \/ AccessEnds(u) \/ (\E i \in Installations : Register(i, u))
        \/ \E d \in delivery : Passes(d)
        \/ \E j \in jobs : Works(j) \/ Fails(j)
        \/ \E w \in Workers : Claim(w) \/ Crash(w)
Spec == Init /\ [][Next]_vars
-----------------------------------------------------------------------------
\* While a notification is sent, neither its installation nor the phone it goes to is
\* registered to anybody but its recipient: a preview reaches no other account.
SentToRecipientOnly ==
  \A j \in jobs : j.at = "sending" =>
    \A i \in Installations : i = j.inst \/ device[i].token = j.token => device[i].user \in {j.rcpt, "none"}

(* What the code does not keep. *)

\* A worker's finding that a token is dead disables no installation whose row has a live one.
LiveInstallationStaysOn ==
  [][\A i \in Installations : device[i].on /\ ~device'[i].on /\ device'[i].token # 0 => phone[i] # device[i].token]_vars

\* A delivery that may be sent is dropped only by its member or when APNs settled it.
NothingDroppedUnsent ==
  [][\A j \in jobs : j.at = "locking" /\ j \notin jobs' =>
       \A d \in Mine(j) : d.old \/ ~Authorized(d) \/ d \in delivery']_vars
=============================================================================
