--------------------------- MODULE MCCompanionBox ---------------------------
(* Instances for TLC of the modules about one Companion's Box.  They share   *)
(* no state, so each behaviour follows one of them, the part, chosen at its  *)
(* start: a run explores the sum of their state spaces and not the product.  *)
EXTENDS BoxLifecycle, Sequences

CONSTANTS MaxInvocations, SegmentRecords, PageRecords, MaxRecords,
          Tokenless, MaxRevision, MaxRequests, MaxMishaps

ASSUME PartsAssumption ==
  /\ MaxInvocations \in Nat /\ SegmentRecords \in Nat \ {0} /\ PageRecords \in Nat \ {0} /\ MaxRecords \in Nat
  /\ Tokenless \in BOOLEAN /\ MaxRevision \in Nat \ {0} /\ MaxRequests \in Nat /\ MaxMishaps \in Nat

VARIABLES part,
          journalFiles, ackFile, latest, broker, reader,
          desired, row, work_op, queue, claim, lease, mem, calls, files, pi, requests, mishaps

J == INSTANCE PiJournal WITH files <- journalFiles
A == INSTANCE PiActivation WITH op <- work_op, asked <- queue, held <- lease, late <- calls
journal == <<journalFiles, ackFile, latest, broker, reader>>
activation == <<desired, row, work_op, queue, claim, lease, mem, calls, files, pi, requests, mishaps>>
box_vars == <<part, vars, journal, activation>>

BoxInit == part \in {"lifecycle", "journal", "activation"} /\ Init /\ J!Init /\ A!Init
BoxNext == \/ part = "lifecycle" /\ Next /\ UNCHANGED <<part, journal, activation>>
           \/ part = "journal" /\ J!Next /\ UNCHANGED <<part, vars, activation>>
           \/ part = "activation" /\ A!Next /\ UNCHANGED <<part, vars, journal>>

\* FairSpec of BoxLifecycle and of PiActivation.
InLifecycle(Step) == part = "lifecycle" /\ Step /\ UNCHANGED <<part, journal, activation>>
InActivation(Step) == part = "activation" /\ Step /\ UNCHANGED <<part, vars, journal>>
BoxSpec == /\ BoxInit /\ [][BoxNext]_box_vars
           /\ WF_box_vars(InLifecycle(Executor)) /\ WF_box_vars(InLifecycle(Claims))
           /\ WF_box_vars(InLifecycle(Ages)) /\ WF_box_vars(InLifecycle(Progresses))
           /\ WF_box_vars(InActivation(A!Executor)) /\ WF_box_vars(InActivation(A!Claims))
           /\ WF_box_vars(InActivation(A!BackoffEnds))

\* One create is sent for a Start, and no Box of the Companion is beside the recorded one.
OneBoxPerCompanion == NamedIsRecorded /\ OnePostPerStart
\* Whatever point of its file work the daemon dies at, the next one starts, a cursor the
\* broker gave out stays valid for the attempt that owns the invocation, and an attempt
\* projects every record after its first cursor once, in order.
JournalSurvives == J!AlwaysRecovers /\ J!CursorsStayValid /\ J!ReadsEveryRecord
\* The journal implements a durable log.
ImplementsDurableLog == J!ImplementsDurableLog
\* A proven daemon that runs has the live credentials and the applied settings.
ProvenPiIsCurrent == A!ProvenPiIsCurrent
\* The recorded invocation becomes the one that runs, and changed settings are applied.
ActivationConverges == A!IdentityConverges /\ (part = "activation" => A!SettingsConverge)
=============================================================================
