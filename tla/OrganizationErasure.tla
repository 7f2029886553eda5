------------------------- MODULE OrganizationErasure -------------------------
(***************************************************************************)
(* The erasure of an organization, composed with its snapshot runs.        *)
(*                                                                         *)
(* deleteOrgDataImpl posts to the consumer until it answers that ingestion *)
(* is drained (eraseOrganization), and only then deletes the rows in       *)
(* Tinybird.  Each post runs eraseAgentOrganization: it closes ingestion,  *)
(* looks for the end of the Copy that is owed, gives up the generation     *)
(* once none is, and asks the coordinator whether everything is drained.   *)
(* Each call is a step; its reply may be lost, and then the post fails and *)
(* somebody starts the deletion again.                                     *)
(*                                                                         *)
(* The dead letters and stored bodies that are deleted after the drain are *)
(* in DeadLetterErasure.                                                   *)
(***************************************************************************)
EXTENDS SnapshotRunner

VARIABLE erase  \* the post in progress; at is "done" once it answered ready

erasureVars == <<runnerVars, erase>>

-----------------------------------------------------------------------------
NoIntent == [generation |-> 0, target |-> 0, attempt |-> 0, job |-> NoJob]
NoPost == [at |-> "idle", intent |-> NoIntent, job |-> NoJob, status |-> "none"]

Post == [at : {"idle", "list", "discover", "attach", "settle", "state",
               "abandon", "state again", "done"},
         intent : Intent \cup {NoIntent},
         job : Jobs \cup {NoJob},
         status : {"none", "done", "error"}]

ErasureTypeOK == RunnerTypeOK /\ erase \in Post

ErasureInit == RunnerInit /\ erase = NoPost

(* The call was executed; its reply arrives, or the post fails. *)
Replied(next) ==
  \/ erase' = next /\ UNCHANGED faults
  \/ erase' = NoPost /\ Faulty
Proceeds(place) == Replied([erase EXCEPT !.at = place])
PostFails == erase' = NoPost /\ UNCHANGED faults

OnlyPost == UNCHANGED <<vars, run, jobs, manifests, owing, repaired>>
OnlyCoordinator == UNCHANGED <<run, jobs, manifests, owing, repaired>>

-----------------------------------------------------------------------------
BeginErase ==
  /\ erase.at = "idle"
  /\ BeginErasure
  /\ Proceeds("list")
  /\ OnlyCoordinator

(* settleOutstandingSnapshotCopies: one Copy is owed at most. *)
ListIntents ==
  /\ erase.at = "list"
  /\ \/ intents = {} /\ Proceeds("state")
     \/ \E i \in intents : Replied([erase EXCEPT !.at = "discover", !.intent = i])
  /\ OnlyPost

FoundJobs == {j \in jobs : Matches(j, erase.intent)}

\* Variant with a bug: a Copy that was found is taken for ended.
FoundIsEnded(j) == NotFailed(j)
EndOf(j) == Status(j)

AfterFound(j) ==
  IF erase.intent.job = NoJob THEN "attach"
  ELSE IF EndOf(j) = "none" THEN "state" ELSE "settle"

(* jobs_log may not show the job yet, and without one nothing is settled. *)
DiscoverErased ==
  /\ erase.at = "discover"
  /\ \/ FoundJobs = {} /\ Proceeds("state")
     \/ FoundJobs # {} /\ erase' = [erase EXCEPT !.at = "state"] /\ Faulty
     \/ \E j \in FoundJobs :
          /\ FoundJobs = {j}
          /\ Replied([erase EXCEPT !.at = AfterFound(j), !.job = j.id,
                                   !.status = EndOf(j)])
     \/ Cardinality(FoundJobs) > 1 /\ PostFails
  /\ OnlyPost

StillOwed == \E i \in intents : Matches(i, erase.intent)

AttachErased ==
  /\ erase.at = "attach"
  /\ \/ /\ StillOwed /\ AttachErasureCopyJob(erase.job)
        /\ Proceeds(IF erase.status = "none" THEN "state" ELSE "settle")
     \/ /\ ~\E i \in intents : /\ Matches(i, erase.intent)
                               /\ i.job \in {erase.job, NoJob}
        /\ PostFails /\ UNCHANGED vars
  /\ OnlyCoordinator

SettleErased ==
  /\ erase.at = "settle"
  /\ \/ StillOwed /\ SettleErasureCopyIntent(erase.job) /\ Proceeds("state")
     \/ /\ ~\E i \in intents : Matches(i, erase.intent) /\ i.job = erase.job
        /\ PostFails /\ UNCHANGED vars
  /\ OnlyCoordinator

(* What the coordinator answers, after it tidied up. *)
\* Variant with a bug: the generation is given up only when all is drained.
AbandonsWhenReady == ErasureReady' /\ gate'.phase = "snapshot"
NeedsAbandon == gate'.phase = "snapshot" /\ intents' = {}

ReadErasure ==
  /\ erase.at = "state"
  /\ GetErasureState
  /\ Proceeds(IF NeedsAbandon THEN "abandon"
              ELSE IF ErasureReady' THEN "done" ELSE "idle")
  /\ OnlyCoordinator

AbandonErased ==
  /\ erase.at = "abandon"
  /\ \/ AbandonErasureSnapshot /\ Proceeds("state again")
     \/ gate.phase # "snapshot" /\ PostFails /\ UNCHANGED vars
  /\ OnlyCoordinator

ReadErasureAgain ==
  /\ erase.at = "state again"
  /\ GetErasureState
  /\ Proceeds(IF ErasureReady' THEN "done" ELSE "idle")
  /\ OnlyCoordinator

ErasePost ==
  \/ BeginErase \/ ListIntents \/ DiscoverErased \/ AttachErased
  \/ SettleErased \/ ReadErasure \/ AbandonErased \/ ReadErasureAgain

ErasureNext ==
  \/ RunnerNext /\ UNCHANGED erase
  \/ ErasePost

ErasureSpec == ErasureInit /\ [][ErasureNext]_erasureVars

(* A deletion that failed is started again; the rest is as for the runs. *)
FairErasureSpec ==
  /\ ErasureSpec
  /\ RunnerFairness
  /\ WF_erasureVars(erase.at # "idle" /\ ErasePost)
  /\ WF_erasureVars(erasing /\ BeginErase)

-----------------------------------------------------------------------------
(* Properties *)

(* Once the coordinator reports ready no Copy of the organization runs or  *)
(* is about to be started, so none can bring deleted rows back: not by a   *)
(* run that stalled, nor by a job whose start nobody heard of              *)
(* (settleOutstandingSnapshotCopies against recordSnapshotCopyIntent).     *)
ErasedIsQuiet ==
  /\ ErasureTypeOK
  /\ ErasureReady => /\ \A j \in jobs : j.status # "working"
                     /\ \A c \in Claims : ~At(c, "start")

(* An erasure that was begun drains, unless a Copy is owed that was        *)
(* announced and never seen by Tinybird, which only an operator may judge. *)
UnknownCopyOwed ==
  \E i \in intents : i.job = NoJob /\ \A j \in jobs : ~Matches(j, i)
ErasureDrains == erasing ~> erase.at = "done" \/ UnknownCopyOwed
=============================================================================
