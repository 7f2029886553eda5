-------------------------- MODULE DeadLetterErasure --------------------------
(***************************************************************************)
(* The shared store of agent dead letters while one organization is being  *)
(* erased.                                                                 *)
(*                                                                         *)
(* The consumer of the dead letter queue preserves messages one by one,    *)
(* asking before and after whether the organization is being erased.  The  *)
(* deletion posts to eraseAgentOrganization until it answers ready; once   *)
(* ingestion is drained each post discards one page of the organization's  *)
(* dead letters and, after the last page, deletes one page of its stored   *)
(* bodies.  The replies of any call may be lost: the queue then delivers   *)
(* the message again, and the deletion is started again from the first     *)
(* page.  How ingestion drains is in OrganizationErasure.                  *)
(***************************************************************************)
EXTENDS Integers, FiniteSets, FiniteSetsExt

CONSTANTS
  Messages,   \* messages of the dead letter queue
  OurMessages,\* those the sweep attributes to the organization that is erased
  OffContract,\* those that are not agent ingest messages
  Bodies,     \* its stored bodies
  Limit,      \* 100: records per page of the sweep
  BodyLimit,  \* 1000: objects per page of a listing
  MaxFaults   \* bound: lost calls and replies

ASSUME DeadLetterAssumption ==
  /\ OurMessages \subseteq Messages /\ OffContract \subseteq Messages
  /\ IsFiniteSet(Bodies)
  /\ Limit \in Nat \ {0} /\ BodyLimit \in Nat \ {0} /\ MaxFaults \in Nat

VARIABLES
  place,    \* where each message is with its consumer
  records,  \* the dead letters stored: [id, message]
  nextId,   \* AUTOINCREMENT
  phase,    \* of the organization: "live", "erasing", "drained"
  stored,   \* bodies in the bucket
  post,     \* the deletion: [at, after, pages]
  early,    \* ghost: ids stored before the erasure began
  faults

vars == <<place, records, nextId, phase, stored, post, early, faults>>

-----------------------------------------------------------------------------
NoPost == [at |-> "idle", after |-> 0]

TypeOK ==
  /\ place \in [Messages -> {"queued", "accepted", "preserved", "unwanted",
                             "acked"}]
  /\ records \subseteq [id : Nat, message : Messages]
  /\ nextId \in Nat \ {0}
  /\ phase \in {"live", "erasing", "drained"}
  /\ stored \subseteq Bodies
  /\ post \in [at : {"idle", "sweep", "bodies", "pause", "done"}, after : Nat]
  /\ early \subseteq Nat
  /\ faults \in 0..MaxFaults

Init ==
  /\ place = [m \in Messages |-> "queued"]
  /\ records = {} /\ nextId = 1
  /\ phase = "live"
  /\ stored = Bodies
  /\ post = NoPost
  /\ early = {}
  /\ faults = 0

Faulty == faults < MaxFaults /\ faults' = faults + 1
Started(m) == m \in OurMessages /\ phase # "live"
Move(m, to) == place' = [place EXCEPT ![m] = to]

-----------------------------------------------------------------------------
(* The consumer *)

(* The call was executed; without its reply the message is retried. *)
Replied(m, to) == \/ Move(m, to) /\ UNCHANGED faults
                  \/ Move(m, "queued") /\ Faulty

(* The consumer asks about the erasure only for a body that is on contract *)
(* (validateAgentIngestQueueMessage), while the sweep may attribute any    *)
(* letter to an organization (dlqPayloadOrgId).                            *)
SeenErased(m) == m \notin OffContract /\ Started(m)

(* excludeErasedDeadLetters *)
Exclude(m) ==
  /\ place[m] = "queued"
  /\ Move(m, IF SeenErased(m) THEN "acked" ELSE "accepted")
  /\ UNCHANGED <<records, nextId, phase, stored, post, early, faults>>

(* preserveDlq keeps one record per message. *)
Preserve(m) ==
  /\ place[m] = "accepted"
  /\ Replied(m, "preserved")
  /\ IF \E r \in records : r.message = m
       THEN UNCHANGED <<records, nextId, early>>
       ELSE /\ records' = records \cup {[id |-> nextId, message |-> m]}
            /\ nextId' = nextId + 1
            /\ early' = IF phase = "live" THEN early \cup {nextId} ELSE early
  /\ UNCHANGED <<phase, stored, post>>

(* The second look at the erasure, or the acknowledgement without one. *)
LookAgain(m) ==
  /\ place[m] = "preserved"
  /\ Replied(m, IF SeenErased(m) THEN "unwanted" ELSE "acked")
  /\ UNCHANGED <<records, nextId, phase, stored, post, early>>

(* discardDlq throws when the sweep has taken the record already. *)
DiscardOne(m) ==
  /\ place[m] = "unwanted"
  /\ \/ /\ \E r \in records : r.message = m
        /\ records' = {r \in records : r.message # m}
        /\ Replied(m, "acked")
     \/ /\ \A r \in records : r.message # m
        /\ Move(m, "queued") /\ UNCHANGED <<records, faults>>
  /\ UNCHANGED <<nextId, phase, stored, post, early>>

-----------------------------------------------------------------------------
(* The deletion *)

BeginErasure ==
  /\ phase = "live"
  /\ phase' = "erasing"
  /\ UNCHANGED <<place, records, nextId, stored, post, early, faults>>

(* The coordinator reports ready. *)
Drain ==
  /\ phase = "erasing"
  /\ phase' = "drained"
  /\ UNCHANGED <<place, records, nextId, stored, post, early, faults>>

PostReplies(next) == \/ post' = next /\ UNCHANGED faults
                     \/ post' = NoPost /\ Faulty

StartPost ==
  /\ post.at \in {"idle", "pause"} /\ phase = "drained"
  /\ post' = [post EXCEPT !.at = "sweep"]
  /\ UNCHANGED <<place, records, nextId, phase, stored, early, faults>>

(* discardOrganization: the first Limit records after the cursor, whoever  *)
(* they belong to.                                                         *)
After(after) == {r \in records : r.id > after}
Page ==
  {r \in After(post.after) :
     Cardinality({s \in After(post.after) : s.id < r.id}) < Limit}
LastId(page) == Max({r.id : r \in page})
Discarded(page) == {r \in page : r.message \in OurMessages}

\* Variant with a bug: a page without a letter of ours ends the sweep.
MoreOfOurs == Cardinality(After(post.after)) > Limit /\ Discarded(Page) # {}
MorePages == Cardinality(After(post.after)) > Limit

SweepPage ==
  /\ post.at = "sweep"
  /\ records' = records \ Discarded(Page)
  /\ PostReplies(IF MorePages THEN [at |-> "pause", after |-> LastId(Page)]
                              ELSE [post EXCEPT !.at = "bodies"])
  /\ UNCHANGED <<place, nextId, phase, stored, early>>

(* One page of objects; the post is ready when the listing was complete.   *)
DeleteBodies ==
  /\ post.at = "bodies"
  /\ \E page \in SUBSET stored :
       /\ Cardinality(page) = IF Cardinality(stored) > BodyLimit
                                THEN BodyLimit ELSE Cardinality(stored)
       /\ stored' = stored \ page
  /\ PostReplies([post EXCEPT !.at = IF Cardinality(stored) > BodyLimit
                                       THEN "pause" ELSE "done"])
  /\ UNCHANGED <<place, records, nextId, phase, early>>

Next ==
  \/ \E m \in Messages : Exclude(m) \/ Preserve(m) \/ LookAgain(m) \/ DiscardOne(m)
  \/ BeginErasure \/ Drain \/ StartPost \/ SweepPage \/ DeleteBodies

Spec == Init /\ [][Next]_vars

-----------------------------------------------------------------------------
(* Properties *)

Preserved(m) == \E r \in records : r.message = m
Finished == post.at = "done"

(* The sweep takes exactly what it should: when the deletion is told that  *)
(* the organization is erased, everything of it that was stored when the   *)
(* erasure began is gone, whatever pages, retries and new letters came in  *)
(* between; and no acknowledged letter of another organization is lost, on *)
(* the contract or off it.                                                 *)
SweepIsExact ==
  /\ TypeOK
  /\ Finished => /\ stored = {}
                 /\ \A r \in records : r.message \in OurMessages => r.id \notin early
  /\ \A m \in Messages : place[m] = "acked" => Preserved(m) \/ Started(m)
=============================================================================
