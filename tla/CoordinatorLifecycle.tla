----------------------- MODULE CoordinatorLifecycle ------------------------
(***************************************************************************)
(* The coordinator implements the lifecycle of snapshots: the refinement   *)
(* mapping reads the lifecycle off the coordinator's tables.               *)
(***************************************************************************)
EXTENDS AgentDeliveryCoordinator

(* What getStats, getOutstandingSnapshotCopyIntents and                    *)
(* getSnapshotProgress tell.                                               *)
LifecycleSeen ==
  [active |-> gate.generation,
   last |-> lastGeneration,
   owed |-> intents # {},
   settled |-> progress.nextCopy,
   erasing |-> erasing]

Abstract == INSTANCE SnapshotLifecycle WITH life <- LifecycleSeen

(* Whatever its callers do and in whatever order they do it, the           *)
(* coordinator shows the others nothing but a lifecycle: generations one   *)
(* at a time, each ending once and owing no Copy then, and none begun      *)
(* while an erasure is under way (all RPCs of the coordinator).            *)
ImplementsLifecycle == Abstract!Spec
=============================================================================
