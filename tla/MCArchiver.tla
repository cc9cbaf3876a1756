----------------------------- MODULE MCArchiver -----------------------------
(***************************************************************************)
(* Entities with their history, and the archiver that moves the history to *)
(* S3, each as a part of its own: to the archiver, a committed operation   *)
(* of the first part is one more row (ChangeEntity).                       *)
(***************************************************************************)
EXTENDS Archiver, EntityStore

VARIABLE part

mcVars == <<archiverVars, entityVars, part>>

MCInit == ArchiverInit /\ EntityInit /\ part \in {"entities", "archiver"}

MCNext ==
    /\ \/ part = "entities" /\ EntityNext /\ UNCHANGED archiverVars
       \/ part = "archiver" /\ ArchiverNext /\ UNCHANGED entityVars
    /\ UNCHANGED part

MCSpec == MCInit /\ [][MCNext]_mcVars /\ ArchiverFairness
=============================================================================
