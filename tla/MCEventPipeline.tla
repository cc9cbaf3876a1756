-------------------------- MODULE MCEventPipeline --------------------------
(***************************************************************************)
(* The event pipeline on a small instance, and beside it (part "tracker")  *)
(* its gap tracker alone under an arbitrary caller: any delivery, also of  *)
(* another key or at the largest sequence number, any answer of the outbox *)
(* and any confirmation.  Nothing is known of that caller's outbox, so all *)
(* of its rows may have been purged.                                       *)
(***************************************************************************)
EXTENDS EventPipeline

VARIABLE part

mcVars == <<pipelineVars, part>>

MCInit ==
    \/ part = "pipeline" /\ PipelineInit
    \/ /\ part = "tracker"
       /\ Init
       /\ last_seq = 0 /\ outbox = {} /\ purged = Seqs
       /\ writer = [w \in Writers |-> Idle] /\ published = {}
       /\ acked = {} /\ buffer = {} /\ work = None /\ replay = None
       /\ log = <<>> /\ crashes = 0

MCNext ==
    /\ \/ part = "pipeline" /\ PipelineNext
       \/ part = "tracker" /\ Next /\ UNCHANGED <<outboxVars, consumerVars>>
    /\ UNCHANGED part

MCSpec == MCInit /\ [][MCNext]_mcVars /\ ConsumerFairness /\ WriterFairness
=============================================================================
