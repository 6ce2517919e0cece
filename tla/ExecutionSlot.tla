---------------------------- MODULE ExecutionSlot ----------------------------
(***************************************************************************)
(* What a session promises about its requests, whatever starts them: one   *)
(* execution slot.  A request waits or starts at once; only one runs at a   *)
(* time; it ends once, or is dropped without ever having run.  A Plan       *)
(* continuation takes the slot over from the request it continues in one    *)
(* step, so nothing can slip in between.                                    *)
(***************************************************************************)
CONSTANT Requests

VARIABLES
    phase,   \* request: where it is in its life (RequestExecution)
    closed   \* the session has been deleted

slotVars == <<phase, closed>>

Free == \A r \in Requests : phase[r] # "RUNNING"

SlotInit ==
    /\ phase = [r \in Requests |-> "UNSEEN"]
    /\ closed = FALSE

(* Each step moves the requests of one or two names and keeps the session. *)
Move(new) == phase' = new /\ UNCHANGED closed

Wait(r) ==
    /\ phase[r] = "UNSEEN"
    /\ Move([phase EXCEPT ![r] = "WAITING"])

Drop(r) ==
    /\ phase[r] = "WAITING"
    /\ Move([phase EXCEPT ![r] = "DROPPED"])

Start(r) ==
    /\ Free
    /\ phase[r] \in {"UNSEEN", "WAITING"}
    /\ Move([phase EXCEPT ![r] = "RUNNING"])

End(r) ==
    /\ phase[r] = "RUNNING"
    /\ Move([phase EXCEPT ![r] = "ENDED"])

(* The continuation s of r inherits the slot. *)
Continue(r, s) ==
    /\ phase[r] = "RUNNING"
    /\ phase[s] = "UNSEEN"
    /\ Move([phase EXCEPT ![r] = "ENDED", ![s] = "RUNNING"])

(* The waiting request r is turned into the continuation s. *)
Convert(r, s) ==
    /\ Free
    /\ phase[r] = "WAITING"
    /\ phase[s] = "UNSEEN"
    /\ Move([phase EXCEPT ![r] = "DROPPED", ![s] = "RUNNING"])

Close ==
    /\ phase' = [r \in Requests |-> "UNSEEN"]
    /\ closed' = TRUE

SlotNext ==
    /\ ~closed
    /\ \/ Close
       \/ \E r \in Requests : Wait(r) \/ Drop(r) \/ Start(r) \/ End(r)
       \/ \E r, s \in Requests : Continue(r, s) \/ Convert(r, s)

SlotSpec == SlotInit /\ [][SlotNext]_slotVars

=============================================================================
