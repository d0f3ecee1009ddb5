-------------------------- MODULE DecisionExecution --------------------------
(***************************************************************************)
(* What the execution worker promises of the decisions it reads, whatever  *)
(* copies arrive, reads fail or restarts happen: as long as its claims are *)
(* kept, a decision is executed at most once, one decision at a time, and  *)
(* its order reaches the exchange at most once and never before that       *)
(* execution has begun.                                                    *)
(***************************************************************************)
CONSTANT Decisions

VARIABLES
  fate,     (* of each decision: waiting, executing, ended                 *)
  placed,   (* the decisions whose order reached the exchange              *)
  reliable  (* the claims of executed decisions have been kept             *)

Init ==
  /\ fate = [d \in Decisions |-> "waiting"]
  /\ placed = {}
  /\ reliable = TRUE

Begin(d) ==
  /\ fate[d] = "waiting" \/ (fate[d] = "ended" /\ ~reliable)
  /\ \A e \in Decisions : fate[e] # "executing"
  /\ fate' = [fate EXCEPT ![d] = "executing"]
  /\ UNCHANGED <<placed, reliable>>

(* The request may be served after the process that sent it has stopped. *)
Place(d) ==
  /\ fate[d] # "waiting"
  /\ d \notin placed
  /\ placed' = placed \cup {d}
  /\ UNCHANGED <<fate, reliable>>

(* The handler returns, or its process stops. *)
End(d) ==
  /\ fate[d] = "executing"
  /\ fate' = [fate EXCEPT ![d] = "ended"]
  /\ UNCHANGED <<placed, reliable>>

(* A claim is lost, or passed over. *)
Forget ==
  /\ reliable' = FALSE
  /\ UNCHANGED <<fate, placed>>

Next == Forget \/ \E d \in Decisions : Begin(d) \/ Place(d) \/ End(d)

Spec == Init /\ [][Next]_<<fate, placed, reliable>>
=============================================================================
