----------------------------- MODULE OrderRecord -----------------------------
(***************************************************************************)
(* What a store of orders promises to those who read it, whoever writes it *)
(* and however late: a record opens only for an order the exchange has; it *)
(* may presume that an order has ended only while it does not say how; and *)
(* once it says of an order that it ended, it changes only to say how the  *)
(* order did end.                                                          *)
(***************************************************************************)
CONSTANTS
  Orders,
  OpenStatuses,
  Ends,         (* the statuses an order can end with                      *)
  Presumed      (* of these, the ones some writer takes on trust           *)

VARIABLES
  truth,   (* of each order: what became of it; "none": not there yet      *)
  record   (* of each order: what the store says; "none": nothing          *)

Init ==
  /\ truth = [o \in Orders |-> "none"]
  /\ record = [o \in Orders |-> "none"]

(* An order starts open, or ends at once; what has ended stays so. *)
Happen(o, s) ==
  /\ truth[o] = "none" \/ (truth[o] \in OpenStatuses /\ s \in Ends)
  /\ truth' = [truth EXCEPT ![o] = s]
  /\ UNCHANGED record

Write(o, s) ==
  /\ record' = [record EXCEPT ![o] = s]
  /\ UNCHANGED truth

WriteOpen(o, s) ==
  /\ s \in OpenStatuses
  /\ truth[o] # "none"
  /\ record[o] \notin Ends
  /\ Write(o, s)

WriteEnd(o, s) ==
  /\ s \in Ends
  /\ truth[o] = s
  /\ Write(o, s)

Presume(o, s) ==
  /\ s \in Presumed
  /\ record[o] \notin Ends
  /\ Write(o, s)

Next ==
  \E o \in Orders, s \in OpenStatuses \cup Ends :
    Happen(o, s) \/ WriteOpen(o, s) \/ WriteEnd(o, s) \/ Presume(o, s)

Spec == Init /\ [][Next]_<<truth, record>>
=============================================================================
