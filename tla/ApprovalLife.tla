---------------------------- MODULE ApprovalLife ----------------------------
(***************************************************************************)
(* What the permission engine promises of an approval: it is asked for     *)
(* once, decided once, and an approved one is used at most once ("atomically *)
(* consume a one-time approved request",                                   *)
(* src/crates/retcon-storage/src/repositories.rs).  Approvals implements   *)
(* this machine.                                                           *)
(***************************************************************************)

CONSTANT Ids      \* identities of approvals

VARIABLE status   \* status[a]: the durable status, or "absent"

Init == status = [a \in Ids |-> "absent"]

\* The states an approval may go to.
Successors(from) ==
  CASE from = "absent"   -> {"pending"}
    [] from = "pending"  -> {"approved", "denied"}
    [] from = "approved" -> {"consumed"}
    [] OTHER             -> {}

Next == \E a \in Ids : \E to \in Successors(status[a]) :
          status' = [status EXCEPT ![a] = to]

Spec == Init /\ [][Next]_status

=============================================================================
