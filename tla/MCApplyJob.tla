----------------------------- MODULE MCApplyJob -----------------------------
(* A branch that updates a guest, deletes another with the same VMID in a    *)
(* different cluster, whose snapshot may also lack it, and changes a         *)
(* firewall object.                                                          *)
EXTENDS ApplyJob

MCOpOf == [d \in Diffs |-> d]
MCKeysOf == [d \in Diffs |-> CASE d = "delete" -> {"vmid", "name"}
                              [] d = "firewall" -> {"firewall"}
                              [] OTHER -> {"vmid"}]
=============================================================================
