----------------------------- MODULE FourEyes -----------------------------
(***************************************************************************)
(* What the safe-delete workflow promises, with no row states, handlers,   *)
(* queues or crashes: somebody asks for a deletion; a grant is given by an *)
(* authorizer other than the asker, unless self-approval is allowed at     *)
(* that moment; every DELETE spends one grant and no grant is spent twice; *)
(* a grant that was not spent may come to nothing.  A request may be       *)
(* granted more than once: one DELETE per grant, not per request.          *)
(***************************************************************************)
CONSTANTS Requests, Authorizers, Users, Posts, NoUser, NoRequest

VARIABLES selfApprove,  \* the self-approval setting
          asked,        \* who asked for the deletion
          grant         \* what each approval granted, and whether it is spent

vars == <<selfApprove, asked, grant>>

NoGrant == [st |-> "none", req |-> NoRequest, user |-> NoUser]

Init ==
    /\ selfApprove \in BOOLEAN
    /\ asked = [r \in Requests |-> NoUser]
    /\ grant = [p \in Posts |-> NoGrant]

ChangePolicy ==
    /\ selfApprove' \in BOOLEAN
    /\ UNCHANGED <<asked, grant>>

Ask(r, u) ==
    /\ asked[r] = NoUser
    /\ asked' = [asked EXCEPT ![r] = u]
    /\ UNCHANGED <<selfApprove, grant>>

Grant(p, r, u) ==
    /\ grant[p] = NoGrant
    /\ asked[r] # NoUser
    /\ u # asked[r] \/ selfApprove
    /\ grant' = [grant EXCEPT ![p] = [st |-> "valid", req |-> r, user |-> u]]
    /\ UNCHANGED <<selfApprove, asked>>

Delete(p) ==
    /\ grant[p].st = "valid"
    /\ grant' = [grant EXCEPT ![p].st = "spent"]
    /\ UNCHANGED <<selfApprove, asked>>

(* The save fails, or the worker dies before it.                           *)
Withdraw(p) ==
    /\ grant[p].st = "valid"
    /\ grant' = [grant EXCEPT ![p] = NoGrant]
    /\ UNCHANGED <<selfApprove, asked>>

Next ==
    \/ ChangePolicy
    \/ \E r \in Requests, u \in Users : Ask(r, u)
    \/ \E p \in Posts, r \in Requests, u \in Authorizers : Grant(p, r, u)
    \/ \E p \in Posts : Delete(p) \/ Withdraw(p)

Spec == Init /\ [][Next]_vars
=============================================================================
