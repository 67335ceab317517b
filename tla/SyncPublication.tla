-------------------------- MODULE SyncPublication --------------------------
(***************************************************************************)
(* What branch isolation promises of a sync run.  A run decides once where *)
(* it works: directly in main, or privately.  Private work reaches main in *)
(* one step, all of it, and only when nothing the run did has failed; once *)
(* the run is closed or has published, it changes nothing any more.  An    *)
(* operator may take what is private into main once; the run then never    *)
(* publishes.  Tenants are assigned in main either way.                    *)
(***************************************************************************)
CONSTANTS Endpoints, Tenant

VARIABLES mode,     \* where the run works, or how it ended
          public,   \* what it wrote into main
          private,  \* what it wrote into its branch
          spoiled,  \* part of its work failed
          taken     \* an operator merged its branch

Init == /\ mode = "undecided"
        /\ public = {} /\ private = {}
        /\ ~spoiled /\ ~taken

Decide == /\ mode = "undecided"
          /\ mode' \in {"direct", "private", "closed"}
          /\ UNCHANGED <<public, private, spoiled, taken>>

\* A piece of work, which may fail and may be the last one.
Work(rows, tenant) ==
    /\ mode \in {"direct", "private"}
    /\ public' = public \cup tenant \cup (IF mode = "direct" THEN rows ELSE {})
    /\ private' = private \cup (IF mode = "private" THEN rows ELSE {})
    /\ mode' \in {mode, "closed"}
    /\ spoiled => spoiled'
    /\ UNCHANGED taken

Publish == /\ mode = "private" /\ private # {} /\ ~spoiled /\ ~taken
           /\ mode' = "published"
           /\ public' = public \cup private
           /\ UNCHANGED <<private, spoiled, taken>>

Take == /\ mode \in {"private", "closed"} /\ private # {} /\ ~taken
        /\ taken'
        /\ public' = public \cup private
        /\ UNCHANGED <<mode, private, spoiled>>

Next == \/ Decide
        \/ \E rows \in SUBSET Endpoints, tenant \in SUBSET {Tenant} : Work(rows, tenant)
        \/ Publish
        \/ Take

Spec == Init /\ [][Next]_<<mode, public, private, spoiled, taken>>
=============================================================================
