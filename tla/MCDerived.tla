------------------------------ MODULE MCDerived ------------------------------
(* One signal, its retraction and a signal that expires; two cache targets. *)
EXTENDS DerivedState

Apply1 == [kind |-> "apply", op |-> 1, source |-> "s1", at |-> 0, expires |-> 9, target |-> "x"]
Retract1 == [kind |-> "retract", op |-> 2, source |-> "s1", at |-> 1]
Brief2 == [kind |-> "apply", op |-> 3, source |-> "s2", at |-> 0, expires |-> 1, target |-> "y"]

MCEvents == {Apply1, Retract1, Brief2}
MCBatches == {<<Apply1>>, <<Retract1>>, <<Brief2>>}
MCTargets == <<"embeddings", "candidate_cache">>
=============================================================================
