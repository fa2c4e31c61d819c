------------------------------ MODULE MCEngine ------------------------------
(* A signal that expires, one for the same target that does not, the        *)
(* retraction of the first, a second apply of an active source, and a       *)
(* signal the profile store refuses.                                        *)
EXTENDS EngineOrchestrator

Apply1 == [kind |-> "apply", op |-> 1, source |-> "s1", at |-> 0, expires |-> 1, target |-> "x"]
Apply2 == [kind |-> "apply", op |-> 2, source |-> "s2", at |-> 0, expires |-> 9, target |-> "x"]
Retract1 == [kind |-> "retract", op |-> 3, source |-> "s1", at |-> 1]
Again2 == [kind |-> "apply", op |-> 4, source |-> "s2", at |-> 1, expires |-> 9, target |-> "x"]
Private3 == [kind |-> "apply", op |-> 5, source |-> "s3", at |-> 0, expires |-> 1, target |-> "y"]

MCEvents == {Apply1, Apply2, Retract1, Again2, Private3}
MCBatches == {<<Apply1>>, <<Apply1, Apply2>>, <<Retract1>>, <<Retract1, Again2>>, <<Private3>>}
=============================================================================
