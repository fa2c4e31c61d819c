------------------------ MODULE MCSubjectSerializer ------------------------
(* Three calls for one subject, one for another, and a read of the first.   *)
EXTENDS SubjectSerializer, TLC

CONSTANTS c1, c2, c3, d1, r1, s1, s2

MCSubjectOf == (c1 :> s1) @@ (c2 :> s1) @@ (c3 :> s1) @@ (d1 :> s2) @@ (r1 :> s1)
=============================================================================
