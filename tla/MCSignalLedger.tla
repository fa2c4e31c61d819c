--------------------------- MODULE MCSignalLedger ---------------------------
(* Two ledgers and events with every kind of collision: one operation ID    *)
(* with two contents, two operations for one source, retractions of one     *)
(* source at different times and at the same time, and a second source.     *)
EXTENDS SignalLedger

Apply(o, s, t) == [kind |-> "apply", op |-> o, source |-> s, at |-> t, expires |-> 9]
Retract(o, s, t) == [kind |-> "retract", op |-> o, source |-> s, at |-> t]

MCEvents ==
  { Apply(1, "s1", 1), Apply(1, "s1", 2), Apply(2, "s1", 1), Apply(6, "s2", 1),
    Retract(3, "s1", 2), Retract(4, "s1", 1), Retract(5, "s1", 1) }

=============================================================================
