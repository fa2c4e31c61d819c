---------------------------- MODULE MCProfileStore ----------------------------
(* Three targets for two places, signals that push a score over both ends, *)
(* that expire at different times, and one the store refuses.              *)
EXTENDS ProfileStore

Signal(t, polarity, weight, observed, expires) ==
  [target |-> t, polarity |-> polarity, weight |-> weight, confidence |-> weight,
   boundary |-> "local_only", observed |-> observed, expires |-> expires]

MCBatches ==
  {<<Signal(1, "positive", 2, 0, 1), Signal(2, "negative", 1, 0, Never)>>,
   <<Signal(1, "negative", 2, 1, 2), Signal(1, "negative", 2, 0, 2)>>,
   <<Signal(3, "neutral", 1, 0, 2)>>,
   <<Signal(3, "positive", 1, 2, Never), Signal(2, "positive", 2, 0, 1)>>,
   <<[Signal(1, "positive", 1, 0, 2) EXCEPT !.boundary = "aggregate_only"]>>}
=============================================================================
