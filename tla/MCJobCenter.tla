---------------------------- MODULE MCJobCenter -----------------------------
(***************************************************************************)
(* Small instances of JobCenter.  Jobs are model values; the constants     *)
(* below give them kinds: "batch" is an ordinary idempotent kind,          *)
(* "consumer" a singleton one (as DemoConsumerJob), "import" one that is   *)
(* not idempotent.                                                         *)
(***************************************************************************)
EXTENDS JobCenter, TLC

CONSTANTS j1, j2

MCKinds == {"batch", "consumer", "import"}
MCSingletons == {"consumer"}
MCIdempotent == {"batch", "consumer"}
MCRestartable == {"batch", "consumer"}

Batches(S) == [j \in S |-> "batch"]
Consumers(S) == [j \in S |-> "consumer"]

OneBatch == Batches({j1})
TwoBatches == Batches({j1, j2})
TwoConsumers == Consumers({j1, j2})
BatchAndImport == [j \in {j1, j2} |-> IF j = j1 THEN "batch" ELSE "import"]

Symmetry == Permutations(Jobs) \cup Permutations(Clients)
=============================================================================
