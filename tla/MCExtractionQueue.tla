------------------------ MODULE MCExtractionQueue ------------------------
(***************************************************************************)
(* Two checkpoints of one session, the second final, drained by two        *)
(* workers of one provider whose cap is 1.                                 *)
(***************************************************************************)
EXTENDS ExtractionQueue, TLC

CONSTANTS j1, j2, s1, p1, w1, w2

MCSessionOf == [j \in Jobs |-> s1]
MCEventOf == [j \in Jobs |-> IF j = j2 THEN "session_end" ELSE "idle"]
MCProviderOf == [j \in Jobs |-> p1]
MCWorkerProvider == [w \in Workers |-> p1]

Symmetry == Permutations(Workers)
=============================================================================
