---------------------------- MODULE MCEthValidator ----------------------------
EXTENDS EthValidator, TLC

\* Recorded too high, too low twice, just beyond the window, and lost
RecordedAt == "high" :> 3 @@ "low" :> 1 @@ "late" :> 2 @@ "edge" :> 4 @@ "lost" :> 4
ReallyAt == "high" :> 1 @@ "low" :> 2 @@ "late" :> 3 @@ "edge" :> 6 @@ "lost" :> 0

MCRecorded == [c \in Candidates |-> RecordedAt[c]]
MCOnChain == [c \in Candidates |-> ReallyAt[c]]
==============================================================================
