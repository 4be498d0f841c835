------------------------------ MODULE MCEthShares ------------------------------
EXTENDS EthShares, TLC

MCHeightOf == "early" :> 1 @@ "late" :> 2 @@ "block" :> 2 @@ "far" :> 4
==============================================================================
