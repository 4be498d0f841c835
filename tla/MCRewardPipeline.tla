--------------------------- MODULE MCRewardPipeline ---------------------------
EXTENDS RewardPipeline
==============================================================================
