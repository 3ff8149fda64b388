SPECIFICATION Spec
CONSTANTS
    DT_NODE_NB = 3
    Features <- TwoFeatures
    Trees <- AllStumps
    DepthArgs = {1}
    Samples <- SmallPackets
INVARIANT ThresholdRoundsDown
