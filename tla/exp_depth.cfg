SPECIFICATION Spec
CONSTANTS
    DT_NODE_NB = 128
    Features <- TwoFeatures
    Trees <- Chains
    DepthArgs = {8}
    Samples <- SmallPackets
INVARIANT AdvisedDepthFits
