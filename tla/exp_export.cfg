SPECIFICATION Spec
CONSTANTS
    DT_NODE_NB = 128
    Features <- TwoFeatures
    Trees <- AllTrees
    DepthArgs = {2, 7, 8}
    Samples <- SmallPackets
INVARIANTS
    TypeOK
    ExportFaithful
    UnwarnedFits
PROPERTY ExportEnds
