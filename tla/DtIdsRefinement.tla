---------------------------- MODULE DtIdsRefinement ----------------------------
(***************************************************************************)
(* DtIds implements IdsVerdict: the loader's last store is Load, a         *)
(* reception is Accept, the end of a walk is Decide and a release is       *)
(* Return; every other step of the program is invisible.                   *)
(***************************************************************************)
EXTENDS DtIds

\* A packet's fate by its form alone, the ring left out: what RingBlind says.
ParsedPackets == {p \in Packets : ParseResult(p, TRUE) = 0}

ExpectedVerdict ==
    [p \in Packets |->
        IF p \in ParsedPackets
        THEN IF TreeVerdict(Trained, FeatureVector(p, TRUE)) THEN "pass" ELSE "drop"
        ELSE AfterParse(p, TRUE)]

Ids == INSTANCE IdsVerdict WITH
    Verdicts <- {"drop", "pass", "passsilent"},
    Parsed   <- ParsedPackets,
    Expected <- ExpectedVerdict,
    loaded   <- Loaded,
    packet   <- pkt,
    due      <- settled,
    verdict  <- [c \in CPUs |-> IF pc[c] \in {"idle", "walk"} THEN "none" ELSE pc[c]]

\* Every behaviour of the XDP program and its loader is one of the abstract
\* IDS: late packets get the trained tree's verdict and all get one.
ImplementsIds == Ids!FairSpec
===============================================================================
