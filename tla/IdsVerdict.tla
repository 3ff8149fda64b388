------------------------------ MODULE IdsVerdict ------------------------------
(***************************************************************************)
(* What an intrusion detection system loaded with one model promises of    *)
(* its verdicts, with no tree, no walk, no map and no event ring: a packet *)
(* accepted once the model is loaded gets the model's verdict, and every   *)
(* accepted packet gets a verdict and is handed back.  DtIds implements it *)
(* (module DtIdsRefinement).                                               *)
(***************************************************************************)
CONSTANTS
    CPUs, Packets, NoPacket,
    Verdicts,      \* "drop", "pass", "passsilent"
    Parsed,        \* the packets the model is asked about
    Expected       \* the right verdict of each packet

VARIABLES
    loaded,    \* the model is complete
    packet,    \* the packet each CPU holds
    due,       \* it arrived when the model was complete
    verdict    \* its verdict, "none" while it has none

vars == <<loaded, packet, due, verdict>>

Init ==
    /\ loaded = FALSE
    /\ packet = [c \in CPUs |-> NoPacket]
    /\ due = [c \in CPUs |-> FALSE]
    /\ verdict = [c \in CPUs |-> "none"]

Load ==
    /\ loaded' = TRUE
    /\ UNCHANGED <<packet, due, verdict>>

\* A packet the model is not asked about is judged by its form, at once.
Accept(c, p) ==
    /\ packet[c] = NoPacket
    /\ packet' = [packet EXCEPT ![c] = p]
    /\ due' = [due EXCEPT ![c] = loaded]
    /\ verdict' = [verdict EXCEPT ![c] = IF p \in Parsed THEN "none" ELSE Expected[p]]
    /\ UNCHANGED loaded

Decide(c) ==
    /\ packet[c] # NoPacket
    /\ verdict[c] = "none"
    /\ \E v \in Verdicts :
          /\ due[c] => v = Expected[packet[c]]
          /\ verdict' = [verdict EXCEPT ![c] = v]
    /\ UNCHANGED <<loaded, packet, due>>

Return(c) ==
    /\ verdict[c] # "none"
    /\ packet' = [packet EXCEPT ![c] = NoPacket]
    /\ due' = [due EXCEPT ![c] = FALSE]
    /\ verdict' = [verdict EXCEPT ![c] = "none"]
    /\ UNCHANGED loaded

Next == Load \/ \E c \in CPUs : Decide(c) \/ Return(c) \/ \E p \in Packets : Accept(c, p)

Spec == Init /\ [][Next]_vars
FairSpec == Spec /\ \A c \in CPUs : WF_vars(Decide(c) \/ Return(c))
===============================================================================
