--------------------------- MODULE MCUsageLedger ----------------------------
(* Instances of UsageLedger for TLC: all links hang on the one concept, so *)
(* that forgetting it cascades to every row.                               *)
EXTENDS UsageLedger

HubSubject == [l \in Links |-> CHOOSE c \in Concepts : TRUE]
OneOrHub == {{CHOOSE l \in Links \ Broken : TRUE}, Concepts}
=============================================================================
