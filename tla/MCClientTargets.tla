-------------------------- MODULE MCClientTargets --------------------------
EXTENDS ClientTargets

\* One server with inbounds of two shapes.
OneServer == [i \in Inbounds |-> "A"]
TwoShapes == [i \in Inbounds |-> IF i < 3 THEN "vless" ELSE "trojan"]
=============================================================================
