------------------------------- MODULE MCSwarm -------------------------------
(* A roster of a race and a solo role, and three fingerprints, two of which  *)
(* are one fault seen through two channels.  The longer the queue, the fewer *)
(* signals: one mission of two hands has three, three missions have one.     *)
EXTENDS Swarm

MCRoles == << [weight |-> 1, budget |-> 10, race |-> TRUE],
              [weight |-> 2, budget |-> 4,  race |-> FALSE] >>
MCFaults     == {"uncaught", "rejection", "console"}
MCRootKey    == [fp \in MCFaults |-> IF fp = "console" THEN "c" ELSE "throw"]
MCSeverity   == [uncaught |-> 2, rejection |-> 2, console |-> 1]
MCMaxSignals == <<3, 2, 1>>
MCMaxHistory == <<1, 0, 0>>

=============================================================================
