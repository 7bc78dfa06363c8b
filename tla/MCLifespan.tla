----------------------------- MODULE MCLifespan -----------------------------
(* One device of a real network, two of the demo, two of the added columns. *)
EXTENDS Lifespan
CONSTANTS m1, s1, s2
DemoSeed == <<s1, s2>>
=============================================================================
