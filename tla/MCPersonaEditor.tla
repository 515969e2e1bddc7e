--------------------------- MODULE MCPersonaEditor ---------------------------
(***************************************************************************)
(* Instances of PersonaEditor for TLC.                                     *)
(***************************************************************************)
EXTENDS PersonaEditor

CONSTANTS a, b, s1, s2, x, y

\* What is stored at first: a solver with settings and no memory; two solvers,
\* one of them with settings.
TwoPersonas ==
  (a :> [solvers |-> <<s1>>, memory |-> "none",
         config |-> (s1 :> x @@ s2 :> Empty)]) @@
  (b :> [solvers |-> <<s2, s1>>, memory |-> "short",
         config |-> (s1 :> Empty @@ s2 :> x)])
=============================================================================
