------------------------- MODULE MCResearchSession -------------------------
(***************************************************************************)
(* Model checking ResearchSession.  Requests, documents and keys are       *)
(* interchangeable (so are runs and fingerprints, but breaking those       *)
(* symmetries too costs TLC more than it saves).                           *)
(***************************************************************************)
EXTENDS ResearchSession, TLC

Symmetry == Permutations(Requests) \cup Permutations(Docs) \cup Permutations(Keys)
=============================================================================
