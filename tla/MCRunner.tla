------------------------------ MODULE MCRunner ------------------------------
\* The runner process and the control plane for TLC.
EXTENDS Runner, TLC
=============================================================================
