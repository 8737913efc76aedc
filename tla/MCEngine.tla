------------------------------ MODULE MCEngine ------------------------------
\* The engine, its daemons and the pump on small bounds: see README.
EXTENDS Engine
=============================================================================
