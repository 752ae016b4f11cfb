------------------------------ MODULE MCLaunch ------------------------------
EXTENDS Launch

MCDefault == [s \in Members |-> "neutral"]
=============================================================================
