-------------------------- MODULE MCEventSimulation --------------------------
EXTENDS EventSimulation

=============================================================================
