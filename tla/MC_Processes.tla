---------------------------- MODULE MC_Processes ----------------------------
EXTENDS OwnedProcesses
=============================================================================
