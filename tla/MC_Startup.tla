----------------------------- MODULE MC_Startup -----------------------------
EXTENDS DaemonStartup
CONSTANTS d1, d2, p, q
=============================================================================
