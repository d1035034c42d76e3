---------------------------- MODULE MC_StopWait ----------------------------
EXTENDS StopWaitInv
=============================================================================
