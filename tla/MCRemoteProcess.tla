----------------------------- MODULE MCRemoteProcess -----------------------------
EXTENDS RemoteProcessProps
=============================================================================
