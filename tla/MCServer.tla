------------------------------ MODULE MCServer ------------------------------
EXTENDS Server

\* The application never stops the server.
RunningSpec == ServerInit /\ [][ServerNext /\ ~StopServer]_serverVars
=============================================================================
