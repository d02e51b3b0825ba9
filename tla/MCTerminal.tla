----------------------------- MODULE MCTerminal -----------------------------
EXTENDS Terminal, TLC
CONSTANTS public, dm, m, trace
Conversations == (m :> dm)
Peers == (trace :> dm)
=============================================================================
