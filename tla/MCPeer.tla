------------------------------- MODULE MCPeer -------------------------------
EXTENDS Peer, TLC
=============================================================================
