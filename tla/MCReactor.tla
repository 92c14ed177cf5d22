------------------------------- MODULE MCReactor -------------------------------
EXTENDS Reactor, TLC
=============================================================================
