------------------------------ MODULE MCStreams ------------------------------
EXTENDS Streams, TLC
=============================================================================
