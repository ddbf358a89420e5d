----------------------------- MODULE MCOperations -----------------------------
EXTENDS Operations
==============================================================================
