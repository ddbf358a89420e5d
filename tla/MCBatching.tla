----------------------------- MODULE MCBatching -----------------------------
EXTENDS Batching
==============================================================================
