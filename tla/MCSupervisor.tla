----------------------------- MODULE MCSupervisor -----------------------------
EXTENDS Supervisor
==============================================================================
