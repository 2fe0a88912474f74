-------------------------- MODULE MCPendingSubmit --------------------------
EXTENDS PendingSubmit

=============================================================================
