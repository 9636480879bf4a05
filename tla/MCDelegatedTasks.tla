-------------------------- MODULE MCDelegatedTasks --------------------------
\* Instance of DelegatedTasks for TLC: one task of each kind, so that a command
\* finds one task while another is started.
EXTENDS DelegatedTasks
=============================================================================
