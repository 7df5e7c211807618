----------------------------- MODULE MCCmdQueue -----------------------------
\* TLC instances of the queue of commands: the configurations give the bounds.
EXTENDS CmdQueueProps

=============================================================================
