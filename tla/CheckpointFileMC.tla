---------------------------- MODULE CheckpointFileMC ----------------------------
EXTENDS CheckpointFileProps
=============================================================================
