---------------------------- MODULE ResumeLifecycleMC ----------------------------
EXTENDS ResumeLifecycleProps
=============================================================================
