------------------------------ MODULE RsvpReaderMC ------------------------------
EXTENDS RsvpReaderProps
=============================================================================
