---------------------------- MODULE FirmwareUpdateMC ----------------------------
EXTENDS FirmwareUpdateProps
=============================================================================
