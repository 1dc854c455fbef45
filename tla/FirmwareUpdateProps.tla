-------------------------- MODULE FirmwareUpdateProps --------------------------
(* What an update must not break. *)
EXTENDS FirmwareUpdate

\* Types of the partitions, the entries and the update.
TypeOK ==
    /\ image \in [Partitions -> {"whole", "partial"}]
    /\ slots \in [Slots -> [seq : 0..MaxSeq, state : {"unreadable", "new", "valid", "aborted"}]]
    /\ running \in Partitions
    /\ phase \in {"idle", "checked", "flashing", "flashed", "erased", "installed"}
    /\ origin \in {"card", "network"}
    /\ unchanged \in BOOLEAN /\ misflashed \in BOOLEAN
    /\ target \in Slots /\ seq \in 0..MaxSeq

\* Whatever was installed, interrupted, rolled back or failed before, the bootloader
\* selects the new partition once switchTo() has reported success, and the running one
\* at every moment until then (OtaBootSwitch.h: "Switch the bootloader's selected app
\* partition to `dest`").
SelectionFollowsTheInstall ==
    ~ misflashed => Selected(slots) = IF phase = "installed" THEN Dest ELSE running

\* At every moment a restart finds a whole image, also when the file was exchanged
\* after it had been validated.
DeviceBoots == image[Bootable(slots)] = "whole"
=============================================================================
