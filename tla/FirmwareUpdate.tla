----------------------------- MODULE FirmwareUpdate -----------------------------
(***************************************************************************)
(* A firmware update: the image goes to the partition that is not running, *)
(* then one of the two otadata entries is rewritten so that the bootloader *)
(* selects it.  Power may be lost at every step and any call may fail.     *)
(* The bootloader and the esp_ota calls are external.                      *)
(***************************************************************************)
EXTENDS Integers

CONSTANT MaxSeq   \* bound on the sequence numbers, 2^32 - 2 in the code

ASSUME MaxSeqAssumption == MaxSeq \in Nat

Partitions == {0, 1}   \* ota_0, ota_1
Slots == {0, 1}        \* the two sectors of otadata
Other(p) == 1 - p

VARIABLES
    image,        \* what each partition holds: a whole image or part of one
    slots,        \* the two entries
    running,      \* the partition the device runs from
    phase,        \* how far the update is
    origin,       \* the SD card or the network
    unchanged,    \* the card still holds the file that was validated
    target, seq,  \* the entry that switchTo() has decided to write
    misflashed    \* a file other than the validated one was once flashed to its end

flash == <<image, slots>>
update == <<phase, origin, unchanged, target, seq>>
vars == <<flash, running, update, misflashed>>

Unreadable == [seq |-> 0, state |-> "unreadable"]  \* erased, or torn: its CRC does not match

Init ==
    /\ image \in [Partitions -> {"whole", "partial"}] /\ image[0] = "whole"
    /\ slots = [i \in Slots |-> Unreadable]
    /\ running = 0
    /\ phase = "idle" /\ origin = "card" /\ unchanged = TRUE
    /\ target = 0 /\ seq = 0
    /\ misflashed = FALSE

---------------------------------------------------------------------------
(* otadata. *)

Usable(entry) == entry.state \notin {"unreadable", "aborted"}

\* The entry with the highest sequence number of those that count, -1 if none does.
ActiveIdx(s) ==
    IF ~ Usable(s[0]) /\ ~ Usable(s[1]) THEN -1
    ELSE IF Usable(s[1]) /\ (Usable(s[0]) => s[1].seq > s[0].seq) THEN 1 ELSE 0
ActiveSeq(s) == IF ActiveIdx(s) = -1 THEN 0 ELSE s[ActiveIdx(s)].seq

PartitionOf(n) == (n - 1) % 2

NewSeqAhead(s, dest) ==
    IF PartitionOf(ActiveSeq(s) + 3) = dest THEN ActiveSeq(s) + 3 ELSE ActiveSeq(s) + 4

\* The smallest number above the active one that stands for the destination.
NewSeq(s, dest) ==
    IF PartitionOf(ActiveSeq(s) + 1) = dest THEN ActiveSeq(s) + 1 ELSE ActiveSeq(s) + 2

TargetSlotActive(s) == IF ActiveIdx(s) = 1 THEN 1 ELSE 0

TargetSlot(s) == IF ActiveIdx(s) = 0 THEN 1 ELSE 0

\* The bootloader's choice: by the active entry; ota_0 without one; and the other
\* partition when the image there is not whole.
Selected(s) == IF ActiveIdx(s) = -1 THEN 0 ELSE PartitionOf(ActiveSeq(s))
Bootable(s) == IF image[Selected(s)] = "whole" THEN Selected(s) ELSE Other(Selected(s))

---------------------------------------------------------------------------
(* The update. *)

DestNotSelected == Other(Selected(slots))

\* esp_ota_get_next_update_partition(): the one that is not running.
Dest == Other(running)

\* A file on the card is validated end to end when it is picked and again when the
\* update is confirmed; a release is compared with the running version.
Check ==
    /\ phase = "idle" /\ ActiveSeq(slots) + 2 <= MaxSeq
    /\ phase' = "checked" /\ origin' \in {"card", "network"} /\ unchanged' = TRUE
    /\ UNCHANGED <<flash, running, target, seq, misflashed>>

\* The card is removable, and the file is opened again after it was validated.
ChangeCard ==
    /\ phase \in {"checked", "flashing"} /\ origin = "card"
    /\ unchanged' = FALSE
    /\ UNCHANGED <<flash, running, phase, origin, target, seq, misflashed>>

StartFlash ==
    /\ phase = "checked"
    /\ phase' = "flashing" /\ image' = [image EXCEPT ![Dest] = "partial"]
    /\ UNCHANGED <<slots, running, origin, unchanged, target, seq, misflashed>>

\* Over the network the image that was written is verified; from the card it is not.
FinishFlash ==
    /\ phase = "flashing"
    /\ phase' = "flashed"
    /\ \E held \in IF unchanged THEN {"whole"} ELSE {"whole", "partial"} :
         /\ image' = [image EXCEPT ![Dest] = held]
         /\ misflashed' = IF held = "whole" THEN misflashed ELSE TRUE
    /\ UNCHANGED <<slots, running, origin, unchanged, target, seq>>

\* switchTo(): the entries are read, the new one is decided, its sector is erased.
EraseEntry ==
    /\ phase = "flashed"
    /\ phase' = "erased"
    /\ target' = TargetSlot(slots) /\ seq' = NewSeq(slots, Dest)
    /\ slots' = [slots EXCEPT ![target'] = Unreadable]
    /\ UNCHANGED <<image, running, origin, unchanged, misflashed>>

WriteEntry ==
    /\ phase = "erased"
    /\ phase' = "installed"
    /\ slots' = [slots EXCEPT ![target] = [seq |-> seq, state |-> "new"]]
    /\ UNCHANGED <<image, running, origin, unchanged, target, seq, misflashed>>

\* A call fails and the update is given up; an erasure may have been made, an entry that
\* was not written to its end is unreadable.
Fail ==
    /\ phase \in {"checked", "flashing", "flashed", "erased"}
    /\ phase' = "idle"
    /\ slots' \in IF phase = "flashed"
                  THEN {slots, [slots EXCEPT ![TargetSlot(slots)] = Unreadable]} ELSE {slots}
    /\ UNCHANGED <<image, running, origin, unchanged, target, seq, misflashed>>

\* A new image that does not come up is given up by the bootloader.
Outcomes(entry) ==
    IF entry.state # "new" THEN {entry.state}
    ELSE IF image[PartitionOf(entry.seq)] = "whole" THEN {"valid", "aborted"}
    ELSE {"new", "aborted"}

\* The restart after an update, or a loss of power at any moment.
Restart ==
    /\ phase' = "idle"
    /\ IF ActiveIdx(slots) = -1 THEN slots' = slots
       ELSE \E outcome \in Outcomes(slots[ActiveIdx(slots)]) :
              slots' = [slots EXCEPT ![ActiveIdx(slots)].state = outcome]
    /\ running' = Bootable(slots')
    /\ UNCHANGED <<image, origin, unchanged, target, seq, misflashed>>

---------------------------------------------------------------------------
Next ==
    \/ Check \/ ChangeCard \/ StartFlash \/ FinishFlash
    \/ EraseEntry \/ WriteEntry \/ Fail \/ Restart

Spec == Init /\ [][Next]_vars
=============================================================================
