-------------------------- MODULE FirmwareUpdateProofs --------------------------
(* The update keeps the device bootable, for every number of updates. *)
EXTENDS FirmwareUpdateProps, TLAPS

\* The device never writes the partition it runs from.
RunningIsWhole == image[running] = "whole"

\* The destination is whole from the end of flashing on.
FlashedIsWhole ==
    ~ misflashed /\ phase \in {"flashed", "erased", "installed"} => image[Dest] = "whole"

\* There is a number left for the entry that will be written.
NumberLeft ==
    phase \in {"checked", "flashing", "flashed"} => ActiveSeq(slots) + 2 <= MaxSeq

\* The entry that was decided outranks the other one, and the slot for it is free
\* until it is written.
EntryOutranks ==
    phase \in {"erased", "installed"} =>
        /\ PartitionOf(seq) = Dest
        /\ Usable(slots[1 - target]) => slots[1 - target].seq < seq
        /\ IF phase = "erased" THEN slots[target] = Unreadable
           ELSE slots[target] = [seq |-> seq, state |-> "new"]

\* What the bootloader selects if the entry being installed does not count.
Former == IF Usable(slots[1 - target]) THEN PartitionOf(slots[1 - target].seq) ELSE 0

\* A rollback leads back to the partition that is running.
RollbackReturns ==
    ~ misflashed /\ phase \in {"erased", "installed"} => Former = running

\* An entry that has not been booted yet is the one of the update in progress.
NewIsInstalled ==
    ~ misflashed => \A i \in Slots : slots[i].state = "new" => phase = "installed" /\ i = target

IInv ==
    /\ TypeOK
    /\ RunningIsWhole /\ FlashedIsWhole /\ NumberLeft
    /\ EntryOutranks /\ RollbackReturns /\ NewIsInstalled
    /\ SelectionFollowsTheInstall

---------------------------------------------------------------------------
(* The ranking of the two entries. *)

Entries == [Slots -> [seq : Nat, state : {"unreadable", "new", "valid", "aborted"}]]

\* Consecutive sequence numbers stand for the two partitions in turn.
LEMMA Parity ==
    ASSUME NEW n \in Int
    PROVE  /\ PartitionOf(n) \in Partitions
           /\ PartitionOf(n + 1) = Other(PartitionOf(n))
           /\ PartitionOf(n + 2) = PartitionOf(n)
BY DEF PartitionOf, Partitions, Other

\* The active entry is one that counts, and none that counts has a higher number.
LEMMA Active ==
    ASSUME NEW s \in Entries
    PROVE  /\ ActiveIdx(s) \in {-1, 0, 1}
           /\ ActiveSeq(s) \in Nat
           /\ ActiveIdx(s) # -1 => Usable(s[ActiveIdx(s)])
           /\ \A i \in Slots : Usable(s[i]) => ActiveIdx(s) # -1 /\ s[i].seq <= ActiveSeq(s)
<1>1. CASE ~ Usable(s[0]) /\ ~ Usable(s[1])
      BY <1>1 DEF ActiveIdx, ActiveSeq, Entries, Slots
<1>2. CASE Usable(s[1]) /\ (Usable(s[0]) => s[1].seq > s[0].seq)
      BY <1>2 DEF ActiveIdx, ActiveSeq, Entries, Slots
<1>3. CASE Usable(s[0]) /\ (Usable(s[1]) => ~ (s[1].seq > s[0].seq))
      BY <1>3 DEF ActiveIdx, ActiveSeq, Entries, Slots
<1>4. QED BY <1>1, <1>2, <1>3

\* The bootloader selects one of the two partitions.
LEMMA SelectedIsOne ==
    ASSUME NEW s \in Entries
    PROVE  Selected(s) \in Partitions
BY Active, Parity DEF Selected, Partitions

\* With one slot that does not count, the other one decides.
LEMMA OtherDecides ==
    ASSUME NEW s \in Entries, NEW t \in Slots, ~ Usable(s[t])
    PROVE  Selected(s) = IF Usable(s[1 - t]) THEN PartitionOf(s[1 - t].seq) ELSE 0
BY DEF Selected, ActiveSeq, ActiveIdx, Slots, Entries

\* The entry with the higher number decides.
LEMMA HigherDecides ==
    ASSUME NEW s \in Entries, NEW t \in Slots, Usable(s[t]),
           Usable(s[1 - t]) => s[1 - t].seq < s[t].seq
    PROVE  ActiveIdx(s) = t /\ Selected(s) = PartitionOf(s[t].seq)
BY DEF Selected, ActiveSeq, ActiveIdx, Slots, Entries

\* The number that switchTo() decides on is above the active one and stands for the
\* destination.
LEMMA NewSeqFits ==
    ASSUME NEW s \in Entries, NEW dest \in Partitions
    PROVE  /\ NewSeq(s, dest) \in {ActiveSeq(s) + 1, ActiveSeq(s) + 2}
           /\ PartitionOf(NewSeq(s, dest)) = dest
<1>1. ActiveSeq(s) \in Nat
      BY Active
<1>2. PartitionOf(ActiveSeq(s) + 2) = Other(PartitionOf(ActiveSeq(s) + 1))
      BY <1>1, Parity
<1>3. PartitionOf(ActiveSeq(s) + 1) \in Partitions
      BY <1>1, Parity
<1>4. QED BY <1>2, <1>3 DEF NewSeq, Partitions, Other

\* The slot that switchTo() erases is not the active one.
LEMMA TargetIsFree ==
    ASSUME NEW s \in Entries
    PROVE  /\ TargetSlot(s) \in Slots
           /\ TargetSlot(s) # ActiveIdx(s)
           /\ Usable(s[1 - TargetSlot(s)]) => ActiveIdx(s) = 1 - TargetSlot(s)
           /\ ActiveIdx(s) # -1 => ActiveIdx(s) = 1 - TargetSlot(s)
BY Active DEF TargetSlot, Slots, ActiveIdx

\* Erasing it changes nothing in the bootloader's choice.
LEMMA ErasingKeepsSelected ==
    ASSUME NEW s \in Entries
    PROVE  LET e == [s EXCEPT ![TargetSlot(s)] = Unreadable]
           IN  /\ e \in Entries
               /\ Selected(e) = Selected(s)
               /\ Usable(s[1 - TargetSlot(s)]) => s[1 - TargetSlot(s)].seq = ActiveSeq(s)
<1> DEFINE t == TargetSlot(s)
           e == [s EXCEPT ![t] = Unreadable]
<1>1. t \in Slots /\ 1 - t \in Slots /\ 1 - t # t
      BY TargetIsFree DEF Slots
<1>2. e \in Entries /\ ~ Usable(e[t]) /\ e[1 - t] = s[1 - t]
      BY <1>1 DEF Entries, Unreadable, Usable
<1>3. Selected(e) = IF Usable(s[1 - t]) THEN PartitionOf(s[1 - t].seq) ELSE 0
      BY <1>1, <1>2, OtherDecides
<1>4. CASE Usable(s[1 - t])
      <2>1. ActiveIdx(s) = 1 - t /\ ActiveIdx(s) # -1
            BY <1>1, <1>4, TargetIsFree, Active
      <2>2. QED BY <1>2, <1>3, <1>4, <2>1 DEF Selected, ActiveSeq
<1>5. CASE ~ Usable(s[1 - t])
      <2>1. ActiveIdx(s) = -1
            BY <1>1, <1>5, TargetIsFree, Active
      <2>2. QED BY <1>2, <1>3, <1>5, <2>1 DEF Selected
<1>6. QED BY <1>4, <1>5

---------------------------------------------------------------------------
(* The invariant is inductive. *)

\* The entries are typed, and the destination is the partition that is not running.
LEMMA Typing ==
    ASSUME IInv
    PROVE  /\ slots \in Entries /\ Dest \in Partitions /\ Dest # running
           /\ running \in Partitions /\ running = Other(Dest)
           /\ \A p \in Partitions : p # Dest => p = running
BY MaxSeqAssumption DEF IInv, TypeOK, Entries, Dest, Other, Partitions

\* A step that leaves the flash, the running partition and the decided entry alone, and
\* takes the update back or begins it.
LEMMA UpdateOnly ==
    ASSUME IInv, UNCHANGED <<flash, running, target, seq, misflashed>>,
           phase' = phase \/ phase' = "idle" \/ phase' = "checked",
           phase # "installed" \/ phase' = phase,
           phase' = "checked" => ActiveSeq(slots) + 2 <= MaxSeq \/ phase' = phase,
           origin' \in {"card", "network"}, unchanged' \in BOOLEAN
    PROVE  IInv'
<1>1. /\ slots' = slots /\ image' = image /\ running' = running
      /\ target' = target /\ seq' = seq /\ misflashed' = misflashed
      BY DEF flash
<1>2. TypeOK'
      BY <1>1 DEF IInv, TypeOK
<1>3. Dest' = Dest /\ Former' = Former /\ Selected(slots)' = Selected(slots)
      /\ ActiveSeq(slots)' = ActiveSeq(slots)
      BY <1>1 DEF Dest, Former
<1>4. RunningIsWhole' /\ FlashedIsWhole'
      BY <1>1, <1>3 DEF IInv, RunningIsWhole, FlashedIsWhole
<1>5. NumberLeft'
      BY <1>1, <1>3 DEF IInv, NumberLeft
<1>6. EntryOutranks'
      BY <1>1, <1>3 DEF IInv, EntryOutranks
<1>7. RollbackReturns' /\ NewIsInstalled'
      BY <1>1, <1>3 DEF IInv, RollbackReturns, NewIsInstalled
<1>8. SelectionFollowsTheInstall'
      BY <1>1, <1>3 DEF IInv, SelectionFollowsTheInstall
<1>9. QED BY <1>2, <1>4, <1>5, <1>6, <1>7, <1>8 DEF IInv

LEMMA CheckStep ==
    ASSUME IInv, Check
    PROVE  IInv'
BY UpdateOnly DEF Check

LEMMA ChangeCardStep ==
    ASSUME IInv, ChangeCard
    PROVE  IInv'
<1>1. origin \in {"card", "network"}
      BY DEF IInv, TypeOK
<1>2. QED BY <1>1, UpdateOnly DEF ChangeCard

\* A step that writes the destination only, before the entry is decided.
LEMMA ImageOnly ==
    ASSUME IInv, NEW held \in {"whole", "partial"},
           image' = [image EXCEPT ![Dest] = held],
           UNCHANGED <<slots, running, target, seq, origin, unchanged>>,
           phase \in {"checked", "flashing"}, phase' \in {"flashing", "flashed"},
           misflashed' = misflashed \/ (misflashed' = TRUE /\ phase' = "flashed"),
           misflashed' \in BOOLEAN, misflashed => misflashed',
           phase' = "flashed" /\ held # "whole" => misflashed'
    PROVE  IInv'
<1>1. image \in [Partitions -> {"whole", "partial"}]
      BY DEF IInv, TypeOK
<1>2. image' \in [Partitions -> {"whole", "partial"}] /\ image'[Dest] = held
      /\ image'[running] = image[running]
      BY <1>1, Typing
<1>3. TypeOK'
      BY <1>2 DEF IInv, TypeOK
<1>4. Dest' = Dest /\ Selected(slots)' = Selected(slots)
      /\ ActiveSeq(slots)' = ActiveSeq(slots)
      BY DEF Dest
<1>5. RunningIsWhole' /\ FlashedIsWhole'
      BY <1>2, <1>4 DEF IInv, RunningIsWhole, FlashedIsWhole
<1>6. NumberLeft'
      BY <1>4 DEF IInv, NumberLeft
<1>7. EntryOutranks' /\ RollbackReturns'
      BY DEF EntryOutranks, RollbackReturns
<1>8. NewIsInstalled'
      BY DEF IInv, NewIsInstalled
<1>9. SelectionFollowsTheInstall'
      BY <1>4 DEF IInv, SelectionFollowsTheInstall
<1>10. QED BY <1>3, <1>5, <1>6, <1>7, <1>8, <1>9 DEF IInv

LEMMA StartFlashStep ==
    ASSUME IInv, StartFlash
    PROVE  IInv'
<1>1. misflashed \in BOOLEAN
      BY DEF IInv, TypeOK
<1>2. QED BY <1>1, ImageOnly DEF StartFlash

LEMMA FinishFlashStep ==
    ASSUME IInv, FinishFlash
    PROVE  IInv'
<1>1. PICK held \in {"whole", "partial"} :
         /\ image' = [image EXCEPT ![Dest] = held]
         /\ misflashed' = IF held = "whole" THEN misflashed ELSE TRUE
      BY DEF FinishFlash
<1>2. misflashed \in BOOLEAN
      BY DEF IInv, TypeOK
<1>3. /\ misflashed' = misflashed \/ misflashed' = TRUE
      /\ misflashed' \in BOOLEAN /\ (misflashed => misflashed')
      /\ held # "whole" => misflashed'
      BY <1>1, <1>2
<1>4. phase = "flashing" /\ phase' = "flashed"
      /\ UNCHANGED <<slots, running, target, seq, origin, unchanged>>
      BY DEF FinishFlash
<1>5. QED BY <1>1, <1>3, <1>4, ImageOnly

\* An erasure of the free slot, after which the update goes on or is given up.
LEMMA ErasedSlot ==
    ASSUME IInv, phase = "flashed"
    PROVE  LET e == [slots EXCEPT ![TargetSlot(slots)] = Unreadable]
           IN  /\ e \in Entries /\ Selected(e) = Selected(slots)
               /\ e \in [Slots -> [seq : 0..MaxSeq, state : {"unreadable", "new", "valid", "aborted"}]]
               /\ ~ misflashed => \A i \in Slots : e[i].state # "new"
<1> DEFINE e == [slots EXCEPT ![TargetSlot(slots)] = Unreadable]
<1>1. e \in Entries /\ Selected(e) = Selected(slots)
      BY Typing, ErasingKeepsSelected
<1>2. TargetSlot(slots) \in Slots
      BY Typing, TargetIsFree
<1>3. e \in [Slots -> [seq : 0..MaxSeq, state : {"unreadable", "new", "valid", "aborted"}]]
      BY <1>2, MaxSeqAssumption DEF IInv, TypeOK, Unreadable
<1>4. ASSUME ~ misflashed, NEW i \in Slots PROVE e[i].state # "new"
      BY <1>2, <1>4 DEF IInv, TypeOK, NewIsInstalled, Unreadable
<1>5. QED BY <1>1, <1>3, <1>4

LEMMA EraseEntryStep ==
    ASSUME IInv, EraseEntry
    PROVE  IInv'
<1> DEFINE t == TargetSlot(slots)
           e == [slots EXCEPT ![t] = Unreadable]
<1>1. /\ phase = "flashed" /\ phase' = "erased" /\ target' = t /\ seq' = NewSeq(slots, Dest)
      /\ slots' = e /\ image' = image /\ running' = running /\ misflashed' = misflashed
      /\ origin' = origin /\ unchanged' = unchanged
      BY DEF EraseEntry
<1>2. t \in Slots /\ 1 - t \in Slots /\ 1 - t # t
      BY Typing, TargetIsFree DEF Slots
<1>3. e \in Entries /\ Selected(e) = Selected(slots) /\ e[t] = Unreadable /\ e[1 - t] = slots[1 - t]
      BY <1>1, <1>2, ErasedSlot, Typing DEF Entries
<1>4. ActiveSeq(slots) + 2 <= MaxSeq /\ ActiveSeq(slots) \in Nat
      BY <1>1, Typing, Active DEF IInv, NumberLeft
<1>5. seq' \in {ActiveSeq(slots) + 1, ActiveSeq(slots) + 2} /\ PartitionOf(seq') = Dest
      BY <1>1, Typing, NewSeqFits
<1>6. TypeOK'
      <2>1. seq' \in 0..MaxSeq
            BY <1>4, <1>5, MaxSeqAssumption
      <2>2. slots' \in [Slots -> [seq : 0..MaxSeq, state : {"unreadable", "new", "valid", "aborted"}]]
            BY <1>1, ErasedSlot
      <2>3. QED BY <1>1, <1>2, <2>1, <2>2 DEF IInv, TypeOK
<1>7. Dest' = Dest
      BY <1>1 DEF Dest
<1>8. RunningIsWhole' /\ FlashedIsWhole' /\ NumberLeft'
      BY <1>1, <1>7 DEF IInv, RunningIsWhole, FlashedIsWhole, NumberLeft
<1>9. EntryOutranks'
      <2>1. Usable(slots[1 - t]) => slots[1 - t].seq = ActiveSeq(slots)
            BY Typing, ErasingKeepsSelected
      <2>2. Usable(e[1 - t]) => e[1 - t].seq < seq'
            BY <1>3, <1>4, <1>5, <2>1
      <2>3. QED BY <1>1, <1>3, <1>5, <1>7, <2>2 DEF EntryOutranks
<1>10. RollbackReturns'
      <2> HIDE DEF e, t
      <2>1. ~ Usable(e[t])
            BY <1>3 DEF Unreadable, Usable
      <2>2. Selected(e) = IF Usable(e[1 - t]) THEN PartitionOf(e[1 - t].seq) ELSE 0
            BY <1>2, <1>3, <2>1, OtherDecides
      <2>3. Former' = IF Usable(e[1 - t]) THEN PartitionOf(e[1 - t].seq) ELSE 0
            BY <1>1 DEF Former
      <2>4. QED BY <1>1, <1>3, <2>2, <2>3 DEF RollbackReturns, IInv, SelectionFollowsTheInstall
<1>11. NewIsInstalled'
      BY <1>1, ErasedSlot DEF NewIsInstalled
<1>12. SelectionFollowsTheInstall'
      BY <1>1, <1>3 DEF IInv, SelectionFollowsTheInstall
<1>13. QED BY <1>6, <1>8, <1>9, <1>10, <1>11, <1>12 DEF IInv

LEMMA WriteEntryStep ==
    ASSUME IInv, WriteEntry
    PROVE  IInv'
<1> DEFINE n == [seq |-> seq, state |-> "new"]
<1>1. /\ phase = "erased" /\ phase' = "installed" /\ target' = target /\ seq' = seq
      /\ slots' = [slots EXCEPT ![target] = n] /\ image' = image /\ running' = running
      /\ misflashed' = misflashed /\ origin' = origin /\ unchanged' = unchanged
      BY DEF WriteEntry
<1>2. target \in Slots /\ 1 - target \in Slots /\ 1 - target # target /\ seq \in 0..MaxSeq
      BY DEF IInv, TypeOK, Slots
<1>3. TypeOK'
      BY <1>1, <1>2 DEF IInv, TypeOK
<1>4. slots' \in Entries /\ slots'[target] = n /\ slots'[1 - target] = slots[1 - target]
      BY <1>1, <1>2, Typing, MaxSeqAssumption DEF Entries
<1>5. PartitionOf(seq) = Dest /\ (Usable(slots[1 - target]) => slots[1 - target].seq < seq)
      BY <1>1 DEF IInv, EntryOutranks
<1>6. Dest' = Dest /\ Former' = Former
      BY <1>1, <1>4 DEF Dest, Former
<1>7. RunningIsWhole' /\ FlashedIsWhole' /\ NumberLeft' /\ RollbackReturns'
      BY <1>1, <1>6 DEF IInv, RunningIsWhole, FlashedIsWhole, NumberLeft, RollbackReturns
<1>8. EntryOutranks'
      BY <1>1, <1>4, <1>5, <1>6 DEF EntryOutranks
<1>9. NewIsInstalled'
      BY <1>1, <1>2, <1>4 DEF IInv, TypeOK, NewIsInstalled
<1>10. SelectionFollowsTheInstall'
      <2>1. Usable(slots'[target]) /\ slots'[target].seq = seq
            BY <1>4 DEF Usable
      <2>2. Usable(slots'[1 - target]) => slots'[1 - target].seq < slots'[target].seq
            BY <1>4, <1>5, <2>1
      <2>3. Selected(slots') = PartitionOf(seq)
            BY <1>2, <1>4, <2>1, <2>2, HigherDecides
      <2>4. QED BY <1>1, <1>5, <1>6, <2>3 DEF SelectionFollowsTheInstall
<1>11. QED BY <1>3, <1>7, <1>8, <1>9, <1>10 DEF IInv

LEMMA FailStep ==
    ASSUME IInv, Fail
    PROVE  IInv'
<1>1. CASE slots' = slots
      <2>1. origin \in {"card", "network"} /\ unchanged \in BOOLEAN
            BY DEF IInv, TypeOK
      <2>2. QED BY <1>1, <2>1, UpdateOnly DEF Fail, flash
<1>2. CASE phase = "flashed" /\ slots' = [slots EXCEPT ![TargetSlot(slots)] = Unreadable]
      <2>1. /\ phase' = "idle" /\ image' = image /\ running' = running /\ target' = target
            /\ seq' = seq /\ misflashed' = misflashed /\ origin' = origin /\ unchanged' = unchanged
            BY DEF Fail
      <2>2. TypeOK'
            BY <1>2, <2>1, ErasedSlot DEF IInv, TypeOK
      <2>3. Selected(slots') = Selected(slots)
            BY <1>2, ErasedSlot
      <2>4. Dest' = Dest
            BY <2>1 DEF Dest
      <2>5. RunningIsWhole' /\ FlashedIsWhole' /\ NumberLeft' /\ EntryOutranks' /\ RollbackReturns'
            BY <2>1 DEF IInv, RunningIsWhole, FlashedIsWhole, NumberLeft, EntryOutranks, RollbackReturns
      <2>6. NewIsInstalled'
            BY <1>2, <2>1, ErasedSlot DEF NewIsInstalled
      <2>7. SelectionFollowsTheInstall'
            BY <1>2, <2>1, <2>3 DEF IInv, SelectionFollowsTheInstall
      <2>8. QED BY <2>2, <2>5, <2>6, <2>7 DEF IInv
<1>3. QED BY <1>1, <1>2 DEF Fail

\* The entry that is active keeps its number and partition; only its state may change.
LEMMA RestartStep ==
    ASSUME IInv, Restart
    PROVE  IInv'
<1> DEFINE a == ActiveIdx(slots)
<1>1. /\ phase' = "idle" /\ image' = image /\ running' = Bootable(slots') /\ target' = target
      /\ seq' = seq /\ misflashed' = misflashed /\ origin' = origin /\ unchanged' = unchanged
      BY DEF Restart
<1>2. slots \in Entries /\ a \in {-1, 0, 1} /\ (a # -1 => a \in Slots /\ Usable(slots[a]))
      BY Typing, Active DEF Slots
<1>3. a = -1 => slots' = slots
      BY DEF Restart
<1>4. ASSUME a # -1
      PROVE  \E outcome \in {"new", "valid", "aborted"} :
               /\ slots' = [slots EXCEPT ![a].state = outcome]
               /\ slots[a].state # "new" => outcome = slots[a].state
               /\ slots[a].state = "new" /\ image[PartitionOf(slots[a].seq)] = "whole" => outcome # "new"
      <2>1. PICK outcome \in Outcomes(slots[a]) : slots' = [slots EXCEPT ![a].state = outcome]
            BY <1>4 DEF Restart
      <2>2. slots[a].state \in {"new", "valid"}
            BY <1>2, <1>4 DEF Entries, Usable
      <2>3. QED BY <2>1, <2>2 DEF Outcomes
<1>5. TypeOK' /\ slots' \in Entries
      <2>1. slots' \in [Slots -> [seq : 0..MaxSeq, state : {"unreadable", "new", "valid", "aborted"}]]
            BY <1>2, <1>3, <1>4 DEF IInv, TypeOK
      <2>2. slots' \in Entries
            BY <2>1, MaxSeqAssumption DEF Entries
      <2>3. Bootable(slots') \in Partitions
            BY <2>2, SelectedIsOne DEF Bootable, Other, Partitions
      <2>4. QED BY <1>1, <2>1, <2>2, <2>3 DEF IInv, TypeOK
<1>6. RunningIsWhole'
      <2>1. Selected(slots') \in Partitions
            BY <1>5, SelectedIsOne
      <2>2. image[Selected(slots')] = "whole" \/ Selected(slots') = Dest
            BY <2>1, Typing DEF IInv, RunningIsWhole
      <2>3. image[Other(Dest)] = "whole"
            BY Typing DEF IInv, RunningIsWhole
      <2>4. image[Bootable(slots')] = "whole"
            BY <2>2, <2>3 DEF Bootable
      <2>5. QED BY <1>1, <2>4 DEF RunningIsWhole
<1>7. FlashedIsWhole' /\ NumberLeft' /\ EntryOutranks' /\ RollbackReturns'
      BY <1>1 DEF FlashedIsWhole, NumberLeft, EntryOutranks, RollbackReturns
<1>8. ASSUME ~ misflashed
      PROVE  /\ image[Selected(slots')] = "whole"
             /\ \A i \in Slots : slots'[i].state # "new"
      <2>1. CASE phase = "installed"
            <3>1. target \in Slots /\ 1 - target \in Slots /\ 1 - target # target
                  BY DEF IInv, TypeOK, Slots
            <3>2. /\ slots[target] = [seq |-> seq, state |-> "new"] /\ PartitionOf(seq) = Dest
                  /\ Usable(slots[1 - target]) => slots[1 - target].seq < seq
                  BY <2>1 DEF IInv, EntryOutranks
            <3>3. slots[target].seq = seq /\ slots[target].state = "new" /\ Usable(slots[target])
                  BY <3>2 DEF Usable
            <3>4. a = target
                  BY <1>2, <3>1, <3>2, <3>3, HigherDecides
            <3>5. image[PartitionOf(slots[a].seq)] = "whole"
                  BY <1>8, <2>1, <3>2, <3>3, <3>4 DEF IInv, FlashedIsWhole
            <3>6. a # -1
                  BY <3>1, <3>4 DEF Slots
            <3>7. PICK outcome \in {"valid", "aborted"} : slots' = [slots EXCEPT ![target].state = outcome]
                  BY <1>4, <3>3, <3>4, <3>5, <3>6
            <3>8. /\ slots'[target].state = outcome /\ slots'[target].seq = seq
                  /\ slots'[1 - target] = slots[1 - target]
                  BY <1>2, <3>1, <3>3, <3>7 DEF Entries
            <3>9. \A i \in Slots : slots'[i].state # "new"
                  BY <1>8, <3>1, <3>8 DEF IInv, NewIsInstalled, Slots
            <3>10. CASE outcome = "valid"
                   <4>1. Usable(slots'[target]) /\ (Usable(slots'[1 - target]) => slots'[1 - target].seq < slots'[target].seq)
                         BY <3>2, <3>8, <3>10 DEF Usable
                   <4>2. Selected(slots') = Dest
                         BY <1>5, <3>1, <3>2, <3>8, <4>1, HigherDecides
                   <4>3. QED BY <1>8, <2>1, <3>9, <4>2 DEF IInv, FlashedIsWhole
            <3>11. CASE outcome = "aborted"
                   <4>1. ~ Usable(slots'[target])
                         BY <3>8, <3>11 DEF Usable
                   <4>2. Selected(slots') = Former
                         BY <1>5, <3>1, <3>8, <4>1, OtherDecides DEF Former
                   <4>3. Former = running
                         BY <1>8, <2>1 DEF IInv, RollbackReturns
                   <4>4. QED BY <3>9, <4>2, <4>3 DEF IInv, RunningIsWhole
            <3>12. QED BY <3>7, <3>10, <3>11
      <2>2. CASE phase # "installed"
            <3>1. \A i \in Slots : slots[i].state # "new"
                  BY <1>8, <2>2 DEF IInv, NewIsInstalled
            <3>2. slots' = slots
                  <4>1. CASE a = -1
                        BY <1>3, <4>1
                  <4>2. CASE a # -1
                        <5>1. slots' = [slots EXCEPT ![a].state = slots[a].state]
                              BY <1>2, <1>4, <3>1, <4>2
                        <5>2. QED BY <1>2, <4>2, <5>1 DEF Entries
                  <4>3. QED BY <4>1, <4>2
            <3>3. QED BY <1>8, <2>2, <3>1, <3>2 DEF IInv, SelectionFollowsTheInstall, RunningIsWhole
      <2>3. QED BY <2>1, <2>2
<1>9. NewIsInstalled'
      BY <1>1, <1>8 DEF NewIsInstalled
<1>10. SelectionFollowsTheInstall'
      BY <1>1, <1>8 DEF SelectionFollowsTheInstall, Bootable
<1>11. QED BY <1>5, <1>6, <1>7, <1>9, <1>10 DEF IInv

LEMMA InitStep ==
    ASSUME Init
    PROVE  IInv
<1>1. slots \in Entries /\ ~ Usable(slots[0]) /\ ~ Usable(slots[1])
      BY DEF Init, Entries, Slots, Unreadable, Usable
<1>2. TypeOK
      <2>1. Unreadable \in [seq : 0..MaxSeq, state : {"unreadable", "new", "valid", "aborted"}]
            BY MaxSeqAssumption DEF Unreadable
      <2>2. slots \in [Slots -> [seq : 0..MaxSeq, state : {"unreadable", "new", "valid", "aborted"}]]
            BY <2>1 DEF Init
      <2>3. running \in Partitions /\ target \in Slots /\ seq \in 0..MaxSeq
            BY MaxSeqAssumption DEF Init, Partitions, Slots
      <2>4. QED BY <2>2, <2>3 DEF Init, TypeOK
<1>3. Selected(slots) = 0
      BY <1>1 DEF Selected, ActiveIdx
<1>4. RunningIsWhole /\ FlashedIsWhole /\ NumberLeft /\ EntryOutranks /\ RollbackReturns
      BY DEF Init, RunningIsWhole, FlashedIsWhole, NumberLeft, EntryOutranks, RollbackReturns
<1>5. NewIsInstalled
      BY DEF Init, NewIsInstalled, Unreadable
<1>6. SelectionFollowsTheInstall
      BY <1>3 DEF Init, SelectionFollowsTheInstall
<1>7. QED BY <1>2, <1>4, <1>5, <1>6 DEF IInv

LEMMA NextStep ==
    ASSUME IInv, [Next]_vars
    PROVE  IInv'
<1>1. CASE UNCHANGED vars
      <2>1. origin \in {"card", "network"} /\ unchanged \in BOOLEAN
            BY DEF IInv, TypeOK
      <2>2. QED BY <1>1, <2>1, UpdateOnly DEF vars, update
<1>2. CASE Check
      BY <1>2, CheckStep
<1>3. CASE ChangeCard
      BY <1>3, ChangeCardStep
<1>4. CASE StartFlash
      BY <1>4, StartFlashStep
<1>5. CASE FinishFlash
      BY <1>5, FinishFlashStep
<1>6. CASE EraseEntry
      BY <1>6, EraseEntryStep
<1>7. CASE WriteEntry
      BY <1>7, WriteEntryStep
<1>8. CASE Fail
      BY <1>8, FailStep
<1>9. CASE Restart
      BY <1>9, RestartStep
<1>10. QED BY <1>1, <1>2, <1>3, <1>4, <1>5, <1>6, <1>7, <1>8, <1>9 DEF Next

---------------------------------------------------------------------------
\* The invariant holds in every state of every behaviour.
THEOREM IInvHolds == Spec => []IInv
<1>1. Init => IInv
      BY InitStep
<1>2. IInv /\ [Next]_vars => IInv'
      BY NextStep
<1>3. QED BY <1>1, <1>2, PTL DEF Spec

\* Types of the partitions, the entries and the update.
THEOREM Typed == Spec => []TypeOK
<1>1. IInv => TypeOK
      BY DEF IInv
<1>2. QED BY <1>1, IInvHolds, PTL

\* The bootloader selects the running partition until switchTo() has succeeded, and the
\* new one from then on.
THEOREM SelectionIsRight == Spec => []SelectionFollowsTheInstall
<1>1. IInv => SelectionFollowsTheInstall
      BY DEF IInv
<1>2. QED BY <1>1, IInvHolds, PTL

\* A restart at any moment finds a whole image.
THEOREM AlwaysBoots == Spec => []DeviceBoots
<1>1. ASSUME IInv PROVE DeviceBoots
      <2>1. Selected(slots) \in Partitions
            BY <1>1, Typing, SelectedIsOne
      <2>2. image[Selected(slots)] = "whole" \/ Selected(slots) = Dest
            BY <1>1, <2>1, Typing DEF IInv, RunningIsWhole
      <2>3. image[Other(Dest)] = "whole"
            BY <1>1, Typing DEF IInv, RunningIsWhole
      <2>4. QED BY <2>2, <2>3 DEF DeviceBoots, Bootable
<1>2. QED BY <1>1, IInvHolds, PTL
=============================================================================
