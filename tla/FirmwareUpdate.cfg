CONSTANT MaxSeq = 8
SPECIFICATION Spec
INVARIANTS
    TypeOK
    SelectionFollowsTheInstall
    DeviceBoots
