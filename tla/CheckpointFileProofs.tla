-------------------------- MODULE CheckpointFileProofs --------------------------
(***************************************************************************)
(* Proofs about CheckpointFile: its type invariant for all faults, and,    *)
(* without the faults that the runs refute, the order of its files and     *)
(* the implementation of CheckpointRegister.                               *)
(***************************************************************************)
EXTENDS CheckpointFileProps, TLAPS

\* Every variable keeps its type, whatever fails.
THEOREM TypeCorrect == Spec => []TypeOK
<1>. USE ValuesAssumption, FaultsAssumption
     DEF Contents, LoadPoints, BeforeWrite, Written, SavePoints, InvalidatePoints
<1>1. Init => TypeOK
  BY DEF Init, TypeOK
<1>2. TypeOK /\ [Next]_vars => TypeOK'
  <2>. SUFFICES ASSUME TypeOK, [Next]_vars
                PROVE  TypeOK'
    OBVIOUS
  <2>. USE DEF TypeOK, Return, Begin, files, locals
  <2>1. CASE Load
    BY <2>1 DEF Load, BeginLoad, Promote, Compare
  <2>2. CASE Save
    BY <2>2 DEF Save, BeginSave, Clean, Open, Write, Retire, Backup, Install, Restore,
                Discard, Sweep
  <2>3. CASE Invalidate
    BY <2>3 DEF Invalidate, BeginInvalidate, RemovePath, RemoveTemporary, RemoveBackup
  <2>4. CASE PowerLoss
    BY <2>4 DEF PowerLoss
  <2>5. CASE ReplaceBook
    BY <2>5 DEF ReplaceBook
  <2>6. CASE UNCHANGED vars
    BY <2>6 DEF vars
  <2>. QED BY <2>1, <2>2, <2>3, <2>4, <2>5, <2>6 DEF Next
<1>. QED BY <1>1, <1>2, PTL DEF Spec

(***************************************************************************)
(* The files are in order at every step of save, load and invalidate, and  *)
(* after a loss of power anywhere (the run CheckpointFile checks it).      *)
(* Without the fault "promotion" load leaves no backup without a file, so  *)
(* the backup that save removes is never the only good copy; without       *)
(* "flush" the temporary file that becomes the file is complete; without   *)
(* "read" what load() returns is what the files hold.                      *)
(***************************************************************************)
THEOREM InOrder == ASSUME Faults = {} PROVE Spec => []FilesInOrder
<1>. USE ValuesAssumption
     DEF Contents, LoadPoints, BeforeWrite, Written, SavePoints, InvalidatePoints
<1>1. Init => FilesInOrder
  BY DEF Init, FilesInOrder, TypeOK, Loaded
<1>2. FilesInOrder /\ [Next]_vars => FilesInOrder'
  <2>. SUFFICES ASSUME FilesInOrder, [Next]_vars
                PROVE  FilesInOrder'
    OBVIOUS
  <2>. USE Faults = {} DEF FilesInOrder, TypeOK, Loaded, Return, Begin, files, locals
  <2>1. CASE BeginLoad
    BY <2>1 DEF BeginLoad
  <2>2. CASE Promote
    BY <2>2 DEF Promote
  <2>3. CASE Compare
    BY <2>3 DEF Compare, Readable
  <2>4. CASE \E c \in Checkpoints : BeginSave(c)
    BY <2>4 DEF BeginSave
  <2>5. CASE Clean
    BY <2>5 DEF Clean
  <2>6. CASE Open
    BY <2>6 DEF Open
  <2>7. CASE Write
    BY <2>7 DEF Write
  <2>8. CASE Retire
    BY <2>8 DEF Retire
  <2>9. CASE Backup
    BY <2>9 DEF Backup
  <2>10. CASE Install
    BY <2>10 DEF Install
  <2>11. CASE Restore
    BY <2>11 DEF Restore
  <2>12. CASE Discard
    BY <2>12 DEF Discard
  <2>13. CASE Sweep
    BY <2>13 DEF Sweep
  <2>14. CASE BeginInvalidate
    BY <2>14 DEF BeginInvalidate
  <2>15. CASE RemovePath
    BY <2>15 DEF RemovePath
  <2>16. CASE RemoveTemporary
    BY <2>16 DEF RemoveTemporary
  <2>17. CASE RemoveBackup
    BY <2>17 DEF RemoveBackup
  <2>18. CASE PowerLoss
    BY <2>18 DEF PowerLoss
  <2>19. CASE ReplaceBook
    BY <2>19 DEF ReplaceBook
  <2>20. CASE UNCHANGED vars
    BY <2>20 DEF vars
  <2>. QED
    BY <2>1, <2>2, <2>3, <2>4, <2>5, <2>6, <2>7, <2>8, <2>9, <2>10, <2>11, <2>12, <2>13,
       <2>14, <2>15, <2>16, <2>17, <2>18, <2>19, <2>20 DEF Next, Load, Save, Invalidate
<1>. QED BY <1>1, <1>2, PTL DEF Spec

(***************************************************************************)
(* The three files implement the register: Install is the one step of save *)
(* that commits, every other one leaves what load() returns alone, and     *)
(* invalidate may uncover the backup until it has removed it.              *)
(***************************************************************************)
THEOREM Implementation == ASSUME Faults = {} PROVE Spec => ImplementsRegister
<1>. USE ValuesAssumption DEF Loaded, Leftover, Request, Answer
<1>1. Init => Register!Init
  BY DEF Init, Register!Init, Register!Idle
<1>2. FilesInOrder /\ [Next]_vars => [Register!Next]_Register!vars
  <2>. SUFFICES ASSUME FilesInOrder, [Next]_vars
                PROVE  Register!Next \/ UNCHANGED Register!vars
    OBVIOUS
  <2>. USE Faults = {}
       DEF FilesInOrder, TypeOK, Contents, LoadPoints, BeforeWrite, Written, SavePoints,
           InvalidatePoints, Return, Begin, files, locals, Register!Idle, Register!Saving,
           Register!Clearing, Register!vars
  <2>1. CASE BeginLoad
    <3>. Register!Forget
      BY <2>1 DEF BeginLoad, Register!Forget
    <3>. QED BY DEF Register!Next
  <2>2. CASE Promote
    BY <2>2 DEF Promote, Register!Next
  <2>3. CASE Compare
    <3>1. CASE call = "save" /\ Loaded = value
      <4>. Register!Confirm
        BY <2>3, <3>1 DEF Compare, Readable, Register!Confirm
      <4>. QED BY DEF Register!Next
    <3>2. CASE ~ (call = "save" /\ Loaded = value)
      <4>. UNCHANGED Register!vars
        BY <2>3, <3>2 DEF Compare, Readable
      <4>. QED OBVIOUS
    <3>. QED BY <3>1, <3>2
  <2>4. CASE \E c \in Checkpoints : BeginSave(c)
    <3>. PICK c \in Checkpoints : BeginSave(c)
      BY <2>4
    <3>. Register!BeginSave(c)
      BY DEF BeginSave, Register!BeginSave
    <3>. QED BY DEF Register!Next
  <2>5. CASE Clean
    BY <2>5 DEF Clean
  <2>6. CASE Open
    <3>. Register!Refuse \/ UNCHANGED Register!vars
      BY <2>6 DEF Open, Register!Refuse
    <3>. QED BY DEF Register!Next
  <2>7. CASE Write
    BY <2>7 DEF Write
  <2>8. CASE Retire
    <3>. Register!Drop
      BY <2>8 DEF Retire, Register!Drop
    <3>. QED BY DEF Register!Next
  <2>9. CASE Backup
    <3>. Register!Drop
      BY <2>9 DEF Backup, Register!Drop
    <3>. QED BY DEF Register!Next
  <2>10. CASE Install
    <3>. Register!Commit \/ UNCHANGED Register!vars
      BY <2>10 DEF Install, Register!Commit
    <3>. QED BY DEF Register!Next
  <2>11. CASE Restore
    BY <2>11 DEF Restore
  <2>12. CASE Discard
    <3>. Register!Refuse
      BY <2>12 DEF Discard, Register!Refuse
    <3>. QED BY DEF Register!Next
  <2>13. CASE Sweep
    <3>. Register!Confirm
      BY <2>13 DEF Sweep, Register!Confirm
    <3>. QED BY DEF Register!Next
  <2>14. CASE BeginInvalidate
    <3>. Register!BeginClear
      BY <2>14 DEF BeginInvalidate, Register!BeginClear
    <3>. QED BY DEF Register!Next
  <2>15. CASE RemovePath
    <3>. Register!Clear \/ UNCHANGED Register!vars
      BY <2>15 DEF RemovePath, Register!Clear
    <3>. QED BY DEF Register!Next
  <2>16. CASE RemoveTemporary
    BY <2>16 DEF RemoveTemporary
  <2>17. CASE RemoveBackup
    <3>. Register!EndClear
      BY <2>17 DEF RemoveBackup, Register!EndClear
    <3>. QED BY DEF Register!Next
  <2>18. CASE PowerLoss
    <3>. Register!Forget
      BY <2>18 DEF PowerLoss, Register!Forget
    <3>. QED BY DEF Register!Next
  <2>19. CASE ReplaceBook
    <3>. Register!ReplaceBook
      BY <2>19 DEF ReplaceBook, Register!ReplaceBook
    <3>. QED BY DEF Register!Next
  <2>20. CASE UNCHANGED vars
    BY <2>20 DEF vars
  <2>. QED
    BY <2>1, <2>2, <2>3, <2>4, <2>5, <2>6, <2>7, <2>8, <2>9, <2>10, <2>11, <2>12, <2>13,
       <2>14, <2>15, <2>16, <2>17, <2>18, <2>19, <2>20 DEF Next, Load, Save, Invalidate
<1>. QED BY <1>1, <1>2, InOrder, PTL DEF Spec, ImplementsRegister, Register!Spec
=============================================================================
