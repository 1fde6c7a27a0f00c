CONSTANTS
  Threads = {t1}
  Sigs = {2, 9, 17, 19}
  UserAddr = {100}
  Masks = {{}, {2}, {9}}
  MaxSends = 3
  NoThread = NoThread
SPECIFICATION FairSpec
INVARIANTS TypeOK ReservedSignalsUnblocked
PROPERTY KilledProcessExits
