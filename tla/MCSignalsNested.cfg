CONSTANTS
  Threads = {t1}
  Sigs = {2, 9, 17, 19}
  UserAddr = {100}
  Masks = {{}}
  MaxSends = 2
  NoThread = NoThread
SPECIFICATION Spec
INVARIANT ResumesOwnCode
