CONSTANTS
  Tasks = {t1, t2}
  KThread = kthread
SPECIFICATION FairSpec
INVARIANTS
  FlushedBeforeReturn
  CommandsAccounted

  
