CONSTANTS
  Tasks = {t1, t2}
  Thread = Thread
  Remounter = Remounter
  Nobody = Nobody
SPECIFICATION FairSpec
INVARIANTS
  RequestsAccounted
PROPERTIES
  CheckpointedUnlessTaken
  RequestAnswered
