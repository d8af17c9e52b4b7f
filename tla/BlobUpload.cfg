SPECIFICATION FairSpec
CONSTANTS
  Blobs = {1, 2}
  Abandoned = {2}
  Workers = {w1, w2}
  Batch = 1
  None = None
INVARIANTS TypeOK AckedUploadIsSafe CommittedIsStored ItemBlobIsStored SessionMatchesBlob
PROPERTIES CommittedStays ExpiredSessionEnds
CHECK_DEADLOCK FALSE
