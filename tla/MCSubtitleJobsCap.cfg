SPECIFICATION SubtitleSpec
CONSTANTS
  j1 = j1
  j2 = j2
  c1 = c1
  c2 = c2
  s1 = s1
  Job = {j1, j2}
  Candidate = {c1, c2, s1}
  Local = {s1}
  Fits <- MCFits
  Digest <- MCDigest
  None = None
  MaxSubtitles = 1
  Day = 2
  Full = 1
  Batch = 2
  Lease = 1
  Soon = 1
  Later = 2
  Resets = {1}
  Artifact = {1, 2}
  MaxTime = 2
  MaxFaults = 1
CHECK_DEADLOCK FALSE
INVARIANT CapHolds
