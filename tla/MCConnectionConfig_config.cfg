CONSTANTS
  Texts <- MCTexts
  Overrides <- MCOverrides
  Edits <- MCEdits
  Form <- MCForm
  Addresses = {1, 2, 3}
  Hostnames = {9}
  Resolved = {1, 2}
  Samples <- MCSamples
SPECIFICATION Spec
INVARIANT ParsesWhatItSays
INVARIANT UnchangedNeverStale
INVARIANT RunsWhatWasAdded
INVARIANT OverrideTakesEffect
INVARIANT FingerprintsDiffer
CHECK_DEADLOCK FALSE
