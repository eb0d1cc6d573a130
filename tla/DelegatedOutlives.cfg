SPECIFICATION DelegatedSpec
CONSTANTS
  DelegatedRuns = {d1, d2}
  NoLeaseHolder = NoLeaseHolder
  MaxNotes = 2
INVARIANT ReapedBeforeReturn
