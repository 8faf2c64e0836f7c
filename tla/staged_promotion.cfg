\* Commands one at a time, submissions at any time, a crash at any point.
SPECIFICATION Spec
CONSTANTS
  frag1 = frag1
  frag2 = frag2
  synth1 = synth1
  synth2 = synth2
  draft = draft
  refined = refined
  fragment = fragment
  config = config
  e1 = e1
  e2 = e2
  Candidates <- SmallCandidates
  Objects = {fragment, config}
  NoObject = NoObject
  Evidence = {e1, e2}
  NoCandidate = NoCandidate
  ObjectOf <- SmallObjectOf
  TaskOf <- SmallTaskOf
  Supersedes <- SmallSupersedes
  Refines <- SmallRefines
  EvidenceOf <- SmallEvidenceOf
  CrashBound = 1
INVARIANTS TypeOK ActiveKeyUnique SupersessionEndsActive CanonicalIsPromoted
INVARIANTS EvidenceLinked IndexCurrent
PROPERTY SupersededSharesNoticed
\* every candidate may be decided
CHECK_DEADLOCK FALSE
