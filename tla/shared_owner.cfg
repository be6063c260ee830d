CONSTANTS
    m1 = m1  m2 = m2  r1 = r1  r2 = r2  d1 = d1  None = None
    Mutation = {m1, m2}
    Revision = {r1}
    Document = {d1}
    Worker = {w1}
    RevisionOf <- TwinRevisionOf
    DocumentOf <- OneDocument
    Supersedes <- NoPredecessor
    RetryLimit = 1
    BatchLimit = 3
    Profiles <- AllLanes
    Events = {"rollback"}
SPECIFICATION Spec
INVARIANT SharedArtifactKept
