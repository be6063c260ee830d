CONSTANTS
    m1 = m1  m2 = m2  r1 = r1  r2 = r2  d1 = d1  None = None
    Mutation = {m1}
    Revision = {r1}
    Document = {d1}
    Worker = {w1}
    RevisionOf <- SoloRevisionOf
    DocumentOf <- OneDocument
    Supersedes <- NoPredecessor
    RetryLimit = 2
    BatchLimit = 3
    Profiles <- WithoutGraph
    Events = {"restart", "store failure"}
SPECIFICATION Spec
PROPERTY CommittedStaysCommitted
