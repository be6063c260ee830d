CONSTANTS Parts = {"tables"}
          c1 = c1 c2 = c2 d = d x = x y = y z = z w = w auto = auto plain = plain
          n1 = n1 n2 = n2 n3 = n3 u1 = u1 u2 = u2 a1 = a1 a2 = a2 b1 = b1
          None = none
          Content = {c1, c2} DirectRev = {d} Key = {k} Plan <- Plans
          Chunkings = {auto, plain} Sent <- Sents
          MaxChunks = 2 MaxNumber = 2 MaxMutations = 2
          Name = {n1, n2} Uri = {u1, u2} Rank <- Ranks MaxAliases = 1 MaxForgot = 1
          Entry = {n1} WithGraph = TRUE RetryLimit = 2 MaxEpoch = 2 WalFaults = 1
          PurgeRetries = 1 LegacyFaults = 1
          Assertion = {a1, a2, w, b1} AgentOf <- Agents TopicOf <- Topics ChunkOf <- Chunks
          Cited = {a1, a2} Earlier = {a1} Projected = {a1, w}
          SearchScope <- Scopes GraphPath <- Paths
          Limit = 2 MaxExact = 2 Pool = 2 Near = 1 Best = 1 SearchSeeds = 1 MaxCached = 1
          MaxEvents = 2 MaxSearches = 2 RetrievalFaults = 1
          Vector = {n1, n2, n3} MaxSpace = 2 TableFaults = 2
          Node = {n1, n2} Triple = {a1, b1} SubjectOf <- Subjects ObjectOf <- Objects
          StoreFaults = 1
          Edge = {a1, a2, b1, w} EdgeFrom <- Tails EdgeTo <- Heads Weak = {w}
          WalkScope <- WalkScopes MaxHops = 3 MaxSeeds = 2 MaxFrontier = 2
          MinRows = 2 MaxRows = 3 MaxFanout = 2 MaxChanges = 4 MaxWalks = 1
          Op = {n1, n2} Forgetting = {n2} Payload = {p1} Caller = {c1} Approver = w
          Threshold = 1 MaxApprovals = 2 MaxRequests = 2 GatewayFaults = 1
          Memory = {n1} MaxAttempts = 2 Batch = 2 MaxLetters = 3 LetterFaults = 2
          Process = {p1, p2} MaxRestarts = 1 RootFaults = 1
          Fact = {a1, a2} Unsafe = {a2} Server = w MigrationFaults = 1
          Record = {1, 2, 3} TenantOf <- Tenants Bytes <- Sizes
          MaxRecords = 2 MaxBytes = 3 MaxInFlight = 2 MaxRetrying = 2
          QueueAttempts = 2 QueueRetries = 2 QueueFaults = 1
SPECIFICATION Spec
PROPERTIES RollbackKeepsOriginal
CHECK_DEADLOCK FALSE
