SPECIFICATION Spec
CONSTANTS
  PartyCount = 3
  Generations = {1, 2, 3}
  Snapshots <- MCSnapshots
  Order <- MCOrder
  First = 1
  Lookups = {4}
  Deployments = {"sockets", "orchestrator"}
  MaxExports = 2
  MaxKills = 1
INVARIANTS TypeOK LoadedIsWhole AnswerOfOneGeneration
PROPERTIES RefusedOnlyIfDisturbed LookupEnds
