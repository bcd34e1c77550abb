SPECIFICATION ContentSpec
CONSTANTS
  Heaps <- MCHeaps
  Requirements <- MCRequirements
  InputKeys <- MCInputKeys
  MaxDepth = 2
  MaxEntries = 3
  MaxInputs = 2
  Documents <- MCDocuments
  Stages <- MCStages
  Offered <- MCOffered
  MaxLabel = 2
  Catalog <- MCCatalog
  Names <- MCNames
  Original = {"steps", "seed"}
  Runtimes <- MCRuntimes
  Configured <- MCConfigured
  Templates = {"video", "other"}
  Payloads <- MCPayloads
  Budget = 2
  MaxChanges = 2
INVARIANTS WalkDecides GraphIsWhole SchemaIsWhatPluginTakes PinsWereTrue HonestJobsVerify UnqualifiedIsNeverAccepted
CHECK_DEADLOCK FALSE
