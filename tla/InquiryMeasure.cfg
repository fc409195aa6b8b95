CONSTANTS
  Cases = 2
  MaxFaults = 3
  Interruptible = {"begin", "loop", "announce", "driver", "attach", "announceConsumer", "consumer", "attachConsumer",
    "progress", "append", "checkpoint", "after", "scan", "raise", "score", "link", "hash", "seal", "replace",
    "published", "reset", "archive", "rescore", "rewrite", "reseal"}
SPECIFICATION MeasureSpec
INVARIANTS SealedReplays
PROPERTIES PassesAreEarned EvidenceKept EndsReplayable
CHECK_DEADLOCK FALSE
