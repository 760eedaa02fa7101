\* Two summaries, a job of each and a sweep; nothing fails.
SPECIFICATION IngestionSpec
CONSTANTS
  Summaries = 2
  Ingestion = {i1, i2, i3}
  IngestionAttempts = 3
  MaxIngestionFaults = 0
PROPERTY SweepsIngestNew
CHECK_DEADLOCK FALSE
