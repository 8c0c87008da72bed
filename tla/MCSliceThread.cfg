\* Up to three threads and five jobs, any number of calls, failing creations.
CONSTANTS
  MaxThreads = 3
  MaxJobs = 5
SPECIFICATION Spec
INVARIANTS Quiet
PROPERTIES Returns LoopSpec
