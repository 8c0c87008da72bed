CONSTANTS Thread = {t1, t2, t3}
          Block = {b1, b2}
          NoBlock = NoBlock
          MaxRefs = 2
SYMMETRY Interchangeable
INIT Init
NEXT Next
INVARIANTS CountsSound WriterAlone PoolOutlives NothingLost
