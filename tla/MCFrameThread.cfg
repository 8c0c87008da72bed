CONSTANTS N = 2
          Codecs <- AllCodecs
          RefFailsWith = {"none", "safe"}
          MaxPackets = 3
SPECIFICATION Spec
INVARIANTS NoAbort ContextInOrder HwExclusive
PROPERTIES QueueSpec Returns
