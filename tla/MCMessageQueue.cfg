\* Three threads on two places, two messages, errors set and cleared.
CONSTANTS
  Thread = {t1, t2, t3}
  Msg = {m1, m2}
  Capacity = 2
  NoMsg = NoMsg
SPECIFICATION Spec
INVARIANTS NoLostWakeup
PROPERTIES ChannelSpec
