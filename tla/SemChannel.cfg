CONSTANTS
  Senders = {s1, s2}
  Receivers = {r1}
  Keys = {k1}
  Pieces = 2
  Numbers = 2
SPECIFICATION FairSpec
INVARIANTS TypeOK TornOnlyWhenTakenDown OneSender LeftoversHaveLostIds
PROPERTIES EveryoneGetsIn
