CONSTANTS
  Senders = {s1, s2}
  Receivers = {r1}
  Keys = {k1}
  Pieces = 1
  Numbers = 1
SPECIFICATION FairSpec
PROPERTY RefusedByAnother
