CONSTANTS
  Names = {"dot", "a", "b", "B"}
  Hidden = {"dot"}
  Rank <- RankIgnoringCase
  InitialCapacity = 1
  Runs = {r1, r2}
  Adders = {a1, a2}
  Extractors = {x1, x2}
  Sender = s1
  OtherSenders = {s2, s3}
  Receiver = v1
  Keys = {k1}
SPECIFICATION FairSpec
INVARIANTS TypeOK FreedOnce ShowsAllSorted CleanedUpOnce ReportCanBeReliedOn FirstLineOnce LostOnlyInARace NoFifoLeftBehind NoOldSegment
PROPERTIES DeliveredOrKilled TheyMeet NeverOlder
