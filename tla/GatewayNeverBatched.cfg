SPECIFICATION FairSpec
CONSTANTS
  Requests = {r1, r2}
  i1 = i1
  Ids = {i1}
  elsewhere = elsewhere
  Texts <- MCTexts
  Stamps <- MCStamps
  Now <- MCNow
  Unparsable = Unparsable
  Dtos <- MCDtos
  Routes = {"rest", "unary", "stream", "batch"}
  NoMessage = NoMessage
  FreshWindow = 0
  PortFaults <- NoFaults
  MaxClock = 1
  MaxBoots = 1
PROPERTY AggregatedIsBatched
