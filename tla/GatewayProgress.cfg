SPECIFICATION FairSpec
CONSTANTS
  Requests = {r1, r2, r3}
  i1 = i1
  Ids = {i1}
  elsewhere = elsewhere
  Texts <- MCTexts
  Stamps <- MCStamps
  Now <- MCNow
  Unparsable = Unparsable
  Dtos <- MCOneKey
  Routes = {"rest", "stream"}
  NoMessage = NoMessage
  FreshWindow = 0
  PortFaults <- SomeFaults
  MaxClock = 1
  MaxBoots = 2
PROPERTY EveryRequestEnds
