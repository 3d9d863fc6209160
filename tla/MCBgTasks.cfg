SPECIFICATION BgFairSpec
CONSTANTS
  Runner = Runner
  Lister = Lister
  api = api
  job = job
  Starters = {api}
  Jobs = {job}
  Clients <- MCClients
  MaxNum = 3
INVARIANTS NothingLost NoTaskWaitsForTaker ListingInOrder
PROPERTIES ImplementsFIFO PutAndListReturn PutIsRun CloseStopsRunner
