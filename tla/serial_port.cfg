SPECIFICATION PortSpec
CONSTANTS
  MaxFd = 2
  StdinOpen = TRUE
  Bauds <- SomeBauds
  Lines <- AnyLine
  DataArgs <- SomeData
  ParityArgs <- AllParity
  StopArgs <- AllStop
  FlowArgs <- AllFlow
  BaudArgs <- BaudCalls
  SystemErrors = {"ResourceError"}
INVARIANTS PortTypeOK OneFileWhileAlive OnlyOwnFile LineAsAsked
