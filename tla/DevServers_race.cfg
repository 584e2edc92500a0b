\* A connection and the auto-start race for one instance, in two scopes that want
\* the same port, and the core is shut down or killed meanwhile.
CONSTANTS
  Clients = {c1}
  s1 = s1
  s2 = s2
  Scopes <- TwoScopes
  Ports <- TwoPorts
  NoPort = NoPort
  Preferred <- BothTheFirst
  AutoStarts <- OneAutoStart
  NoCaller = NoCaller
  Endings <- AnyEnding
  MaxInstances = 1
SPECIFICATION Spec
INVARIANTS
  RunningServersServeTheirPort
  CrashesAreRecorded
  ActiveInstancesHoldTheirLease
PROPERTIES
  InstancesSettle
  CallsAreAnswered
