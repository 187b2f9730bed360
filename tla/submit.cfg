CONSTANTS
  NServers = 3
  Fds = {f1, f2}
  NoFd = NoFd
  MaxSamples = 2
SPECIFICATION FairSpec
\* The thread ends at a stop flag, or spins on a closed connection.
CHECK_DEADLOCK FALSE
INVARIANTS
  SocketValid
  OneConnection
  CreditIsEarned
  AllServersTried
  FewDuplicates
PROPERTY CallReturns
