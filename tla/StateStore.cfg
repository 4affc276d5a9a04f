\* Queue and heartbeat on one instance, the server on another; writes may fail.
SPECIFICATION Spec
CONSTANTS
  queue = queue
  heartbeat = heartbeat
  server = server
  shared = shared
  serverStore = serverStore
  beatPost = beatPost
  serverPost = serverPost
  Idle = Idle
  Limit = 1
  Threads <- MCThreads
  Duties <- MCDuties
  Instances = {shared, serverStore}
  InstanceOf <- MCInstanceOf
  Runs = {r1}
  Posts = {beatPost, serverPost}
  Sessions = {}
  Senders = {u1}
  IoFaults = TRUE
INVARIANTS
  LossNeedsStaleWriter
  FailedUpdatesStayInvisible
  PollMissesBurstsOnly
PROPERTIES
  UpdatesAreAtomic
