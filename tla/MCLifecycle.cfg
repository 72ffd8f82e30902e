\* Every port driver, every fault.
SPECIFICATION FairSpec
CONSTANTS
  PortKinds = {"none", "builtin", "slirp4netns", "gvisor-tap-vsock"}
  NPublish = 1
  Faults = {"start", "idmap", "cgroup", "net", "publish", "childPid", "api", "closeApi",
            "fifo", "gainCaps", "userns", "mounts", "setupNet", "run", "listen",
            "accept", "parentKill", "childKill"}
INVARIANTS HandshakeInOrder NetworkNeedsNamespace
 ReadyMeansReady ExitStatusHonest
PROPERTIES TargetDiesWithParent ShutdownPropagates ChildDeathNoticed ParentDeathNoticed
CHECK_DEADLOCK FALSE
