SPECIFICATION Spec
CONSTANTS
    d1 = d1  d2 = d2
    o1 = o1  o2 = o2  o3 = o3
    f1 = f1  f2 = f2
    a1 = a1  a2 = a2
    h1 = h1  h2 = h2
    r1 = r1  r2 = r2
    Device = {d1}
    Op = {o1, o2}
    DeviceOf <- MCDeviceOf
    Flow = {f1, f2}
    Artifact = {}
    ArtifactDevice <- MCArtifactDevice
    ArtifactSize <- MCArtifactSize
    TextArtifact = {}
    Request <- PlainRequests
    NoRequest = NoRequest
    Handle = {h1}
    NoHandle = NoHandle
    Result = {r1}
    LargeResult = {}
    NoResult = NoResult
    ReceiptStatus = {}
    MaxPending = 2
    MaxArtifactBytes = 3
    DeviceQuota = 3
    MaxSequence = 5
INVARIANTS TypeOK FlowSerialized ClaimedOnce OutboxAgrees FeedContiguous FeedCurrent
PROPERTIES ImplementsLifecycle
