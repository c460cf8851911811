SPECIFICATION Spec
CONSTANTS
    d1 = d1  d2 = d2
    o1 = o1  o2 = o2  o3 = o3
    f1 = f1  f2 = f2
    a1 = a1  a2 = a2
    h1 = h1  h2 = h2
    r1 = r1  r2 = r2
    Device = {d1}
    Op = {o1, o2}
    DeviceOf <- MCDeviceOf
    Flow = {f1}
    Artifact = {a1, a2}
    ArtifactDevice <- MCArtifactDevice
    ArtifactSize <- MCArtifactSize
    TextArtifact = {a1}
    Request <- ArtifactRequests
    NoRequest = NoRequest
    Handle = {h1, h2}
    NoHandle = NoHandle
    Result = {r1, r2}
    LargeResult = {r2}
    NoResult = NoResult
    ReceiptStatus = {"stored"}
    MaxPending = 1
    MaxArtifactBytes = 3
    DeviceQuota = 2
    MaxSequence = 4
INVARIANTS AdmissionBound QuotaRespected ReceiptsMatch
PROPERTIES IdentitiesStable
