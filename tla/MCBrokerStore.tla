--------------------------- MODULE MCBrokerStore ---------------------------
(* Small ledgers for TLC: one device with two operations, or two devices.  *)
EXTENDS BrokerStore, TLC

CONSTANTS d1, d2, o1, o2, o3, f1, f2, a1, a2, h1, h2, r1, r2

\* o3 is the only operation of the second device.
MCDeviceOf == [op \in Op |-> IF op = o3 THEN d2 ELSE d1]
MCArtifactDevice == [a \in Artifact |-> d1]
MCArtifactSize == [a \in Artifact |-> IF a = a1 THEN 2 ELSE 1]

\* One prompt per flow, and one with an attachment.
PlainRequests == {[flow |-> f, artifacts |-> {}, size |-> 1] : f \in Flow}
ArtifactRequests ==
    {[flow |-> f1, artifacts |-> s, size |-> 1] : s \in SUBSET Artifact}
=============================================================================
