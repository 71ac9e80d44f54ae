CONSTANTS
  p1 = p1  p2 = p2
  a = a  b = b
  u1 = u1  u2 = u2 
  Pods <- MCPods
  Digests <- MCDigests
  Wants <- MCWants
  MaxChunkPayload = 2
  MaxInt64 = 9
  Payload <- MCPayload
  Size <- MCSize
  Limit = 2
  MaxBackoff = 2
  MaxFaults = 1
  MaxKills = 1
SPECIFICATION Spec
INVARIANTS TypeOK ReadyIsWhole
PROPERTIES KeepsKnownMounts GetsVolume
