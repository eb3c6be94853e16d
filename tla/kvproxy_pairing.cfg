\* KvProxy: two sessions log in (a login payload of 1022 bytes, which
\* fills the 1024-byte buffer exactly), then send four requests (r4
\* malformed) to two processors; forwarding may fail, the kvnode answers or
\* drops each forwarded request, timers race the responses.  The proxy
\* idles for good once every session and request is settled.
CONSTANTS
  r1 = r1  r2 = r2  r3 = r3  r4 = r4  s1 = s1  s2 = s2
  Reqs <- MCReqs
  Sessions <- MCSessions
  SessionOf <- MCSessionOf
  PbSizes = {1022}
  BufSize = 1024
  Malformed = {r4}
  NProc = 2
  Nil = Nil
SPECIFICATION Spec
CHECK_DEADLOCK FALSE
INVARIANTS TypeOK RepliesToOwnRequest
PROPERTIES PendingCleared LoginDecided
