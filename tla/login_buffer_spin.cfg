\* KvProxy with login payloads of 1023 bytes: the frame (1025 bytes) does
\* not fit recvLoginReq's 1024-byte buffer.
CONSTANTS
  r1 = r1  r2 = r2  r3 = r3  r4 = r4  s1 = s1  s2 = s2
  Reqs <- MCReqs
  Sessions <- MCSessions
  SessionOf <- MCSessionOf
  PbSizes = {1023}
  BufSize = 1024
  Malformed = {r4}
  NProc = 2
  Nil = Nil
SPECIFICATION Spec
CHECK_DEADLOCK FALSE
PROPERTY LoginDecided
