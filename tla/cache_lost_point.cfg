SPECIFICATION Spec
CONSTANTS
  udp = udp
  tcp = tcp
  mon = mon
  a1 = a1
  a2 = a2
  a3 = a3
  x = x
  y = y
  Producer = {udp}
  Name = {x}
  Sends <- BothSend
  Addr = {a1, a2}
  MaxLines = 2
  DiskFails = FALSE
INVARIANT NoPointLost
