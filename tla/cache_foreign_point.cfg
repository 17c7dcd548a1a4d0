SPECIFICATION Spec
CONSTANTS
  udp = udp
  tcp = tcp
  mon = mon
  a1 = a1
  a2 = a2
  a3 = a3
  x = x
  y = y
  Producer = {udp, mon}
  Name = {x, y}
  Sends <- MonOwn
  Addr = {a1, a2}
  MaxLines = 3
  DiskFails = FALSE
INVARIANT OwnFile
