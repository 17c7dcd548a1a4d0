SPECIFICATION Spec
CONSTANTS
  udp = udp
  tcp = tcp
  mon = mon
  a1 = a1
  a2 = a2
  a3 = a3
  x = x
  y = y
  Producer = {udp, tcp}
  Name = {x, y}
  Sends <- BothSend
  Addr = {a1, a2, a3}
  MaxLines = 3
  DiskFails = TRUE
SYMMETRY CacheSymmetry
INVARIANTS TypeOK MetricListEnds WriterOnLivePoint WrittenOnce CountedIfCached
