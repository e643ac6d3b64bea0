SPECIFICATION Spec
CONSTANTS
  None = None
  Links <- MCLinks
  Manifest <- MCManifest
  RuntimeData = {"stdout"}
  Forbidden = {"setjmp"}
  HostWrite = "host_write"
  Main = "main"
  MainWithParams = {"arguments"}
  PlainMain = "int"
  Convertible <- MCConvertible
  Heap = "ag_rt_heap"
  DataBase = 8
  HeapFloor = 100
  HeapAlign = 16
  PageSize = 64
  MaxPages = 6
  AddressLimit = 400
INVARIANTS
  ReferencesMean
  MemoryApart
  RefusalsRight
  ExportsRight
CHECK_DEADLOCK FALSE
