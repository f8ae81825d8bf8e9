SPECIFICATION Spec
CONSTANTS Class = "CDC" EpSize = 3 MemSize = 3 MaxBytes = 5 MaxWire = 6
INVARIANT NoOpenReceive
