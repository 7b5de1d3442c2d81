CONSTANTS
    r1 = r1
    r2 = r2
    Refs = {r1, r2}
    FileSizes = {1024, 20480, 61440}
    VolumeSizes = {10240, 40960}
    Vcpus = {1, 2}
    Memories = {2048, 4096}
    MaxVolumes = 1
    None = None
    RuntimeError = RuntimeError
INIT Init
NEXT Next
INVARIANT MicroVmNotDearer
