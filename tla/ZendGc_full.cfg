CONSTANTS
    arr1 = arr1
    arr2 = arr2
    ref1 = ref1
    ref2 = ref2
    ref3 = ref3
    obj1 = obj1
    obj2 = obj2
    Handle <- MCHandle
    Width <- MCWidth
    Vars = {1, 2}
    None = none
    Arrays = {arr1, arr2}
    Refs = {ref1, ref2}
    Objects = {obj1}
    Clears = {}
    Collects = {}
    BufSize = 2
SPECIFICATION Spec
INVARIANT RemovedFromBuffer
