CONSTANTS
    arr1 = arr1
    arr2 = arr2
    ref1 = ref1
    ref2 = ref2
    ref3 = ref3
    obj1 = obj1
    obj2 = obj2
    Handle <- MCHandle
    Width <- MCWidth
    Vars = {1, 2}
    None = none
    Arrays = {arr1}
    Refs = {ref1, ref2, ref3}
    Objects = {obj1, obj2}
    Clears = {obj1}
    Collects = {obj2}
    BufSize = 3
    MaxRefs = 4
    Cells <- Nodes
    ObjCells <- Objects
SYMMETRY Symmetry
SPECIFICATION StepSpec
INVARIANTS
    TypeOK
    CountsExact
    NothingDangles
    RootsTidy
    DestructedOnce
    CollectsGarbage
    Agrees
    CollectsExactly
    CountsRestored
    ZeroIsGarbage
