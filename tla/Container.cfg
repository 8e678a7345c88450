CONSTANTS
    root = root
    scope = scope
    t1 = t1
    t2 = t2
    f1 = f1
    f2 = f2
    f3 = f3
    i1 = i1
    i2 = i2

    Absent = Absent
    Root = root
    Containers = {root, scope}
    Tokens = {t1, t2}
    Registrations = {f1, f2, f3}
    Instances = {i1, i2}
    MaxDepth = 3
SPECIFICATION Spec
SYMMETRY ContainerSymmetry
INVARIANTS
    TypeOK
    NoCaptiveDependency
    SingletonIsWhatItGave
CHECK_DEADLOCK FALSE
