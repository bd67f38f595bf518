\* Two replicas with two migrations; two replicas and a worker with one bucket and two files.
SPECIFICATION Spec
CONSTANTS
    a1 = a1
    a2 = a2
    w1 = w1
    s1 = s1
    l1 = l1
    i1 = i1
    f1 = f1
    f2 = f2
    NoFile = NoFile
    Processes <- Names
    Kind <- KindOf
    Releases = 2
    Envs <- EnvironmentsOf
    Files = {f1, f2}
    Foreign <- OtherDeployment
    Scenes <- ScenesOf
CHECK_DEADLOCK FALSE
INVARIANTS
    SchemaInOrder
    ServesItsSchema
    FilesAreFound
PROPERTY SomeoneServes
