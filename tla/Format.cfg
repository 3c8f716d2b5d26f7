CONSTANTS
    LastCluster = 5
    FileSizes = {1, 3}
SPECIFICATION Spec
INVARIANT ProperFat
