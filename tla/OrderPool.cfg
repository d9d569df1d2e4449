SPECIFICATION Spec
CONSTANT Capacity = 3
INVARIANTS FreeListIntact AssertionsHold
