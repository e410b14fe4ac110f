SPECIFICATION Spec
CONSTANTS
    Nodes = {n1, n2, n3, n4, n5}
    Null = Null
SYMMETRY Symmetry
INVARIANTS TypeOK WalksAgree NoDangling Acyclic
PROPERTY ImplementsTree
