SPECIFICATION Spec
CONSTANTS
    Barcode = {b1, b2, b3}
    c1 = c1
    c2 = c2
    Client = {c1}
    Degrading = {}
    Station = {1}
    At <- AtOne
    Thread = {t1, t2}
    MaxProduct = 3
    Config <- Workshop
    None = None
SYMMETRY Symmetry
CONSTRAINT FewRecords
INVARIANTS CurrentBarcodeResolves ChildHasOneParent BuiltFromFinished
PROPERTIES NeverBack
