SPECIFICATION Spec
CONSTANTS
    Barcode = {b1, b2}
    c1 = c1
    c2 = c2
    Client = {c1, c2}
    Degrading = {c2}
    Station = {1, 2}
    At <- InOrder
    Thread = {t1}
    MaxProduct = 2
    Config <- Route
    None = None
SYMMETRY Symmetry
CONSTRAINT OneRelabelled
INVARIANTS TypeOK NoSkippedStation CompletionTraceable
