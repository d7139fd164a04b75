SPECIFICATION Spec
CONSTANTS
    Adverts = {a1}
    People = {p1, p2}
    Nobody = Nobody
    Fields = {title}
    Vals = {Blank, good}
    Blank = Blank
    Keep = Keep
    MaxVersion = 3
SYMMETRY ReviewSymmetry
INVARIANTS PublicThroughApproveOrNotAtAll
