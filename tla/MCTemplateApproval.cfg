CONSTANTS
    Drafts <- MCDrafts
    Versions = {v1, v2}
    First = v1
    Promoters = {p1, p2}
    NoFile = NoFile
    Partial = Partial
SPECIFICATION TemplateSpec
INVARIANTS
    PublishedValid
    DocumentIsOwn
PROPERTIES
    OverwrittenOnlyInRace
SYMMETRY MCSymmetry
