SPECIFICATION Spec
CONSTANTS
    MaxScans = 3
    r1 = r1
    c1 = c1
    Reports <- FewReports
    Rules <- OneRule
    Conditions <- GradeRules
    Channels <- OneChannel
INVARIANT TypeOK
INVARIANT GradeIsWorst
INVARIANT SuppressedAsRepeat
INVARIANT NoDropMissed
