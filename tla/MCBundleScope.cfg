SPECIFICATION Spec
CONSTANTS
    Names <- TwoNames
    Values <- TwoValues
    Entries <- NewValue
    Secrets <- OneSecret
    Keys <- TwoKeys
    Key <- HereKey
    Databases <- InUseOnly
    Documents <- NoDocuments
    MaxChanges = 2
PROPERTY GlobalRulesAreGlobal
