SPECIFICATION Spec
CONSTANTS
    Names <- TwoNames
    Values <- TwoValues
    Entries <- NewValue
    Secrets <- OneSecret
    Keys <- TwoKeys
    Key <- HereKey
    Databases <- InUseOnly
    Documents <- ForeignDocuments
    MaxChanges = 2
INVARIANT TypeOK
INVARIANT QuietExportAccepted
INVARIANT RoundTrip
INVARIANT SecretsReadable
INVARIANT ImportIdempotent
PROPERTY ImportAllOrNothing
