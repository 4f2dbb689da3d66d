SPECIFICATION Spec
CONSTANTS
    Intent = {i1, i2}
    Signature = {s1}
    NoSignature = NoSignature
    Poll = {p1, p2}
    Transfer = {d1}
    MaxMishaps = 1
INVARIANTS TypeOK EachLicenseIsPaid
PROPERTIES VerifiedIsFinal SettlementIsDecided ArchiveIsDelivered
