SPECIFICATION Spec
CONSTANTS
    Families <- AllFamilies
    MaxPort = 10
INVARIANT CidrMatchesLeadingBits
INVARIANT RangesAsDocumented
INVARIANT AcceptsWhatIsSpelled
INVARIANT PrintedParsesBack
