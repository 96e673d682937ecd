CONSTANTS
    Rules <- MCRules
    Records <- MCRecords

SPECIFICATION Spec
INVARIANT TypeOK
INVARIANT ParserAcceptsGrammar
INVARIANT ParseRoundTrip
INVARIANT IfOnlySelectedBranch
INVARIANT CoalesceStopsAtFirstNonNull
INVARIANT LazyAgreesWithStrict
