SPECIFICATION Spec
CONSTANTS
    NONE = NONE
    Dictionary <- MCDictionary
    StateKeys <- MCStateKeys
    MorphemeIds <- MCMorphemeIds
    Surfaces <- MCSurfaces
    RootAttributes <- MCRootAttributes
    PhoneticAttributes <- MCPhoneticAttributes
    InlineStack = 3
    Stems <- MCStems
    States <- MCStates
    Calls <- MCCalls
    Samples <- MCSamples
INVARIANTS SearchExact ProgramsMeanConditions AnalysesKeepTheToken GeneratedIsAnalyzed
CHECK_DEADLOCK FALSE
