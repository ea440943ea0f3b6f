SPECIFICATION Spec
CONSTANTS
    Commands <- MCCommands
    Objects = {"o1"}
    Ifaces = {"i1"}
    OddAnswers = 1
    Tests <- MCTests
    TestCodes = {0, 1, 2}
    Packages = {"p1", "p2", "p3"}
    Components = {"c1", "c2", "c3", "c4"}
    Categories = {"k1", "k2", "k3"}
    CategoryOf <- MCCategoryOf
    PackagesOf <- MCPackagesOf
    Rules <- MCRules
    Drafts = {"c3"}
    Sections <- MCSections
    SectionOf <- MCSectionOf
    Archs = {"x86_64", "aarch64"}
    Languages = {"ru", "en"}
    Desktops = {"kde"}
    SectionOption <- MCSectionOption
    CategoryOption <- MCCategoryOption
INVARIANTS
    ManualRemovalAgreed
    FailureIsRemembered
    CategoryIsSummary
    AcceptedIsApplied
PROPERTIES
    FilterKeepsAsked
    CommandEnds
