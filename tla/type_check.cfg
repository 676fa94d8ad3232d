SPECIFICATION Spec
CONSTANT Traits <- MCTraits
CONSTANT Programs <- MCPrograms
INVARIANTS FollowsScopes RejectedExactly TableIsCurrent CallsAreOrdered CallsFit
PROPERTY ImplementsChecks
