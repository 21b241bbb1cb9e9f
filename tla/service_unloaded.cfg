SPECIFICATION Spec
INVARIANT NothingNewLoaded
