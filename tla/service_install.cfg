SPECIFICATION Spec
INVARIANTS TypeOK FilesRestored ManagerRestored
