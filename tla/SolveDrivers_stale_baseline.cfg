\* A solve after a lock that ran out of repairs and kept what it had done.
SPECIFICATION Spec
CONSTANTS
    app = app  lib = lib  abi = abi
    NoFile = NoFile
    Names = {app, lib, abi}
    Anchors = {abi}
    CondaOf <- MCCondaOf
    Drafts <- MCDrafts
    Errors <- MCErrors
    Envs = 1
    Commands <- SolveAfterLock
    MaxRepairs = 2
    MaxEdits = 0
    MaxCrashes = 0
INVARIANTS
    SolveRollsBackToItsStart
