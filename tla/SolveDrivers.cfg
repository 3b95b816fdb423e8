\* Locks and solves over a manifest that the user edits in between, while runs
\* are killed.
SPECIFICATION Spec
CONSTANTS
    app = app  lib = lib  abi = abi
    NoFile = NoFile
    Names = {app, lib, abi}
    Anchors = {abi}
    CondaOf <- MCCondaOf
    Drafts <- MCDrafts
    Errors <- MCErrors
    Envs = 2
    Commands <- MCCommands
    MaxRepairs = 2
    MaxEdits = 1
    MaxCrashes = 1
INVARIANTS
    TypeOK
    LockRollsBackToItsStart
    RendersAreFresh
    EditorIsCurrent
    HardCapNeverBites
    AnchorsAreNeverEdited
PROPERTIES
    RevertUndoesTheRepair
