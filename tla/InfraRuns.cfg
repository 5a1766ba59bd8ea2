SPECIFICATION Spec
CONSTANTS
  Runs = {r1, r2}
  Files = {f1}
  Branches = {b1, b2}
  Modes = {"inplace", "refined", "isolated"}
  EditTypes = {"search_replace", "hcl_attribute"}
  RequireClean = TRUE
  Push = TRUE
  OpenPR = TRUE
  Kills = TRUE
  UserWorks = TRUE
  Base = Base
  None = None
CHECK_DEADLOCK FALSE
SYMMETRY Symmetry
CONSTRAINT OneEditType
ACTION_CONSTRAINT OnlyEdits
INVARIANTS TypeOK IsolatedRunsLeaveCheckoutAlone CommitIsOwnWork PullRequestCarriesCommit NothingTemporaryIsLeft
