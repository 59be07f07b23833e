CONSTANTS
  None = None
  Tasks <- MCTasks
  Rank <- MCRank
  InitialTaskID = "greeting"
  Variables <- MCVariables
  VisibleAfter <- MCVisibleAfter
  DisappearAfter <- MCDisappearAfter
  VisibleToolIDs <- MCToolIDs
  GlobalTools = {"faq"}
  ToolRegistry = {"calendar", "faq"}
  PermanentTools = {"end_call", "continue_listening"}
  Values <- MCValues
  EmptyString = ""
  Enum <- MCEnum
  Regex <- MCRegex
SPECIFICATION Spec
INVARIANTS
  TasksUnlockInOrder
  CompletionMatchesVariables
  PromptMatchesProgress
