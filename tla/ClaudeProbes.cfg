SPECIFICATION ProbesSpec
CONSTANTS
  Providers = {"claude_code"}
  MaxTokens = 2
  MaxFailures = 1
PROPERTIES ClaudeComesBack
