SPECIFICATION Spec
CONSTANTS
  r1 = r1
  r2 = r2
  Requests = {r1, r2}
  Passwords = {"old", "new"}
  FirstPassword = "old"
  MaxTokens = 2
  MaxSessions = 2
SYMMETRY Symmetry
INVARIANTS TypeOK OlderSessionsEnd ResetSpendsTokens OneUsableToken TokenSingleUse
PROPERTIES MailedTokenWorks
