SPECIFICATION CliSpec
CONSTANTS
  A = A
  B = B
  a1 = a1
  b1 = b1
  login = login
  logout = logout
  Threads <- MCThreads
  Procs <- MCProcs
  ProcOf <- MCProcOf
  Nobody = Nobody
  MaxCalls = 2
  MaxFaults = 1
  Logins <- OneLogin
  Logouts <- OneLogout
  MaxCommands = 1
CONSTRAINT CallsAndFaults
SYMMETRY Alike
INVARIANTS
  CliTypeOK
  LoginKeepsCredential
  LoginDisturbsNoMint
  LogoutForgets
