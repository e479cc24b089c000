SPECIFICATION Spec
CONSTANTS
  AcNames = {"a", "base", "data", "log", "web", "pre-start", "post-stop", "stopped", "homepage", "documentation"}
  AcVersions = {"1.0.0"}
  AbsPaths = {"/app", "/pre", "/post", "/srv", "/data", "/log"}
  ImageIds = {"sha-1"}
  Uuids = {"u-u-i-d"}
  EnvNames = {"PATH", "X", "USER"}
  HttpUrls = {"http://a"}
  Archives <- MCArchives
  Replacements <- MCReplacements
  Runtimes <- MCRuntimes
  NumberOf <- MCNumberOf
  PasswdNames <- MCPasswdNames
  DefaultEnv <- MCDefaultEnv
INVARIANTS UseInv ExtractsRootfs VerdictAsMeant ExecutesDeclared RewriteKeeps
