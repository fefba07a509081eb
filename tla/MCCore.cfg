\* The decode loop of one context, and two threads that load plugins and look
\* providers up.
SPECIFICATION CoreSpec
CONSTANTS
  Token = {t1, t2}
  NoToken = NoToken
  NoLogits = NoLogits
  NCtx = 4
  NLayers = 2
  Window = 2
  MaxBatch = 3
  Layouts <- AnyLayout
  Thread = {h1, h2}
  anka = anka
  shadow = shadow
  noentry = noentry
  badabi = badabi
  Path = {anka, shadow, noentry, badabi}
  Library = {anka, shadow, noentry, badabi}
  LibOf <- OwnPath
  Entry <- MCEntry
  Provides <- MCProvides
  Builtins <- MCBuiltins
  Name = {"nedolm", "anka"}
  None = None
  MaxCalls = 3
INVARIANTS ContextSound RegistriesAnswer
PROPERTIES ContextKept ImplementsTokenHistory RegistryAppendOnly CallsReturn
