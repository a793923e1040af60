CONSTANTS
  Threads = {t1, t2}
  Insts = {i1}
  Vals = {v1, v2, v3}
  Blocks = {b1, b2, b3}
  Libs = {liba, libb}
  Exports = {liba}
  NULL = NULL
SPECIFICATION FairPluginSpec
INVARIANTS TypeOK ImportedIsLoaded UsesExact CountExact PluginIInv PluginCodeMapped
PROPERTIES ImplementsRefs GivenBack PluginsDeleted
