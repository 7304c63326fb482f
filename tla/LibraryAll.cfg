CONSTANTS
  Conf <- ConfDef
  Defaults <- DefaultsDef
  Handles = {h1, h2}
  h1 = h1
  h2 = h2
  NoFile = NoFile
  Static = Static
  Names = {has, site}
  Provides <- ProvidesDef
  Lacks <- LacksDef
  PathModules = {"yaml"}
  yaml_path = yaml_path
  YamlPaths <- YamlPathsDef
  DefaultPath = DefaultPath
  Freed = Freed
  Null = Null
  cluster = cluster
  has = has
  site = site
  here = here
  there = there
  elsewhere = elsewhere
SPECIFICATION Spec
SYMMETRY HandleSymmetry
INVARIANTS FunctionsAsConfigured PathAsConfigured PluginsAsConfigured StaticPoolOnce
CHECK_DEADLOCK FALSE
