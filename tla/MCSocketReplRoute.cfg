\* Two connections at once: where output goes.
CONSTANTS
  Cmd = cmd
  Conns = {c1, c2}
  Timers = {t1}
  NoOne = no_one
  Namespaces = {cljs_user}
  UserNs = cljs_user
  Forms = {"value"}
  MaxForms = 2
  Overlap = FALSE
SPECIFICATION Spec
INVARIANT OutputGoesHome
