\* Two connections, one set up after the other, timers, and either kind of terminal.
CONSTANTS
  Cmd = cmd
  Conns = {c1, c2}
  Timers = {t1}
  NoOne = no_one
  Namespaces = {cljs_user, other_ns}
  UserNs = cljs_user
  Forms = {"value", "throws", "timer", "ns", "in_ns", "incomplete", "quit"}
  MaxForms = 2
  Overlap = FALSE
SPECIFICATION FairSpec
INVARIANTS NamespacesAreKept SessionsAreDedicated OneReplAtATime
INVARIANTS OneConnectionIsRouted PrimaryReadsInItsNamespace
PROPERTY LinesAreServed
