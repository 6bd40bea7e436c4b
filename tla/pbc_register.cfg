SPECIFICATION Spec
CONSTANTS
  fa = fa
  fb = fb
  fc = fc
  fd = fd
  fe = fe
  fg = fg
  fh = fh
  fi = fi
  descriptor = descriptor
  NULL = NULL
  Name <- MCName
  Hash <- MCHash
  File = {fa, fb, fc, fd, fe, fg, fh, fi}
  Base = descriptor
  Deps <- MCDeps
  Decls <- MCDecls
  Sets <- MCSets
INVARIANTS IndexSound EnumsSound Linked
PROPERTIES Verdict CallEnds
