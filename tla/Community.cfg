CONSTANTS
  None = None
  Users = {adm, u1}
  Admin = adm
  Sites = {p, s1, s2}
  Primary = p
  Docs = {d1}
  Categories = {c1}
  Tokens = {t1, t2}
  Requests = {r1, r2}
  MaxRevisions = 2
  MaxAppearances = 2
  MaxWrites = 5
  Collaboration = TRUE
  DropsAwaitedTask = TRUE
SPECIFICATION Spec
SYMMETRY Symmetry
INVARIANTS OneOwner
PROPERTIES AuthorisedWhenApplied PublicChangesAnnounced
