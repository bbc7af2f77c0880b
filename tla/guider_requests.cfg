SPECIFICATION GuiderSpec
CONSTANTS
  None = None
  Runs = {r1, r2}
  Previews = {p1}
  Clients = {c1, c2}
  Requests = {q1, q2, q3}
  Uses = {"guide", "stop", "dither", "pause", "preview", "settings", "dark"}
SYMMETRY MCSymmetry
INVARIANTS StrayRunsEnd NoStreamForNobody WaitersAreServed HealthTells
