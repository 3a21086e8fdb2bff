SPECIFICATION AllSpec
CONSTANTS
  p1 = p1
  p2 = p2
  None = None
  Id <- Recs
  Tabs <- Bar
  MaxDepth = 5
  MaxForms = 4
  Impatient = FALSE
PROPERTIES
  Converges GonePageIsLeft
