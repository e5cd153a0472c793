SPECIFICATION Spec
CONSTANTS
  Keys = {k1}
  Clients = {c1, c2, c3}
  Kinds = {"cas", "blind"}
  Seeds = {"versioned"}
SYMMETRY Interchangeable
CHECK_DEADLOCK FALSE
PROPERTY StaleWriterCannotWin
