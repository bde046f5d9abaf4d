SPECIFICATION Spec
CONSTANTS
  m1 = m1
  m2 = m2
  u1 = u1
  u2 = u2
  c1 = c1
  c2 = c2
  c3 = c3
  nobody = nobody
  Machines = {m1, m2}
  Users = {u1, u2}
  NoUser = nobody
  Endpoints = {"e1"}
  Calls = {c1, c2, c3}
  Patient = {m1}
  Base = 0
  Bcast = 4
  MaxRows = 3
  MaxPeriods = 2
SYMMETRY CallSymmetry
INVARIANTS
    
    AuthProved
    RegisteredOnce
PROPERTIES
    NothingForgotten
CHECK_DEADLOCK FALSE
