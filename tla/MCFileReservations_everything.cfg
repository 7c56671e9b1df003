SPECIFICATION ReservationsSpec
CONSTANTS
  w1 = w1
  w2 = w2
  m1 = m1
  m2 = m2
  Reservers = {h1, h2}
  Workers = {w1, w2}
  Missions = {m1}
  MissionOf <- TheMissions
  Patterns <- AnyPattern
  Requests <- AnyRequests
  Files <- TheFiles
  MaxReservations = 2
INVARIANTS NoSharedFile
