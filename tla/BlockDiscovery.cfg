\* Any request may be lost, also both rounds as a whole, and two set-ups in a row.
SPECIFICATION FairSpec
CONSTANTS
  base = base
  hc1 = hc1
  hc2 = hc2
  dhw = dhw
  link = link
  defrost = defrost
  counter = counter
  t1 = t1
  m1 = m1
  c1 = c1
  s2 = s2
  t2 = t2
  m2 = m2
  c2 = c2
  sd = sd
  td = td
  md = md
  cd = cd
  Reg <- MCReg
  Block = {base, hc1, hc2, dhw}
  BlockOf <- MCBlockOf
  NumGroups = 3
  GroupOf <- MCGroupOf
  NumRounds = 2
  Status = {s2, sd}
  Temp = {t1, t2, td}
  RoomOf <- MCRoomOf
  AlwaysOn = {base, hc1}
  Link = link
  Writable = {defrost, m1, c1, m2, c2, md, cd}
  Resettable = {counter}
  Expert = {defrost}
  Basic = {m1, c1, md, cd}
  Button = {defrost, counter}
  Coded = {m1, m2, md}
  Composite <- MCComposite
  MaxFailures = 2
INVARIANTS TypeOK ControlsAreSound RestartKeepsThermostats
PROPERTIES NoPhantomBlock FittedBlockFound LevelOnlyAdds EntryComesUp
