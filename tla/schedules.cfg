SPECIFICATION SkedsSpec
CONSTANTS
  lister = lister
  writer = writer
  home = home
  away = away
  fan = fan
  scene = scene
  lamp = lamp
  ServiceCall = {lister, writer}
  Hub = {home, away}
  Unsaid = Unsaid
  Owner = {fan, scene, lamp}
  Scenes = {scene}
  HubOf <- MCHubOf
  Id = {1, 2, 3}
  Body = {1, 2}
  Before <- MCBefore
  AsksOf <- MCAsksOf
  Others <- MCOthers
  MaxFailures = 1
  MaxOthers = 2
INVARIANTS ListedTogether
