\* The three lights through start-up and heartbeats.
SPECIFICATION LightsFairSpec
INVARIANTS
  RestsRight
PROPERTIES
  BlinkSeen
