\* One interface, and two groups that reference each other.
CONSTANTS
  e1 = e1
  g1 = g1
  g2 = g2
  dflt = dflt
  s1 = s1
  Default = dflt
  None = None
  ENIs = {e1}
  Groups = {dflt, g1, g2}
  Subnets = {s1}
  SubnetOf <- OneSubnetOf
  GroupOf <- OneGroupOf
  Rules <- CycleRules
  EniDeleteMaxRetries = 2
  MaxPolls = 2
SPECIFICATION FairSpec
INVARIANTS CascadeOrder CleanAfterSuccess BlockersNamed
PROPERTIES Converges Returns
