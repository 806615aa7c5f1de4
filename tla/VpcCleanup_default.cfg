\* A rule of the default group references another group of the VPC.
CONSTANTS
  e1 = e1
  g1 = g1
  g2 = g2
  dflt = dflt
  s1 = s1
  Default = dflt
  None = None
  ENIs = {e1}
  Groups = {dflt, g1}
  Subnets = {s1}
  SubnetOf <- OneSubnetOf
  GroupOf <- OneGroupOf
  Rules <- DefaultRules
  EniDeleteMaxRetries = 1
  MaxPolls = 1
SPECIFICATION FairSpec
PROPERTIES Converges
