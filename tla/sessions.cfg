SPECIFICATION FairSpec
CONSTANTS
  ana = ana  ben = ben  acme = acme
  Processes = {i1}  Browser = Browser
  Codes = {1, 2}  Users = {ana, ben}  Orgs = {acme}
  OrgsOf <- OneMember  Admins = {ben}  Admin = Admin  Needs = {acme, Admin}
  MaxSignIns = 2  MaxFaults = 1
  None = None  Torn = Torn
INVARIANTS SignedInAsGranter OneSessionPerGrant OnlyManagersAct LogoutRevokes
PROPERTY LoginCompletes
