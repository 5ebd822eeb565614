SPECIFICATION CatalogSpec
CONSTANTS
  r1 = r1
  r2 = r2
  f1 = f1
  f2 = f2
  n1 = n1
  hidden = hidden
  u1 = u1
  None = None
  Runs = {r1, r2}
  Files = {f1, f2}
  Names = {n1, hidden}
  Allowed = {n1}
  Uploads = {u1}
  NameOf <- SameName
  MaxLog = 2
  MaxFaults = 1
PROPERTIES
  NoListedFileReplaced
