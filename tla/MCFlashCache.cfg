CONSTANTS
  boot = boot
  boot_old = boot_old
  vendor = vendor
  boot_part = boot_part
  vendor_part = vendor_part
  Files = {boot, boot_old, vendor}
  Parts = {boot_part, vendor_part}
  PartOf <- MCPartOf
  Contents = {v1, v2}
  Garbage = garbage
  None = None
  LinkFails = TRUE
  MaxImages = 2
SYMMETRY MCSymmetry
SPECIFICATION Spec
INVARIANTS
  TypeOK
  NamedImagesBoot
  CorruptionTold
PROPERTY CacheLostOnlyBy
