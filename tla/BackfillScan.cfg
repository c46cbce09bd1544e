SPECIFICATION FairBackfill
CONSTANTS
  t1 = t1
  t2 = t2
  m1 = m1
  m2 = m2
  m3 = m3
  k1 = k1
  l1 = l1
  l2 = l2
  Tenants = {t1, t2}
  Emails = {m1, m2, m3}
  Owner <- MCOwner
  Initial = {m1, m2}
  Order <- MCOrder
  Keywords = {k1}
  LabelIds = {l1, l2}
  Capacity = 1
  BatchSize = 2
  Forms <- MCForms
  Changes = {"mail", "label", "assign", "remove"}
  MaxChanges = 1
  MaxFaults = 2
INVARIANT ExistingMailIsLabelled
PROPERTY TenantsAreReleased
