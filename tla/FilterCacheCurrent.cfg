SPECIFICATION Spec
CONSTANTS
  rule1 = rule1
  rule2 = rule2
  label1 = label1
  label2 = label2
  Rules = {rule1, rule2}
  Labels = {label1, label2}
  LabelOf <- MCLabelOf
  Mails = {mail1, mail2, mail3}
  Edits = {e1, e2}
INVARIANT CacheIsCurrent
