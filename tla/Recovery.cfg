SPECIFICATION Spec
CONSTANTS
  Inbound = {i1}
  Absent = Absent
  Before = Before
  MaxEdits = 1
  MaxErrors = 1
  MaxKills = 1
INVARIANTS
  TypeOK
  SubEditsKept
  SubStageTells
  TemplateKept
  OutStageTells
