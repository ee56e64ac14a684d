SPECIFICATION Spec
CONSTANTS
  Unset = Unset
  Choices <- MCChoices
  EditedChoices <- MCEditedChoices
  MaxEdits = 3
INVARIANTS ProgramsAgree DoctorSeesWhatRuns
CHECK_DEADLOCK FALSE
