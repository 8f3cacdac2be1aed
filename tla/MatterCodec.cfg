SPECIFICATION Spec
CONSTANTS
  Messages <- MCMessages
  Extension <- MCExtension
INVARIANTS RoundTrip ExtensionSkipped CutReadsNullOnlyWhenEmpty
CHECK_DEADLOCK FALSE
