SPECIFICATION ApartSpec
CONSTANTS
  Undefined = Undefined
  NotCreated = NotCreated
  MaxFailures = 1
  Extents <- MCExtents
  Layouts = {"general"}
  ImageQueues <- MCQueues
  BufferQueues <- MCQueues
  Sizes = {2}
  Data = {"a", "b"}
  Devices <- MCDevices
CONSTANTS
    TimerCount = 2
    MaxMeasurements = 3
    MaxOutstanding = 4
CONSTANTS
  A = A
  Shift = Shift
  MouseLeft = MouseLeft
  LetterCode = LetterCode
  OtherCode = OtherCode
  OtherName = OtherName
  LShift = LShift
  RShift = RShift
  Keys = {A, Shift, MouseLeft}
  Codes = {LetterCode, LShift, RShift, OtherCode}
  Buttons = {MouseLeft}
  Names = {A, Shift, MouseLeft, OtherName}
  key_mappings <- Mappings
  Files <- RemapFiles
  Positions = {1}
  MaxMotion = 1
INVARIANTS
  FamiliesExact
  CommandsValid
  LayoutTracked
  UploadsVisible
  ReadsReturnWrites
  ObjectsAccounted
  OneMeasurement
  UnfetchedIsThere
  KeysFollowTheirPress
  EdgesTellTheChange
