SPECIFICATION Spec
CONSTANTS
  OpenSets <- CaptureOnly
  Traced <- CaptureOnly
  PeriodOf <- OfCapture
  LapsOf <- OfCapture
CHECK_DEADLOCK FALSE
PROPERTY CaptureFresh
