SPECIFICATION ImageSpec
CONSTANTS
  Videos <- MCVideos
  Shifts <- MCShifts
  Lights <- MCLights
CHECK_DEADLOCK FALSE
INVARIANTS
  SamplesStayInside
  FrameIsRead
