SPECIFICATION RemoteSpec
CONSTANTS
  NoImage = NoImage
  Images = {img1, img2}
  Jobs = {"rebuild", "up", "restart"}
INVARIANTS AnswersHold
PROPERTIES InterruptEndsCall
CHECK_DEADLOCK FALSE
