SPECIFICATION FairStudioSpec
CONSTANTS
  here = here
  blank = blank
  garbage = garbage
  w1 = w1
  w2 = w2
  NoSocket = NoSocket
  NoTimer = NoTimer
  NoReplay = NoReplay
  NotPinned = NotPinned
  Sockets = {w1, w2}
  Urls = {here, blank, garbage}
  EmptyUrl = blank
  BadUrls = {garbage}
  MaxTick = 2
  Payloads <- MCPayloads
  Logs <- MCLogs
  KeyStep = 1
  MaxSeen = 4
INVARIANTS
  OneConnection StatusIsOfSocket CaptureComplete ScrubberFits FollowShowsNewest
PROPERTIES ArrivalsLeaveViewAlone NothingAfterDisconnect LossIsRetried
