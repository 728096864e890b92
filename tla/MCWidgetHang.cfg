SPECIFICATION FairWidgetSpec
CONSTANTS
  Labels = {"disk", "server"}
  Targets = {"used", "free"}
PROPERTY
  NoApplicationHang
\* a request is answered once
CHECK_DEADLOCK FALSE
