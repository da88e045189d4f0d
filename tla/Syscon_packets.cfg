SPECIFICATION SerialSpec
CONSTANTS
  Plugins = {p1}
  Buttons = {menu, toggle}
  MenuMasks = {{menu}}
  ToggleMasks = {{}, {toggle}}
  MaxCalls = 2
PROPERTIES
  ChainCalled
