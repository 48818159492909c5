\* A search of an image after one of a host directory.
SPECIFICATION Spec
CONSTANTS
  NUM_DRIVES = 3
  Backend <- MCBackend
  Names <- MCNames
  ImageDrives = {1}
  HostDirs = {0}
  UnopenedDrives = {2}
  SPT = 2
  Tracks = 2
  Values = {0, 1}
  NoValue = NoValue
PROPERTY SearchStaysOnItsBackend
