\* Two paths of two records, two slots, programs that keep to one FCB per open file.
CONSTANTS
  Fcb = {f, g}
  Names = {a, b}
  MAX_OPEN_FILES = 2
  Inodes = {i, j}
  Val = {0, 1}
  Zero = 0
  MaxRec = 1
  Exclusive = TRUE
SPECIFICATION Spec
PROPERTY ImplementsFcbFiles
SYMMETRY Symmetry
VIEW View
