\* A name, a mask or a file is read, and that is all.
SPECIFICATION MCSpec
CONSTANTS
  Bytes = {0, 1, 2, 192}
  Size = 6
  MaxName = 5
  Letters = {97}
  MaxText = 4
  MaskBytes = {42, 63, 35, 65, 97}
  NameBytes = {97, 49}
  MaxMask = 4
  MaxMasked = 3
  NuhBytes = {97, 33, 64, 46}
  MaxNuh = 5
  NickSize = 3
  UserSize = 3
  HostSize = 4
  NormalSize = 9
  Compared = {64, 65, 90, 91, 94, 95, 96, 97, 122, 123, 126, 127, 192, 224}
  V4Numbers <- MCV4Numbers
  V4Lengths <- MCV4Lengths
  V6Words <- MCV6Words
  V6Lengths <- MCV6Lengths
  Flips <- MCFlips
  Texts <- MCTexts
  OnDisk = {"pgsql", "nickserv", "chanserv", "bopm"}
  Start <- MCStart
INVARIANT InputIsRead
CHECK_DEADLOCK FALSE
