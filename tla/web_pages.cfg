\* Two recordings, one command in the socket, one chunk in the queue; two
\* startup analyses; scripts of three items and four commands, loops of two
\* turns, three edits, two undo entries;
\* two pins and two presses of two pinouts; two serial ports, at most four
\* calls, or one and two sockets; three recordings of at most three samples, chunks of
\* two and a storage that holds four samples.
CONSTANTS
  MaxArms = 2
  MaxCommands = 1
  MaxQueued = 1
  Limits <- MCLimits
  MaxStarts = 2
  StartupModes <- MCStartupModes
  MaxSteps = 4
  MaxLoop = 2
  MaxHistory = 2
  MaxEdits = 3
  MaxItems = 3
  Palette = {"wait"}
  ImportFiles <- MCImportFiles
  Pins = {"p", "q"}
  MaxPresses = 2
  MaxPads = 2
  LinkModes <- MCLinkModes
  Ports = {1, 2}
  MaxKept = 3
  MaxRecorded = 3
  PreviewMax = 2
  ChunkMax = 2
  BatchMax = 1
  PreMax = 1
  Quota = 40
  SampleBytes = 10
  MemoryMax = 30
  Forms <- MCForms
  ReadingsSeen <- MCReadings
SPECIFICATION PagesSpec
INVARIANTS RecordingsAreSound AnalysisIsSound ScriptIsSound PadIsSound LinksAreSound ArchiveIsSound
PROPERTIES CompleteIsFinal RearrangingKeepsCommands ImplementsHistory
CHECK_DEADLOCK FALSE
