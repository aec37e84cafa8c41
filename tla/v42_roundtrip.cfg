\* transparent mode: two characters, both escape characters in turn, and
\* dictionary entries reused once the five free ones are taken
CONSTANTS
  Alphabet <- MCAlphabet
  DictSize <- MCDictSize
  MaxString = 3
  InfoSize = 128
  OutBufSize = 256
  MaxInput = 6
  MaxFrames = 2
  MaxPolls = 8
SPECIFICATION Spec
INVARIANT DecodedPrefix
INVARIANT RoundTrip
INVARIANT FreeNotLive
\* every behaviour ends when the writes and polls are used up; the coder
\* never waits, so there is no deadlock to look for
CHECK_DEADLOCK FALSE
