\* one character repeated: the compression test switches to COMPRESSED
\* after about seven characters and back to TRANSPARENT (ETM) after about
\* twenty, with FLUSH codewords on the idle polls between
CONSTANTS
  Alphabet <- MCRunAlphabet
  DictSize <- MCDictSize
  MaxString = 3
  InfoSize = 128
  OutBufSize = 256
  MaxInput = 20
  MaxFrames = 1
  MaxPolls = 22
SPECIFICATION Spec
INVARIANT TypeOK
INVARIANT DictInSync
\* every behaviour ends when the writes and polls are used up; the coder
\* never waits, so there is no deadlock to look for
CHECK_DEADLOCK FALSE
