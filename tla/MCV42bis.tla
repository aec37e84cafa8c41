------------------------------ MODULE MCV42bis ------------------------------
EXTENDS V42bis

\* two characters that are both escape characters in turn (0, then 0 + 51)
MCAlphabet == {0, 51}

\* one character: strings grow fastest, so the compression test passes
MCRunAlphabet == {0}

\* FIRST_FREE + 3: three dictionary entries to add, then reuse
MCDictSize == 262
====
