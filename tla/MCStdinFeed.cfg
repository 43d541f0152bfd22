\* Addresses that parse, and lines that end the input; up to four lines
\* through a queue of two.
SPECIFICATION StdinFairSpec
CONSTANTS
    Pill = Pill
    NoResult = NoResult
    max_pending_results = 2
    Addresses = {t1, t2}
    BadIps = {}
    NoMatches = {junk}
    MaxLines = 4
INVARIANT StdinResultsAreProcessed
PROPERTY StdinRunEnds
