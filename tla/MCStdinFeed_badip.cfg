\* A line whose address does not parse.
SPECIFICATION StdinSpec
CONSTANTS
    Pill = Pill
    NoResult = NoResult
    max_pending_results = 2
    Addresses = {t1}
    BadIps = {host}
    NoMatches = {junk}
    MaxLines = 2
INVARIANT StdinResultsAreProcessed
