\* Every query against every dictionary of up to six entries out of a stock in
\* which affixes, flags, capitals and duplicates meet.
SPECIFICATION IndexSpec
CONSTANTS
  AffFiles <- MCAffFiles
  DicFiles <- MCDicFiles
  Queries <- MCQueries
INVARIANTS TablesHoldLanguage AnswersAreTrue
