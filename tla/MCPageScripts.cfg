SPECIFICATION Spec
CONSTANTS
    Links <- MCLinks
    Tops <- MCTops
    Bottom <- MCBottom
    Places = {0, 51}
    Browsers <- MCBrowsers
INVARIANTS
    TypeOK
    LastClickWins
PROPERTIES
    NoDeadLink
    PreloaderGoes
CHECK_DEADLOCK FALSE
