SPECIFICATION Spec
CONSTANTS
    Threads = {t1, t2}
    Patient = {}
    MayFail = FALSE
    MayCrash = FALSE
INVARIANT InstallIsTransactional
