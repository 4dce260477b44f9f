SPECIFICATION Retrying
CONSTANTS
    Threads = {t1, t2}
    Patient = {t1}
    MayFail = TRUE
    MayCrash = TRUE
INVARIANT SuccessIsComplete
PROPERTY InstallResumes
